----------------------------- MODULE DeadGuard -----------------------------
(***************************************************************************)
(* falsifiers/dead_guard.py: the falsifier of guards that are there but    *)
(* never fire, run from a spec whose sources it executes.  A spec runs     *)
(* only if the manifest of trusted specs names it, or if its caller does   *)
(* without the manifest.                                                   *)
(*                                                                         *)
(* A source is what executing it and calling its entry do.  The same       *)
(* probe_input is handed to the reference and then to the variant, which   *)
(* sees what the reference has made of the values in it.                   *)
(***************************************************************************)
EXTENDS Naturals

VARIABLES
  spec,       \* the spec
  manifest,   \* trusted_specs.json, as far as this spec is concerned
  withdrawn,  \* history: the manifest was edited after it had been loaded
  at,         \* the next step, "over" at the end
  trusted,    \* what run_from_spec is given for trusted_ids
  executed,   \* which sources have been executed
  fires,      \* reference_fires, once it is known
  outcome

vars == <<spec, manifest, withdrawn, at, trusted, executed, fires, outcome>>

Loads == {"raises", "no entry", "defines"}
Ends  == {"ValueError", "returns", "raises"}
Specs == [shape : {"whole", "malformed", "no JSON", "no pattern"},
          reference : [loads : Loads, marked : BOOLEAN, call : Ends, changes : BOOLEAN],
          variant : [loads : Loads, marked : BOOLEAN, given : Ends, changed : Ends]]
Manifests == {"absent", "unreadable", "undecodable", "names others", "names it"}
Steps == {"load", "shape", "custody", "reference", "variant", "probe", "compare", "over"}

TypeOK ==
  /\ spec \in Specs
  /\ manifest \in Manifests
  /\ withdrawn \in BOOLEAN
  /\ at \in Steps
  /\ trusted \in {"not asked", "first party", "in it", "not in it"}
  /\ executed \subseteq {"reference", "variant"}
  /\ fires \in BOOLEAN
  /\ outcome \in {"none", "SpecError", "Untrusted", "raised", "ok", "not ok"}

Begins ==
  /\ manifest = "absent" /\ withdrawn = FALSE
  /\ at = "load" /\ trusted = "not asked" /\ executed = {}
  /\ fires = FALSE /\ outcome = "none"

Init == spec \in Specs /\ Begins

\* A reviewer approves the spec or takes that back, or the file is damaged.
Review ==
  /\ at # "over" /\ ~withdrawn
  /\ manifest' \in Manifests \ {manifest}
  /\ withdrawn' = (at # "load")
  /\ UNCHANGED <<spec, at, trusted, executed, fires, outcome>>

Ended(result) == at' = "over" /\ outcome' = result
GoesOn(step)  == at' = step /\ UNCHANGED outcome

\* The caller's decision, and load_trusted_ids: no file, no trust.  Bytes that
\* are no text raise an error that is not among those it catches.
LoadTrusted ==
  /\ at = "load"
  /\ \/ trusted' = "first party" /\ GoesOn("shape")
     \/ /\ manifest \notin {"unreadable", "undecodable"}
        /\ trusted' = IF manifest = "names it" THEN "in it" ELSE "not in it"
        /\ GoesOn("shape")
     \/ manifest = "unreadable" /\ Ended("SpecError") /\ UNCHANGED trusted
     \/ manifest = "undecodable" /\ Ended("raised") /\ UNCHANGED trusted
  /\ UNCHANGED <<executed, fires>>

Shape ==
  /\ at = "shape"
  /\ IF spec.shape = "malformed" THEN Ended("SpecError") ELSE GoesOn("custody")
  /\ UNCHANGED <<trusted, executed, fires>>

\* A value that JSON does not know, a date for one, has no spec_id.
Refused_Empty ==   \* mutant: `if trusted_ids` for `is not None`
  trusted = "not in it" /\ manifest # "absent"
Refused == trusted = "not in it"
Custody ==
  /\ at = "custody"
  /\ IF trusted # "first party" /\ spec.shape = "no JSON" THEN Ended("raised")
     ELSE IF Refused THEN Ended("Untrusted") ELSE GoesOn("reference")
  /\ UNCHANGED <<trusted, executed, fires>>

\* _compile_entry, of the reference and then of the variant.
Compiles(which, source, next) ==
  /\ at = which
  /\ executed' = executed \cup {which}
  /\ CASE source.loads = "raises"   -> Ended("raised")
       [] source.loads = "no entry" -> Ended("SpecError")
       [] source.loads = "defines"  -> GoesOn(next)
  /\ UNCHANGED <<trusted, fires>>
Compile == \/ Compiles("reference", spec.reference, "variant")
           \/ Compiles("variant", spec.variant, "probe")

\* _raises_valueerror: the signal of a guard; another exception gets through.
Signals_Any(end) == end # "returns"   \* mutant: `except Exception`
Signals(end) == end = "ValueError"
Escapes(end) == end = "raises" /\ ~Signals(end)

\* run: the reference must fire ...
Probe ==
  /\ at = "probe"
  /\ IF Escapes(spec.reference.call) THEN Ended("raised") ELSE GoesOn("compare")
  /\ fires' = Signals(spec.reference.call)
  /\ UNCHANGED <<trusted, executed>>

\* ... and the variant must not, though both sources hold the pattern; a pattern
\* that is no string cannot be looked for in them.
VariantEnd == IF spec.reference.changes THEN spec.variant.changed ELSE spec.variant.given
Compare ==
  /\ at = "compare"
  /\ IF Escapes(VariantEnd) \/ spec.shape = "no pattern" THEN Ended("raised")
     ELSE Ended(IF /\ fires /\ ~Signals(VariantEnd)
                   /\ spec.reference.marked /\ spec.variant.marked
                THEN "ok" ELSE "not ok")
  /\ UNCHANGED <<trusted, executed, fires>>

Falsify ==
  /\ LoadTrusted \/ Shape \/ Custody \/ Compile \/ Probe \/ Compare
  /\ UNCHANGED <<spec, manifest, withdrawn>>

Next == Falsify \/ Review

Spec == Init /\ [][Next]_vars /\ WF_vars(Falsify)

-----------------------------------------------------------------------------
\* What the falsifier says and what it did to say it.  "ok" means that the guard
\* is live in the reference and dead in the variant on the probe of the spec,
\* provided the reference does not change a value in that probe, and a spec of
\* which that is true gets no other answer.  Nothing is executed of a spec that
\* is not to be trusted, unless the manifest changed after it was loaded, and
\* nothing of one that is refused.  A SpecError alone does not say that: an
\* entry is found to be missing only after its source was executed.
Separates ==
  /\ spec.reference.marked /\ spec.variant.marked
  /\ spec.reference.call = "ValueError" /\ spec.variant.given = "returns"
Admitted == trusted = "first party" \/ manifest = "names it" \/ withdrawn
VerdictIsRight ==
  /\ ~spec.reference.changes =>
       /\ outcome = "ok" => Separates
       /\ outcome = "not ok" => ~Separates
  /\ outcome \in {"ok", "not ok"} => executed = {"reference", "variant"}
  /\ executed # {} => Admitted
  /\ outcome = "Untrusted" => executed = {}
=============================================================================
