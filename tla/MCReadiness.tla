----------------------------- MODULE MCReadiness -----------------------------
(* A repository with a Python and a Node half.  What cannot change is chosen *)
(* so that each of the four levels of the audit is one step away.            *)
EXTENDS Readiness

MCFixed ==
  {"pyproject.toml", "[tool.mypy]", "[tool.pytest]", "format:check", "typecheck", "test",
   ".python-version", ".env.example",
   "CODEOWNERS", "[tool.importlinter]", "ADR verification", "gitleaks",
   "workflow runs make verify", "eval task", "test.py", "biome", "agent_runs"}

MCVarying ==
  {"[tool.ruff]", "uv.lock", "package.json", "package-lock.json", "yarn.lock", "yarn",
   "lint", "test.ts", "test with skip", "CLAUDE.md"}

MCUserMakefiles == {{"verify", "bootstrap"}}
=============================================================================
