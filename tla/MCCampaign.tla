----------------------------- MODULE MCCampaign -----------------------------
(***************************************************************************)
(* A campaign of three jobs: build, then the formal report and the native  *)
(* libraries, with one bound gap (g1) and one the manifest does not bind.  *)
(***************************************************************************)
EXTENDS Campaign, TLC

MCJobs == {"build", "report", "native"}

MCRequires == [j \in MCJobs |-> IF j = "build" THEN {} ELSE {"build"}]

MCContents == {"b", "lib", "lib2", "clean", "open", "shapeless", "notjson"}

MCWrites == [build |-> {"b"}, native |-> {"lib", "lib2"},
             report |-> {"clean", "open", "shapeless", "notjson"}]

\* A report job that keeps to its format.
MCContentsWellFormed == MCContents \ {"shapeless", "clean", "lib2"}

MCWritesWellFormed == [MCWrites EXCEPT !["report"] = {"open", "notjson"}, !["native"] = {"lib"}]

\* Jobs that always produce the same files, the report with an open gap.
MCWritesSteady == [MCWrites EXCEPT !["report"] = {"open"}, !["native"] = {"lib"}]

MCNatives == [g \in {"g1"} |-> {"native"}]

MCFound == [c \in Contents |-> IF c = "open" THEN {"g1", "g2"} ELSE {}]

\* The program does not tell one candidate's source from another.
ToolSymmetry == Permutations(Tools)
=============================================================================
