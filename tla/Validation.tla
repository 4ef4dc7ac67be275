----------------------------- MODULE Validation -----------------------------
(***************************************************************************)
(* validate_candidate of o2t/agent/gap_checks.py: what decides whether a   *)
(* checker written by the model is kept.                                   *)
(*                                                                         *)
(* The checker runs under the tracer of TraceCheck once per mode: on the   *)
(* same library twice (identity), on the real pair (baseline), and on each *)
(* planted defect (controls).  Its report must say what the tracer saw and *)
(* its witness must reproduce; its fixture must pass on every control and  *)
(* fail beside a broken checker.                                           *)
(*                                                                         *)
(* A library is known by its bytes, and Behaves[bytes][k] is the set of    *)
(* outputs it may give for k: native code may keep state.  The libraries   *)
(* are copied for each mode, the checker and the fixture run where they    *)
(* are.  Any file may be rewritten while the validation runs, and a        *)
(* subprocess may rewrite the copies it is given.                          *)
(***************************************************************************)
EXTENDS TraceCheck

CONSTANTS Controls,       \* names of the planted defects, in order
          Bytes,          \* contents of a library
          Texts,          \* contents of the checker and of the fixture
          Missing,        \* the content of a file that is not there
          Behaves,        \* bytes -> input -> outputs
          Minimum,        \* distinct inputs wanted of every run
          Least,          \* requirement -> inputs wanted in each slot
          FirstFiles,     \* the contents a validation may start with
          MaxEdits        \* bound: files rewritten while it runs

ControlNames == {Controls[i] : i \in DOMAIN Controls}
Modes == <<"identity", "baseline">> \o Controls
ModeNames == {Modes[i] : i \in DOMAIN Modes}
Files == {"tool", "fixture", "before", "after"} \cup ControlNames

\* The file copied as the AFTER library of a mode.
SourceAfter(mode) == CASE mode = "identity" -> "before"
                       [] mode = "baseline" -> "after"
                       [] OTHER -> mode

Origin(mode, side) == IF side = "before" THEN "before" ELSE SourceAfter(mode)

\* Where bytes that are run can be rewritten: the files, and the copies.
Copies == ModeNames \X Sides
Places == (Files \X {"file"}) \cup Copies

Contents(f) == {Missing} \cup IF f \in {"tool", "fixture"} THEN Texts ELSE Bytes

ASSUME ValidationAssumption ==
  /\ Controls \in Seq(ControlNames) /\ "negative" \in ControlNames
  /\ \A i, j \in DOMAIN Controls : Controls[i] = Controls[j] => i = j
  /\ ControlNames \cap {"tool", "fixture", "before", "after", "identity", "baseline"} = {}
  /\ Missing \notin Texts \cup Bytes
  /\ \A b \in Bytes, k \in Inputs : Behaves[b][k] \subseteq Outputs
  /\ Minimum \in Nat \ {0} /\ MaxEdits \in Nat
  /\ FirstFiles \subseteq [Files -> {Missing} \cup Texts \cup Bytes]
  /\ \A first \in FirstFiles, f \in Files : first[f] \in Contents(f)

VARIABLES pc,        \* hash, copy, check, replay, verify, fixture, broken, recheck, originals, done
          at,        \* the mode, or the control, at hand (an index)
          status,    \* "rejected" until the end, "accepted", or "raised"
          content,   \* what the files hold
          hashes,    \* what they held when the validation started
          copies,    \* mode -> side -> content, Missing before it is copied
          observed,  \* observation: what the calls of each run amounted to
          strayed,   \* observation: places whose bytes, when run, were not those hashed
          touched, retouched   \* observation: places rewritten, and rewritten again

bookVars == <<status, content, hashes, copies>>
seenVars == <<observed, strayed, touched, retouched>>
vars == <<traceVars, pc, at, bookVars, seenVars>>

Mode == Modes[at]
Libraries == copies[Mode]

Init == /\ TraceStart
        /\ pc = "hash" /\ at = 1
        /\ status = "rejected"
        /\ content \in FirstFiles
        /\ hashes = content
        /\ copies = [mode \in ModeNames |-> [side \in Sides |-> Missing]]
        /\ observed = [mode \in ModeNames |-> "unseen"]
        /\ strayed = {} /\ touched = {} /\ retouched = {}

\* The except clause: the evidence stays rejected.
Reject == /\ pc' = "done"
          /\ UNCHANGED <<at, bookVars>>

\* Something that the except clause does not catch leaves the function.
Raise == /\ pc' = "done" /\ status' = "raised"
         /\ UNCHANGED <<at, content, hashes, copies>>

GoTo(step, index) == /\ pc' = step /\ at' = index
                     /\ UNCHANGED bookVars

\* The observation that the file `f` has just been run as it is.
Runs(f) == strayed' = strayed \cup {<<g, "file">> : g \in {h \in {f} : content[h] # hashes[h]}}

\* The copies of a mode that are not, when run, the bytes hashed.
Strays(mode, sides) == {<<mode, s>> : s \in
                          {t \in sides : copies[mode][t] # hashes[Origin(mode, t)]}}

-----------------------------------------------------------------------------
\* Lines 53-54, before the try: a file that is not there raises.
Hash == /\ pc = "hash"
        /\ IF \E f \in Files : content[f] = Missing
           THEN Raise
           ELSE GoTo("copy", 1)
        /\ UNCHANGED <<traceVars, seenVars>>

\* Lines 64-73: fresh copies, and the checker starts under the tracer.  A file
\* rewritten between the two copies of line 67 is as if rewritten before both or
\* after both, but for the identity mode: its copies then differ, and line 120
\* rejects them.
Copy == /\ pc = "copy"
        /\ LET two == [side \in Sides |-> content[Origin(Mode, side)]]
           IN IF Missing \in {two[side] : side \in Sides} \/ content["tool"] = Missing
              THEN Reject /\ UNCHANGED strayed
              ELSE /\ pc' = "check"
                   /\ copies' = [copies EXCEPT ![Mode] = two]
                   /\ UNCHANGED <<at, status, content, hashes>>
                   /\ Runs("tool")
        /\ UNCHANGED <<traceVars, observed, touched, retouched>>

\* The checker calls one library.
CheckerCalls(side, k, out) ==
  /\ pc = "check"
  /\ Libraries[side] # Missing
  /\ out \in Behaves[Libraries[side]][k]
  /\ Call(side, k, out)
  /\ strayed' = strayed \cup Strays(Mode, {side})
  /\ UNCHANGED <<pc, at, bookVars, observed, touched, retouched>>

Enough == /\ \A r \in Requirements : \A l \in Slots[r] :
               Cardinality({k \in Inputs : PairsOf(k) # {} /\ l \in Hits[k][r]}) >= Least[r]
          /\ Cardinality({k \in Inputs : PairsOf(k) # {}}) >= Minimum

Amount == IF ~Enough THEN "thin" ELSE IF Differing = {} THEN "agree" ELSE "differ"

\* What the checker says when it ends: nothing readable, something else than
\* was traced, or the traced count, status and exit, with a witness or null.
Reports == [says : {"garbage", "false"}, witness : {"null"}]
             \cup [says : {"traced"}, witness : {"null", "object"}]

\* Lines 77-97, in one test: what follows a report.
Believable(report) == /\ report.says = "traced"
                      /\ ~Unpaired
                      /\ Cardinality(unique) >= Minimum
                      /\ Covered(Least)
                      /\ (report.witness = "null") <=> (mismatches = 0)

CheckerExits(report) ==
  /\ pc = "check"
  /\ IF ~Believable(report) THEN Reject
     ELSE GoTo(IF mismatches = 0 THEN "verify" ELSE "replay", at)
  /\ observed' = [observed EXCEPT ![Mode] = Amount]
  /\ UNCHANGED <<traceVars, strayed, touched, retouched>>

\* How the outputs the checker claims compare with those of the replay; one
\* too large for a float makes the comparison itself fail.
Claims == {"equal", "other", "overflow"}

\* Lines 99-115: the witness again, in a process of its own.  Line 113 lets
\* OverflowError escape.
Replay(k, before, after, claim) ==
  /\ pc = "replay"
  /\ Missing \notin {Libraries[side] : side \in Sides}
  /\ before \in Behaves[Libraries["before"]][k]
  /\ after \in Behaves[Libraries["after"]][k]
  /\ IF <<before, after>> \in Same \/ claim = "other" THEN Reject
     ELSE IF claim = "overflow" THEN Raise ELSE GoTo("verify", at)
  /\ strayed' = strayed \cup Strays(Mode, Sides)
  /\ UNCHANGED <<traceVars, observed, touched, retouched>>

\* Lines 82 and 102-108: a killed checker leaves no trace, a witness may have no
\* usable input, a replay may fail.
NoAnswer == /\ pc \in {"check", "replay"}
            /\ Reject
            /\ UNCHANGED <<traceVars, seenVars>>

AsHashed(mode) == \A side \in Sides : copies[mode][side] = hashes[Origin(mode, side)]

\* Faulty variant: only the control called "negative" must be detected.
TellsNegative(mode) == /\ mode = "identity" => mismatches = 0
                       /\ mode = "negative" => mismatches > 0

\* Lines 116-119: the same library agrees with itself, a planted defect does not.
Tells(mode) == /\ mode = "identity" => mismatches = 0
               /\ mode \in ControlNames => mismatches > 0

\* Lines 116-121.
Verify == /\ pc = "verify"
          /\ IF ~Tells(Mode) \/ ~AsHashed(Mode) THEN Reject
             ELSE IF at < Len(Modes) THEN GoTo("copy", at + 1) ELSE GoTo("fixture", 1)
          /\ TraceEnds
          /\ UNCHANGED seenVars

\* Lines 122-128: the copies a fixture is given, both of the baseline and the AFTER
\* library of a control; beside the broken checker it is still the last one.
Control == IF pc = "broken" THEN Controls[Len(Controls)] ELSE Controls[at]
GivenCopies == ({"baseline"} \X Sides) \cup {<<Control, "after">>}

\* While it runs, the fixture loads a copy it is given.
FixtureLoads(mode, side) ==
  /\ pc \in {"fixture", "broken"}
  /\ <<mode, side>> \in GivenCopies
  /\ copies[mode][side] # Missing
  /\ strayed' = strayed \cup Strays(mode, {side})
  /\ UNCHANGED <<traceVars, pc, at, bookVars, observed, touched, retouched>>

\* It runs the checker beside it, which line 137 replaces for the last run.
FixtureRunsChecker ==
  /\ pc = "fixture"
  /\ content["tool"] # Missing
  /\ Runs("tool")
  /\ UNCHANGED <<traceVars, pc, at, bookVars, observed, touched, retouched>>

\* Lines 127-134: the fixture, once for each control.  Its own bytes are read when
\* it starts, what it runs and loads before it ends.
FixtureRuns(passes) ==
  /\ pc = "fixture"
  /\ content["fixture"] # Missing
  /\ IF ~passes THEN Reject
     ELSE IF at < Len(Controls) THEN GoTo("fixture", at + 1) ELSE GoTo("broken", 1)
  /\ Runs("fixture")
  /\ UNCHANGED <<traceVars, observed, touched, retouched>>

\* Lines 135-142: it must not pass beside a checker that always fails.  The copy
\* that runs is made (138) and started at once: nobody rewrites it in between.
BrokenFixtureRuns(passes) ==
  /\ pc = "broken"
  /\ content["fixture"] # Missing
  /\ IF passes THEN Reject ELSE GoTo("recheck", 1)
  /\ Runs("fixture")
  /\ UNCHANGED <<traceVars, observed, touched, retouched>>

\* A fixture that is gone: python fails on it, copy2 raises OSError.
FixtureGone == /\ pc \in {"fixture", "broken"}
               /\ content["fixture"] = Missing
               /\ Reject
               /\ UNCHANGED <<traceVars, seenVars>>

\* Faulty variant: the copies are not read again after the fixture.
RecheckNothing == /\ pc = "recheck"
                  /\ GoTo("originals", 1)
                  /\ UNCHANGED <<traceVars, seenVars>>

\* Lines 143-146.
RecheckCopies == /\ pc = "recheck"
                 /\ IF \A mode \in ModeNames : AsHashed(mode) THEN GoTo("originals", 1) ELSE Reject
                 /\ UNCHANGED <<traceVars, seenVars>>

\* Line 147.
StillAsHashed == \A f \in Files : content[f] = hashes[f]

\* Lines 147-149.
Decide == /\ pc = "originals"
          /\ IF StillAsHashed
             THEN /\ pc' = "done" /\ status' = "accepted"
                  /\ UNCHANGED <<at, content, hashes, copies>>
             ELSE Reject
          /\ UNCHANGED <<traceVars, seenVars>>

\* Faulty variant: a checker may run for ever.
TimedFixturesOnly == {"replay", "fixture", "broken"}

\* Every subprocess runs under execute() with a timeout.
Timed == {"check", "replay", "fixture", "broken"}

\* execute() lines 31-41: the group is killed and TimeoutExpired is caught.
TimesOut == /\ pc \in Timed
            /\ Reject
            /\ UNCHANGED <<traceVars, seenVars>>

-----------------------------------------------------------------------------
\* The bound on rewriting; a place is rewritten at most twice.
MayEdit(place) == /\ Cardinality(touched) + Cardinality(retouched) < MaxEdits
                  /\ place \notin retouched
                  /\ touched' = touched \cup {place}
                  /\ retouched' = retouched \cup (touched \cap {place})

\* Somebody rewrites, or removes, an original file.
EditFile(f, new) == /\ pc \notin {"hash", "done"}
                    /\ new # content[f]
                    /\ content' = [content EXCEPT ![f] = new]
                    /\ MayEdit(<<f, "file">>)
                    /\ UNCHANGED <<traceVars, pc, at, status, hashes, copies, observed, strayed>>

\* A subprocess rewrites a copy it was given.
EditCopy(mode, side, new) ==
  /\ pc \in Timed
  /\ mode = Mode \/ pc \in {"fixture", "broken"}
  /\ new # copies[mode][side]
  /\ copies' = [copies EXCEPT ![mode][side] = new]
  /\ MayEdit(<<mode, side>>)
  /\ UNCHANGED <<traceVars, pc, at, status, content, hashes, observed, strayed>>

Validator == Hash \/ Copy \/ Verify \/ RecheckCopies \/ Decide \/ FixtureGone \/ TimesOut

Subprocess == \/ \E side \in Sides, k \in Inputs, out \in Outputs : CheckerCalls(side, k, out)
              \/ \E report \in Reports : CheckerExits(report)
              \/ NoAnswer
              \/ \E k \in Inputs, before \in Outputs, after \in Outputs, claim \in Claims :
                   Replay(k, before, after, claim)
              \/ \E mode \in ModeNames, side \in Sides : FixtureLoads(mode, side)
              \/ FixtureRunsChecker
              \/ \E passes \in BOOLEAN : FixtureRuns(passes) \/ BrokenFixtureRuns(passes)

Edit == \/ \E f \in Files : \E new \in Contents(f) : EditFile(f, new)
        \/ \E mode \in ModeNames, side \in Sides, new \in Bytes \cup {Missing} :
             EditCopy(mode, side, new)

Next == Validator \/ Subprocess \/ Edit

\* The validator goes on while it can; nothing obliges a subprocess to end.
Spec == Init /\ [][Next]_vars /\ WF_vars(Validator)

-----------------------------------------------------------------------------
\* Types; the tracer never lets more calls through than its cap
\* (check_runner.py 122).
TypeOK ==
  /\ pc \in {"hash", "copy", "check", "replay", "verify", "fixture", "broken", "recheck",
             "originals", "done"}
  /\ at \in DOMAIN Modes
  /\ status \in {"rejected", "accepted", "raised"}
  /\ \A f \in Files : content[f] \in Contents(f) /\ hashes[f] \in Contents(f)
  /\ copies \in [ModeNames -> [Sides -> Bytes \cup {Missing}]]
  /\ observed \in [ModeNames -> {"unseen", "thin", "agree", "differ"}]
  /\ strayed \subseteq Places /\ touched \subseteq Places /\ retouched \subseteq touched
  /\ calls \in [Sides -> 0..CallCap] /\ calls["before"] + calls["after"] <= CallCap
  /\ pairs \in 0..CallCap /\ mismatches \in 0..pairs
  /\ unique \subseteq Inputs

\* A candidate is accepted only when every one of its runs made enough paired
\* calls that cover the requirements, the library agreed with itself and each
\* planted defect, not only the first, showed (gap_checks.py 85-119): a checker
\* that calls nothing, or copies an expected verdict, does not pass.
AcceptedSawEveryDefect ==
  status = "accepted" =>
    /\ observed["identity"] = "agree"
    /\ observed["baseline"] \in {"agree", "differ"}
    /\ \A mode \in ControlNames : observed[mode] = "differ"

\* The file a place holds the bytes of.
SourceOf(place) == IF place \in Copies THEN <<Origin(place[1], place[2]), "file">> ELSE place

\* What ran during an accepted validation, the checker, the fixture, and the copies
\* that either of them loads, is what artifact_sha256 says it was (lines 54, 120,
\* 145, 147), whoever rewrites a file or a copy meanwhile, unless a place or the
\* file it copies is rewritten twice: bytes put back before the digests are read
\* go unnoticed.
AcceptedRanHashedBytes ==
  status = "accepted" =>
    /\ \A place \in strayed : {place, SourceOf(place)} \cap retouched # {}
    /\ \A f \in Files : content[f] = hashes[f]

\* The validation ends whatever the checker and the fixture do, because every
\* subprocess has a timeout (execute, lines 23-43).
Decides == <>(pc = "done")
=============================================================================
