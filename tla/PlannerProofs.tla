---------------------------- MODULE PlannerProofs ----------------------------
(***************************************************************************)
(* Theorems about Planner, for every set of plans, files and sources.      *)
(***************************************************************************)
EXTENDS Planner, Induction, TLAPS

-----------------------------------------------------------------------------
(* Replaying a history. *)

\* What the replay of h is after each of its first m items.
IsTrace(a, h, m) ==
  a = [n \in 0..m |-> IF n = 0 THEN BlankDraft ELSE ReplayItem(a[n - 1], h[n])]

LEMMA TraceExists == ASSUME NEW h, NEW m \in Nat PROVE \E a : IsTrace(a, h, m)
<1> DEFINE Bad == {n \in Nat : ~\E a : IsTrace(a, h, n)}
<1> SUFFICES ASSUME Bad # {} PROVE FALSE
  OBVIOUS
<1>1. PICK n \in Bad : \A k \in Bad : n <= k
  BY LeastElement
<1>2. n # 0
  <2>1. IsTrace([k \in 0..0 |-> BlankDraft], h, 0)
    BY DEF IsTrace
  <2> QED
    BY <2>1
<1>3. PICK a : IsTrace(a, h, n - 1)
  BY <1>1, <1>2
<1> DEFINE b == [k \in 0..n |-> IF k = n THEN ReplayItem(a[n - 1], h[n]) ELSE a[k]]
<1>4. \A k \in 0..n : b[k] = IF k = 0 THEN BlankDraft ELSE ReplayItem(b[k - 1], h[k])
  <2> TAKE k \in 0..n
  <2>1. CASE k = n
    BY <1>2, <2>1
  <2>2. CASE k # n
    <3>1. k \in 0..(n - 1) /\ b[k] = a[k]
      BY <2>2
    <3>2. a[k] = IF k = 0 THEN BlankDraft ELSE ReplayItem(a[k - 1], h[k])
      BY <1>3, <3>1 DEF IsTrace
    <3>3. k # 0 => b[k - 1] = a[k - 1]
      BY <3>1
    <3> QED
      BY <3>1, <3>2, <3>3
  <2> QED
    BY <2>1, <2>2
<1>5. IsTrace(b, h, n)
  BY <1>4 DEF IsTrace
<1> QED
  BY <1>5

LEMMA TracesAgree ==
  ASSUME NEW m \in Nat, NEW l \in Nat, m <= l, NEW g, NEW h, NEW a, NEW b,
         IsTrace(a, g, m), IsTrace(b, h, l), \A n \in 1..m : g[n] = h[n]
  PROVE  \A n \in 0..m : a[n] = b[n]
<1> DEFINE Bad == {n \in 0..m : a[n] # b[n]}
<1> SUFFICES ASSUME Bad # {} PROVE FALSE
  OBVIOUS
<1>1. PICK n \in Bad : \A k \in Bad : n <= k
  <2>1. Bad \subseteq Nat
    OBVIOUS
  <2> QED
    BY <2>1, LeastElement
<1>2. /\ a[n] = IF n = 0 THEN BlankDraft ELSE ReplayItem(a[n - 1], g[n])
      /\ b[n] = IF n = 0 THEN BlankDraft ELSE ReplayItem(b[n - 1], h[n])
  BY DEF IsTrace
<1>3. n # 0
  BY <1>2
<1>4. n - 1 \in 0..m /\ n \in 1..m /\ n - 1 \notin Bad
  BY <1>1, <1>3
<1> QED
  BY <1>2, <1>3, <1>4

LEMMA ReplayIsTrace ==
  ASSUME NEW h \in Seq(Items)
  PROVE  \E a : IsTrace(a, h, Len(h)) /\ Replay(h) = a[Len(h)]
<1> DEFINE a == CHOOSE f : IsTrace(f, h, Len(h))
<1>1. IsTrace(a, h, Len(h))
  BY TraceExists
<1>2. Replay(h) = a[Len(h)]
  BY DEF Replay, IsTrace
<1> QED
  BY <1>1, <1>2

\* Replaying one item more is one step more, which is what FoldLeft would say.
LEMMA ReplayStep ==
  /\ Replay(<<>>) = BlankDraft
  /\ \A h \in Seq(Items), i \in Items : Replay(Append(h, i)) = ReplayItem(Replay(h), i)
<1>1. Replay(<<>>) = BlankDraft
  <2>1. PICK a : IsTrace(a, <<>>, Len(<<>>)) /\ Replay(<<>>) = a[Len(<<>>)]
    <3>1. <<>> \in Seq(Items)
      OBVIOUS
    <3> QED
      BY <3>1, ReplayIsTrace
  <2> QED
    BY <2>1 DEF IsTrace
<1>2. ASSUME NEW h \in Seq(Items), NEW i \in Items
      PROVE  Replay(Append(h, i)) = ReplayItem(Replay(h), i)
  <2> DEFINE k == Append(h, i)
             m == Len(h)
  <2>1. /\ k \in Seq(Items) /\ Len(k) = m + 1 /\ k[m + 1] = i /\ m \in Nat
        /\ \A n \in 1..m : h[n] = k[n]
    OBVIOUS
  <2>2. PICK a : IsTrace(a, h, m) /\ Replay(h) = a[m]
    BY ReplayIsTrace
  <2>3. PICK b : IsTrace(b, k, m + 1) /\ Replay(k) = b[m + 1]
    BY <2>1, ReplayIsTrace
  <2>4. b[m + 1] = ReplayItem(b[m], i)
    <3>1. m + 1 \in 0..(m + 1) /\ m + 1 # 0 /\ (m + 1) - 1 = m
      BY <2>1
    <3>2. b[m + 1] = ReplayItem(b[(m + 1) - 1], k[m + 1])
      BY <2>3, <3>1 DEF IsTrace
    <3> QED
      BY <2>1, <3>1, <3>2
  <2>5. a[m] = b[m]
    <3> HIDE DEF k, m
    <3>1. m + 1 \in Nat /\ m <= m + 1 /\ m \in 0..m
      BY <2>1
    <3> QED
      BY <2>1, <2>2, <2>3, <3>1, TracesAgree
  <2> QED
    BY <2>2, <2>3, <2>4, <2>5
<1> QED
  BY <1>1, <1>2

-----------------------------------------------------------------------------
(* What a replay yields. *)

PlanOrNone == Plans \cup {NoPlan}

Replayed == [files : Bytes, tools : SUBSET Tools, reads : SUBSET Sources,
             current : PlanOrNone, history : Seq(Items), pending : PlanOrNone,
             judged : PlanOrNone \X Outcomes]

LEMMA ItemKinds ==
  ASSUME NEW i \in Items
  PROVE  \/ i.act = "read-source" /\ i.arg \in Sources
         \/ /\ i.act = "write-file" /\ i.arg[1] \in Files /\ i.arg[2] \in Texts
         \/ i.act = "discover-tool" /\ i.arg \in Tools
         \/ /\ i.act \in {"submit-plan", "patch-plan"}
            /\ i.base \in PlanOrNone /\ i.plan \in Plans /\ i.outcome \in Outcomes
BY DEF Items, ReadItem, WriteItem, ToolItem, PlanItem, PlanOrNone

LEMMA PlanItemIsItem ==
  ASSUME NEW base \in PlanOrNone, NEW p \in Plans, NEW outcome \in Outcomes
  PROVE  PlanItem(base, p, outcome) \in Items
BY DEF Items, PlanOrNone

LEMMA LoggedFields ==
  ASSUME NEW r \in Replayed, NEW i \in Items
  PROVE  /\ Logged(r, i) \in Replayed
         /\ Logged(r, i).history = Append(r.history, i)
         /\ Logged(r, i).files = r.files /\ Logged(r, i).tools = r.tools
         /\ Logged(r, i).reads = r.reads /\ Logged(r, i).current = r.current
         /\ Logged(r, i).pending = r.pending /\ Logged(r, i).judged = r.judged
<1>1. Append(r.history, i) \in Seq(Items)
  BY DEF Replayed
<1> QED
  BY <1>1 DEF Logged, Replayed

LEMMA ProposedFields ==
  ASSUME NEW r \in Replayed, NEW i, i.plan \in Plans, i.outcome \in Outcomes
  PROVE  /\ Proposed(r, i) \in Replayed
         /\ Proposed(r, i).history = r.history
         /\ Proposed(r, i).files = r.files /\ Proposed(r, i).tools = r.tools
         /\ Proposed(r, i).reads = r.reads /\ Proposed(r, i).pending = i.plan
         /\ Proposed(r, i).current = IF i.outcome = "none" THEN r.current ELSE i.plan
         /\ Proposed(r, i).judged =
              IF i.outcome = "none" THEN r.judged ELSE <<i.plan, i.outcome>>
<1>1. i.plan \in PlanOrNone /\ <<i.plan, i.outcome>> \in PlanOrNone \X Outcomes
  BY DEF PlanOrNone
<1> QED
  BY <1>1 DEF Proposed, Replayed

\* How each kind of item is replayed.
LEMMA ReplayRead ==
  ASSUME NEW r \in Replayed, NEW i \in Items, i.act = "read-source"
  PROVE  /\ ReplayItem(r, i) \in Replayed
         /\ ReplayItem(r, i).history = Append(r.history, i)
         /\ ReplayItem(r, i).reads = r.reads \cup {i.arg}
         /\ ReplayItem(r, i).files = r.files /\ ReplayItem(r, i).current = r.current
<1> DEFINE q == [r EXCEPT !.reads = @ \cup {i.arg}]
<1>1. ReplayItem(r, i) = Logged(q, i)
  BY DEF ReplayItem
<1>2. /\ q \in Replayed /\ q.history = r.history /\ q.reads = r.reads \cup {i.arg}
      /\ q.files = r.files /\ q.current = r.current
  BY ItemKinds DEF Replayed
<1> HIDE DEF q
<1> QED
  BY <1>1, <1>2, LoggedFields

LEMMA ReplayWrite ==
  ASSUME NEW r \in Replayed, NEW i \in Items, i.act = "write-file"
  PROVE  /\ ReplayItem(r, i) \in Replayed
         /\ ReplayItem(r, i).history = Append(r.history, i)
         /\ ReplayItem(r, i).files = [r.files EXCEPT ![i.arg[1]] = i.arg[2]]
         /\ ReplayItem(r, i).reads = r.reads /\ ReplayItem(r, i).current = r.current
<1> DEFINE q == [r EXCEPT !.files[i.arg[1]] = i.arg[2]]
<1>1. ReplayItem(r, i) = Logged(q, i)
  BY DEF ReplayItem
<1>2. [r.files EXCEPT ![i.arg[1]] = i.arg[2]] \in Bytes
  BY ItemKinds DEF Replayed, Bytes
<1>3. /\ q \in Replayed /\ q.history = r.history
      /\ q.files = [r.files EXCEPT ![i.arg[1]] = i.arg[2]]
      /\ q.reads = r.reads /\ q.current = r.current
  BY <1>2 DEF Replayed
<1> HIDE DEF q
<1> QED
  BY <1>1, <1>3, LoggedFields

LEMMA ReplayTool ==
  ASSUME NEW r \in Replayed, NEW i \in Items, i.act = "discover-tool"
  PROVE  /\ ReplayItem(r, i) \in Replayed
         /\ ReplayItem(r, i).history = r.history /\ ReplayItem(r, i).files = r.files
         /\ ReplayItem(r, i).reads = r.reads /\ ReplayItem(r, i).current = r.current
<1>1. ReplayItem(r, i) = [r EXCEPT !.tools = @ \cup {i.arg}]
  BY DEF ReplayItem
<1> QED
  BY <1>1, ItemKinds DEF Replayed

LEMMA ReplayProposal ==
  ASSUME NEW r \in Replayed, NEW i \in Items, i.act \in {"submit-plan", "patch-plan"}
  PROVE  /\ i.base \notin {NoPlan, r.current} => ReplayItem(r, i) = r
         /\ i.base \in {NoPlan, r.current} =>
              /\ ReplayItem(r, i) \in Replayed
              /\ ReplayItem(r, i).history = Append(r.history, i)
              /\ ReplayItem(r, i).files = r.files /\ ReplayItem(r, i).reads = r.reads
              /\ ReplayItem(r, i).pending = i.plan
              /\ ReplayItem(r, i).current =
                   IF i.outcome = "none" THEN r.current ELSE i.plan
              /\ ReplayItem(r, i).judged =
                   IF i.outcome = "none" THEN r.judged ELSE <<i.plan, i.outcome>>
<1>1. ReplayItem(r, i) = ReplayPlan(r, i)
  BY DEF ReplayItem
<1>2. i.plan \in Plans /\ i.outcome \in Outcomes
  BY ItemKinds
<1>3. i.base \in {NoPlan, r.current} => ReplayItem(r, i) = Logged(Proposed(r, i), i)
  BY <1>1 DEF ReplayPlan
<1>4. i.base \notin {NoPlan, r.current} => ReplayItem(r, i) = r
  BY <1>1 DEF ReplayPlan
<1> QED
  BY <1>2, <1>3, <1>4, ProposedFields, LoggedFields

LEMMA ReplayItemTyped ==
  ASSUME NEW r \in Replayed, NEW i \in Items
  PROVE  ReplayItem(r, i) \in Replayed
BY ItemKinds, ReplayRead, ReplayWrite, ReplayTool, ReplayProposal

LEMMA ReplayTyped == ASSUME NEW h \in Seq(Items) PROVE Replay(h) \in Replayed
<1> DEFINE T == {k \in Seq(Items) : Replay(k) \in Replayed}
<1>1. <<>> \in T
  <2>1. BlankDraft \in Replayed
    <3>1. NothingStaged \in Bytes /\ <<NoPlan, "none">> \in PlanOrNone \X Outcomes
      BY DEF NothingStaged, Bytes, PlanOrNone, Outcomes
    <3> QED
      BY <3>1 DEF BlankDraft, Replayed, PlanOrNone
  <2> QED
    BY <2>1, ReplayStep
<1>2. ASSUME NEW k \in Seq(Items), NEW i \in Items, k \in T PROVE Append(k, i) \in T
  BY <1>2, ReplayStep, ReplayItemTyped
<1>3. Seq(Items) \subseteq T
  <2> HIDE DEF T
  <2> QED
    BY <1>1, <1>2, SequenceInduction
<1> QED
  BY <1>3

\* Two records that agree on what a history has to rebuild.
SameWork(r, w) == r.files = w.files /\ r.reads = w.reads /\ r.current = w.current

\* Replaying an item that is logged keeps the agreement.
LEMMA SameStep ==
  ASSUME NEW r \in Replayed, NEW w \in Replayed, SameWork(r, w), NEW i \in Items,
         i.act # "discover-tool"
  PROVE  SameWork(ReplayItem(r, i), ReplayItem(w, i))
<1>1. CASE i.act = "read-source"
  BY <1>1, ReplayRead DEF SameWork
<1>2. CASE i.act = "write-file"
  <2>1. /\ ReplayItem(r, i).files = [r.files EXCEPT ![i.arg[1]] = i.arg[2]]
        /\ ReplayItem(r, i).reads = r.reads /\ ReplayItem(r, i).current = r.current
    BY <1>2, ReplayWrite
  <2>2. /\ ReplayItem(w, i).files = [w.files EXCEPT ![i.arg[1]] = i.arg[2]]
        /\ ReplayItem(w, i).reads = w.reads /\ ReplayItem(w, i).current = w.current
    BY <1>2, ReplayWrite
  <2> QED
    BY <2>1, <2>2 DEF SameWork
<1>3. CASE i.act \in {"submit-plan", "patch-plan"}
  <2>1. CASE i.base \notin {NoPlan, r.current}
    BY <1>3, <2>1, ReplayProposal DEF SameWork
  <2>2. CASE i.base \in {NoPlan, r.current}
    <3>1. /\ ReplayItem(r, i).files = r.files /\ ReplayItem(r, i).reads = r.reads
          /\ ReplayItem(r, i).current = IF i.outcome = "none" THEN r.current ELSE i.plan
      BY <1>3, <2>2, ReplayProposal
    <3>2. i.base \in {NoPlan, w.current}
      BY <2>2 DEF SameWork
    <3>3. /\ ReplayItem(w, i).files = w.files /\ ReplayItem(w, i).reads = w.reads
          /\ ReplayItem(w, i).current = IF i.outcome = "none" THEN w.current ELSE i.plan
      BY <1>3, <3>2, ReplayProposal
    <3> QED
      BY <3>1, <3>3 DEF SameWork
  <2> QED
    BY <2>1, <2>2
<1> QED
  BY <1>1, <1>2, <1>3, ItemKinds

\* What a replay logs of a draft is a history that replays to the same work: a
\* draft of a draft is as good as the draft.
LEMMA ReplayOfReplay ==
  ASSUME NEW h \in Seq(Items)
  PROVE  SameWork(Replay(Replay(h).history), Replay(h))
<1> DEFINE T == {k \in Seq(Items) : SameWork(Replay(Replay(k).history), Replay(k))}
<1>1. <<>> \in T
  BY ReplayStep DEF SameWork, BlankDraft
<1>2. ASSUME NEW k \in Seq(Items), NEW i \in Items, k \in T PROVE Append(k, i) \in T
  <2> DEFINE r == Replay(k)
             n == ReplayItem(r, i)
  <2>1. r \in Replayed /\ r.history \in Seq(Items) /\ Replay(r.history) \in Replayed
    BY ReplayTyped DEF Replayed
  <2>2. /\ Replay(Append(k, i)) = n
        /\ Replay(Append(r.history, i)) = ReplayItem(Replay(r.history), i)
    BY <2>1, ReplayStep
  <2>3. SameWork(Replay(r.history), r)
    BY <1>2
  <2>4. CASE n.history = r.history /\ SameWork(n, r)
    BY <2>2, <2>3, <2>4 DEF SameWork
  <2>5. CASE n.history = Append(r.history, i) /\ i.act # "discover-tool"
    <3>1. SameWork(ReplayItem(Replay(r.history), i), n)
      BY <2>1, <2>3, <2>5, SameStep
    <3>2. Replay(Append(k, i)) = n /\ Replay(n.history) = ReplayItem(Replay(r.history), i)
      BY <2>2, <2>5
    <3>3. Append(k, i) \in Seq(Items)
      OBVIOUS
    <3> QED
      BY <3>1, <3>2, <3>3
  <2>6. \/ n.history = r.history /\ SameWork(n, r)
        \/ n.history = Append(r.history, i) /\ i.act # "discover-tool"
    <3>1. CASE i.act = "read-source"
      BY <2>1, <3>1, ReplayRead
    <3>2. CASE i.act = "write-file"
      BY <2>1, <3>2, ReplayWrite
    <3>3. CASE i.act = "discover-tool"
      BY <2>1, <3>3, ReplayTool DEF SameWork
    <3>4. CASE i.act \in {"submit-plan", "patch-plan"}
      BY <2>1, <3>4, ReplayProposal DEF SameWork
    <3> QED
      BY <3>1, <3>2, <3>3, <3>4, ItemKinds
  <2> QED
    BY <2>4, <2>5, <2>6
<1>3. Seq(Items) \subseteq T
  <2> HIDE DEF T
  <2> QED
    BY <1>1, <1>2, SequenceInduction
<1> QED
  BY <1>3

-----------------------------------------------------------------------------
(* Types. *)

Work == [files : Bytes, tools : SUBSET Tools, reads : SUBSET Sources,
         current : PlanOrNone, history : Seq(Items)]

SavedDirectory == [history : Seq(Items), inputs : Revisions \cup {NoPlan}, ready : BOOLEAN]

Submission(s) == /\ s.base \in PlanOrNone /\ s.plan \in Plans /\ s.invalid \in 0..1
                 /\ s = [base |-> s.base, plan |-> s.plan, invalid |-> s.invalid,
                         bundle |-> s.bundle]

AfterHandoff == {"handoff", "start", "running", "ended", "recheck"}

TypeInv ==
  /\ phase \in Phases /\ round \in 0..Rounds /\ used \in 0..Budget /\ edits \in 0..MaxEdits
  /\ work \in Work
  /\ pending \in PlanOrNone /\ feedback \in PlanOrNone
  /\ inputs \in Revisions \cup {NoPlan} /\ repo \in Revisions \cup {Dirty}
  /\ staged \in Bytes
  /\ saved \subseteq SavedDirectory
  /\ report \in {"complete", "failed", "incomplete", "none"}
  /\ phase \in Phases \ {"idle", "author"} => Submission(sub)
  /\ phase \in AfterHandoff => published.plan \in Plans

LEMMA TypeInvIsTypeOK == TypeInv => TypeOK
BY DEF TypeInv, TypeOK, PlanOrNone, Work, Submission

LEMMA NothingStagedTyped == NothingStaged \in Bytes /\ FreshWork \in Work
<1>1. NothingStaged \in Bytes
  BY DEF NothingStaged, Bytes
<1> QED
  BY <1>1 DEF FreshWork, Work, PlanOrNone

LEMMA WorkLogged ==
  ASSUME NEW w \in Work, NEW i \in Items
  PROVE  /\ Logged(w, i) \in Work /\ Logged(w, i).history = Append(w.history, i)
         /\ Logged(w, i).files = w.files /\ Logged(w, i).tools = w.tools
         /\ Logged(w, i).reads = w.reads /\ Logged(w, i).current = w.current
<1>1. Append(w.history, i) \in Seq(Items)
  BY DEF Work
<1> QED
  BY <1>1 DEF Logged, Work

LEMMA WorkCurrent ==
  ASSUME NEW w \in Work, NEW p \in PlanOrNone
  PROVE  LET c == [w EXCEPT !.current = p]
         IN  /\ c \in Work /\ c.current = p /\ c.history = w.history
             /\ c.files = w.files /\ c.tools = w.tools /\ c.reads = w.reads
BY DEF Work

LEMMA WorkOfReplay ==
  ASSUME NEW r \in Replayed
  PROVE  /\ WorkOf(r) \in Work /\ WorkOf(r).history = r.history
         /\ WorkOf(r).files = r.files /\ WorkOf(r).reads = r.reads
         /\ WorkOf(r).current = r.current
BY DEF WorkOf, Replayed, Work

\* What one turn of the author makes of the work.
LEMMA WorkRead ==
  ASSUME NEW w \in Work, NEW s \in Sources
  PROVE  LET n == Logged([w EXCEPT !.reads = @ \cup {s}], ReadItem(s))
         IN  /\ n \in Work /\ n.history = Append(w.history, ReadItem(s))
             /\ n.files = w.files /\ n.reads = w.reads \cup {s} /\ n.current = w.current
<1> DEFINE q == [w EXCEPT !.reads = @ \cup {s}]
<1>1. /\ q \in Work /\ q.history = w.history /\ q.files = w.files
      /\ q.reads = w.reads \cup {s} /\ q.current = w.current
  BY DEF Work
<1>2. ReadItem(s) \in Items
  BY DEF Items
<1> HIDE DEF q
<1> QED
  BY <1>1, <1>2, WorkLogged DEF q

LEMMA WorkWrite ==
  ASSUME NEW w \in Work, NEW f \in Files, NEW t \in Texts
  PROVE  LET n == Logged([w EXCEPT !.files[f] = t], WriteItem(f, t))
         IN  /\ n \in Work /\ n.history = Append(w.history, WriteItem(f, t))
             /\ n.files = [w.files EXCEPT ![f] = t]
             /\ n.reads = w.reads /\ n.current = w.current
<1> DEFINE q == [w EXCEPT !.files[f] = t]
<1>1. [w.files EXCEPT ![f] = t] \in Bytes
  BY DEF Work, Bytes
<1>2. /\ q \in Work /\ q.history = w.history /\ q.files = [w.files EXCEPT ![f] = t]
      /\ q.reads = w.reads /\ q.current = w.current
  BY <1>1 DEF Work
<1>3. WriteItem(f, t) \in Items
  BY DEF Items
<1> HIDE DEF q
<1> QED
  BY <1>2, <1>3, WorkLogged DEF q

LEMMA WorkTool ==
  ASSUME NEW w \in Work, NEW t \in Tools
  PROVE  LET n == Logged([w EXCEPT !.tools = @ \cup {t}], ToolItem(t))
         IN  /\ n \in Work /\ n.history = Append(w.history, ToolItem(t))
             /\ n.files = w.files /\ n.reads = w.reads /\ n.current = w.current
<1> DEFINE q == [w EXCEPT !.tools = @ \cup {t}]
<1>1. /\ q \in Work /\ q.history = w.history /\ q.files = w.files
      /\ q.reads = w.reads /\ q.current = w.current
  BY DEF Work
<1>2. ToolItem(t) \in Items
  BY DEF Items
<1> HIDE DEF q
<1> QED
  BY <1>1, <1>2, WorkLogged DEF q

LEMMA InitType == Init => TypeInv
BY PlannerAssumption, NothingStagedTyped
   DEF Init, TypeInv, Phases, PlanOrNone, AfterHandoff

LEMMA ForgottenType ==
  ASSUME TypeInv, Forgotten, saved' \subseteq SavedDirectory, UNCHANGED <<repo, edits>>
  PROVE  TypeInv'
BY PlannerAssumption, NothingStagedTyped
   DEF Forgotten, TypeInv, Phases, PlanOrNone, AfterHandoff

LEMMA DirectoryTyped ==
  ASSUME TypeInv, NEW ready \in BOOLEAN
  PROVE  Directory(ready) \in SavedDirectory
BY DEF Directory, SavedDirectory, TypeInv, Work

LEMMA ContinuedTyped ==
  ASSUME NEW r \in Replayed, r.pending # NoPlan
  PROVE  Continued(r) \in Plans
BY DEF Replayed, Continued, PlanOrNone

LEMMA DraftTyped ==
  ASSUME NEW d \in SavedDirectory, NEW fb, OpenDraft(d, fb)
  PROVE  work' \in Work /\ pending' \in PlanOrNone /\ staged' \in Bytes
<1> DEFINE r == Replay(d.history)
           p == Continued(r)
           i == PlanItem(NoPlan, p, r.judged[2])
           w == IF Rejected(r) THEN Logged(WorkOf(r), i) ELSE WorkOf(r)
<1>1. r \in Replayed /\ r.pending # NoPlan
  BY ReplayTyped DEF OpenDraft, Importable, SavedDirectory
<1>2. p \in Plans /\ p \in PlanOrNone
  BY <1>1, ContinuedTyped DEF PlanOrNone
<1>3. r.judged[2] \in Outcomes /\ NoPlan \in PlanOrNone
  BY <1>1 DEF Replayed, PlanOrNone
<1>4. w \in Work
  BY <1>1, <1>2, <1>3, WorkOfReplay, WorkLogged, PlanItemIsItem
<1>5. /\ work' \in {w, [w EXCEPT !.current = p]} /\ pending' \in {NoPlan, p}
      /\ staged' = r.files
  BY DEF OpenDraft
<1>6. work' \in Work
  <2> HIDE DEF w
  <2> QED
    BY <1>2, <1>4, <1>5, WorkCurrent
<1> QED
  BY <1>1, <1>2, <1>3, <1>5, <1>6 DEF Replayed

LEMMA NewPlannerType ==
  ASSUME TypeInv, NEW fb \in PlanOrNone, NewPlanner(fb),
         work' \in Work, pending' \in PlanOrNone, staged' \in Bytes,
         round' \in 0..Rounds, UNCHANGED saved,
         report' \in {"complete", "failed", "incomplete", "none"}
  PROVE  TypeInv'
BY PlannerAssumption DEF NewPlanner, TypeInv, Phases, AfterHandoff

\* A turn of the author logs something or brings a plan to its review.
LEMMA ConsiderType ==
  ASSUME TypeInv, phase = "author", NEW base \in PlanOrNone, NEW p \in Plans,
         Consider(base, p)
  PROVE  /\ work' \in Work /\ phase' \in {"author", "review"}
         /\ phase' = "review" => Submission(sub')
<1>1. CASE /\ phase' = "review" /\ work' = [work EXCEPT !.current = p]
           /\ sub' = [base |-> base, plan |-> p, invalid |-> 0, bundle |-> Bundle(p)]
  BY <1>1, WorkCurrent DEF TypeInv, PlanOrNone, Submission
<1>2. CASE /\ work' = Logged(work, PlanItem(base, p, "none"))
           /\ UNCHANGED <<phase, sub>>
  BY <1>2, WorkLogged, PlanItemIsItem DEF TypeInv, Outcomes
<1> QED
  BY <1>1, <1>2 DEF Consider

\* The end of a review logs its outcome and goes on to publish or to the author.
LEMMA EndReviewType ==
  ASSUME TypeInv, phase = "review", NEW outcome \in Outcomes, EndReview(outcome),
         used' \in 0..Budget
  PROVE  TypeInv'
<1>1. Submission(sub)
  BY DEF TypeInv, Phases
<1>2. work' \in Work
  <2>1. PlanItem(sub.base, sub.plan, outcome) \in Items
    BY <1>1, PlanItemIsItem DEF Submission
  <2> QED
    BY <2>1, WorkLogged DEF EndReview, TypeInv
<1>3. \/ phase' = "publish" /\ sub' = sub
      \/ phase' = "author"
  BY DEF EndReview
<1> QED
  BY <1>1, <1>2, <1>3 DEF EndReview, TypeInv, Phases, authored, execution, AfterHandoff

LEMMA NextType == TypeInv /\ [Next]_vars => TypeInv'
<1> SUFFICES ASSUME TypeInv, [Next]_vars PROVE TypeInv'
  OBVIOUS
<1>1. CASE Begin
  BY <1>1, PlannerAssumption, NothingStagedTyped, NewPlannerType
     DEF Begin, execution, TypeInv, PlanOrNone
<1>2. ASSUME NEW d \in saved, BeginFromDraft(d) PROVE TypeInv'
  <2>1. d \in SavedDirectory
    BY DEF TypeInv
  <2> QED
    BY <1>2, <2>1, PlannerAssumption, DraftTyped, NewPlannerType
       DEF BeginFromDraft, execution, TypeInv, PlanOrNone
<1>3. ASSUME Ask, UNCHANGED <<phase, pending, sub, authored>>,
             work' \in Work, staged' \in Bytes
      PROVE  TypeInv'
  BY <1>3, PlannerAssumption
     DEF Ask, Authoring, TypeInv, authored, execution, Phases, AfterHandoff
<1>4. ASSUME NEW s \in Sources, ReadSource(s) PROVE TypeInv'
  BY <1>3, <1>4, WorkRead DEF ReadSource, TypeInv
<1>5. ASSUME NEW f \in Files, NEW t \in Texts, WriteFile(f, t) PROVE TypeInv'
  <2>1. staged' \in Bytes
    BY <1>5 DEF WriteFile, TypeInv, Bytes
  <2> QED
    BY <1>3, <1>5, <2>1, WorkWrite DEF WriteFile, TypeInv
<1>6. ASSUME NEW t \in Tools, DiscoverTool(t) PROVE TypeInv'
  BY <1>3, <1>6, WorkTool DEF DiscoverTool, TypeInv
<1>7. CASE Fruitless
  BY <1>3, <1>7 DEF Fruitless, TypeInv
<1>8. ASSUME NEW q \in Proposals, Propose(q[1], q[2]) PROVE TypeInv'
  <2>1. q[1] \in PlanOrNone /\ q[2] \in Plans
    BY PlannerAssumption DEF PlanOrNone
  <2>2. /\ work' \in Work /\ phase' \in {"author", "review"}
        /\ phase' = "review" => Submission(sub')
    BY <1>8, <2>1, ConsiderType DEF Propose, Ask, Authoring
  <2> QED
    BY <1>8, <2>2, PlannerAssumption
       DEF Propose, Ask, Authoring, TypeInv, authored, execution, Phases, AfterHandoff
<1>9. CASE SubmitPending
  <2>1. NoPlan \in PlanOrNone /\ pending \in Plans
    BY <1>9 DEF SubmitPending, TypeInv, PlanOrNone
  <2>2. /\ work' \in Work /\ phase' \in {"author", "review"}
        /\ phase' = "review" => Submission(sub')
    BY <1>9, <2>1, ConsiderType DEF SubmitPending, Authoring
  <2> QED
    BY <1>9, <2>1, <2>2
       DEF SubmitPending, TypeInv, authored, execution, Phases, AfterHandoff
<1>10. ASSUME NEW v \in Verdict, ReviewReply(v) PROVE TypeInv'
  BY <1>10, PlannerAssumption, EndReviewType DEF ReviewReply, TypeInv, Outcomes
<1>11. CASE InvalidReview
  <2>1. used' \in 0..Budget
    BY <1>11, PlannerAssumption DEF InvalidReview, TypeInv
  <2>2. CASE /\ sub' = [sub EXCEPT !.invalid = 1]
             /\ UNCHANGED <<phase, work, pending, approved, staged, authored>>
    <3>1. Submission(sub')
      BY <1>11, <2>2 DEF InvalidReview, TypeInv, Phases, Submission
    <3> QED
      BY <2>1, <2>2, <3>1, <1>11
         DEF InvalidReview, TypeInv, authored, execution, Phases, AfterHandoff
  <2>3. CASE EndReview("incomplete")
    BY <1>11, <2>1, <2>3, EndReviewType DEF InvalidReview, Outcomes
  <2> QED
    BY <1>11, <2>2, <2>3 DEF InvalidReview
<1>12. CASE NoBudgetForReview
  BY <1>12, EndReviewType DEF NoBudgetForReview, TypeInv, Outcomes
<1>13. CASE Publish
  <2>1. saved' \subseteq SavedDirectory /\ Submission(sub)
    BY <1>13, DirectoryTyped DEF Publish, TypeInv, Phases
  <2>2. CASE Forgotten
    BY <1>13, <2>1, <2>2, ForgottenType DEF Publish
  <2>3. CASE /\ phase' = "handoff"
             /\ published' = [plan |-> sub.plan, bundle |-> approved, print |-> Fingerprint]
             /\ UNCHANGED <<round, work, pending, inputs, feedback, used, sub, approved,
                            agentPrint, report, staged>>
    BY <1>13, <2>1, <2>3 DEF Publish, TypeInv, Phases, AfterHandoff, Submission
  <2> QED
    BY <1>13, <2>2, <2>3 DEF Publish
<1>14. CASE OutOfBudget
  BY <1>14, DirectoryTyped, ForgottenType DEF OutOfBudget, TypeInv
<1>15. ASSUME phase' \in AfterHandoff, phase \in AfterHandoff,
              UNCHANGED <<published, atHandoff>>,
              report' \in {"complete", "failed", "incomplete", "none"}
       PROVE  TypeInv'
  BY <1>15 DEF TypeInv, atHandoff, disk, Phases, AfterHandoff
<1>16. CASE Handoff
  BY <1>15, <1>16, ForgottenType DEF Handoff, Check, AfterHandoff, execution, TypeInv
<1>17. CASE AgentStarts
  BY <1>15, <1>17 DEF AgentStarts, AfterHandoff, TypeInv
<1>18. CASE AgentEnds
  BY <1>15, <1>18 DEF AgentEnds, AfterHandoff, TypeInv
<1>19. CASE InputsHold
  BY <1>15, <1>19, ForgottenType DEF InputsHold, Check, AfterHandoff, execution, TypeInv
<1>20. CASE Close \/ RepairRefused
  BY <1>20, ForgottenType DEF Close, RepairRefused, TypeInv
<1>21. CASE Repair
  <2>1. Directory(TRUE) \in SavedDirectory /\ published.plan \in PlanOrNone
    BY <1>21, DirectoryTyped DEF Repair, TypeInv, AfterHandoff, PlanOrNone
  <2>2. round' \in 0..Rounds
    BY <1>21, PlannerAssumption DEF Repair, Repairs, TypeInv
  <2> QED
    BY <1>21, <2>1, <2>2, DraftTyped, NewPlannerType DEF Repair
<1>22. CASE EditRepo
  BY <1>22, PlannerAssumption DEF EditRepo, TypeInv, Outside
<1>23. ASSUME NEW f \in Files, EditStaged(f) PROVE TypeInv'
  <2>1. staged' \in Bytes
    BY <1>23 DEF EditStaged, TypeInv, Bytes
  <2> QED
    BY <1>23, <2>1, PlannerAssumption DEF EditStaged, TypeInv, Outside
<1>24. CASE UNCHANGED vars
  BY <1>24 DEF TypeInv, vars, disk, execution
<1> QED
  BY <1>1, <1>2, <1>4, <1>5, <1>6, <1>7, <1>8, <1>9, <1>10, <1>11, <1>12, <1>13, <1>14,
     <1>16, <1>17, <1>18, <1>19, <1>20, <1>21, <1>22, <1>23, <1>24
     DEF Next, Turn, Execution

\* The state of the planner has its types, histories rebuilt from drafts included.
THEOREM TypeCorrect == Spec => []TypeOK
BY InitType, NextType, TypeInvIsTypeOK, PTL DEF Spec

-----------------------------------------------------------------------------
(* Histories, reviews and what is executed. *)

AfterReview == AfterHandoff \cup {"publish"}

Last(h) == h[Len(h)]

\* The work is what its own history rebuilds.
Rebuilt == SameWork(Replay(work.history), work)

\* While a plan is under review its proposal is not logged yet: the history
\* rebuilds the work as it was before, and the proposal applies to that.
UnderReview ==
  LET r == Replay(work.history)
  IN  /\ r.files = work.files /\ r.reads = work.reads
      /\ work.current = sub.plan
      /\ sub.base \in {NoPlan, r.current}

\* After an approval the last item of the history is the plan and its verdict, and
\* what was approved is what there is.
Approved ==
  /\ Rebuilt
  /\ Last(work.history) = PlanItem(sub.base, sub.plan, "supported")
  /\ work.current = sub.plan
  /\ Replay(work.history).pending = sub.plan
  /\ Replay(work.history).judged = <<sub.plan, "supported">>
  /\ Valid(work, sub.plan)
  /\ approved = Bundle(sub.plan)

\* A published directory's history ends in a plan that qualifies but for its tools.
Requalifies(d) ==
  LET r == Replay(d.history)
      p == r.pending
  IN  /\ p \in WellFormed /\ Cites[p] \subseteq r.reads
      /\ \A f \in UsesFiles[p] : r.files[f] # NoText

WorkInv ==
  /\ TypeInv
  /\ phase = "author" => Rebuilt
  /\ phase = "review" => UnderReview
  /\ phase \in AfterReview => Approved
  /\ phase \in AfterHandoff =>
       published.plan = sub.plan /\ published.bundle = Bundle(sub.plan)
  /\ \A d \in saved : d.ready => Requalifies(d)

LEMMA InitWork == Init => WorkInv
BY InitType DEF Init, WorkInv, AfterReview, AfterHandoff

\* Logging an item that the replay logs too keeps the work rebuilt.
LEMMA RebuiltLogged ==
  ASSUME NEW w \in Work, NEW i \in Items, NEW n \in Work,
         n.history = Append(w.history, i),
         SameWork(ReplayItem(Replay(w.history), i), n)
  PROVE  SameWork(Replay(n.history), n)
<1>1. Replay(n.history) = ReplayItem(Replay(w.history), i)
  BY ReplayStep DEF Work
<1> QED
  BY <1>1

LEMMA DraftRebuilds ==
  ASSUME NEW d \in SavedDirectory, NEW fb, OpenDraft(d, fb),
         fb # NoPlan => /\ Replay(d.history).pending = Replay(d.history).current
                        /\ Replay(d.history).judged[2] = "supported"
  PROVE  Rebuilt'
<1> DEFINE r == Replay(d.history)
           p == Continued(r)
           i == PlanItem(NoPlan, p, r.judged[2])
<1>1. r \in Replayed /\ r.pending # NoPlan /\ d.history \in Seq(Items)
  BY ReplayTyped DEF OpenDraft, Importable, SavedDirectory
<1>2. p \in Plans /\ p \in PlanOrNone
  BY <1>1, ContinuedTyped DEF PlanOrNone
<1>3. SameWork(Replay(r.history), r) /\ r.history \in Seq(Items)
  BY <1>1, ReplayOfReplay DEF Replayed
<1>4. /\ WorkOf(r) \in Work /\ WorkOf(r).history = r.history
      /\ SameWork(Replay(WorkOf(r).history), WorkOf(r)) /\ WorkOf(r).current = r.current
      /\ WorkOf(r).files = r.files /\ WorkOf(r).reads = r.reads
  BY <1>1, <1>3, WorkOfReplay DEF SameWork
<1>5. CASE Rejected(r)
  <2> DEFINE w == Logged(WorkOf(r), i)
             q == Replay(r.history)
  <2>1. /\ work' = [w EXCEPT !.current = p]
    BY <1>5 DEF OpenDraft
  <2>2. r.judged[2] \in Outcomes /\ r.judged[2] # "none" /\ NoPlan \in PlanOrNone
    BY <1>1, <1>5 DEF Replayed, Rejected, PlanOrNone
  <2>3. i \in Items /\ i.base = NoPlan /\ i.plan = p /\ i.outcome = r.judged[2]
        /\ i.act = "submit-plan"
    BY <1>2, <2>2, PlanItemIsItem DEF PlanItem
  <2>4. /\ w \in Work /\ w.history = Append(r.history, i)
        /\ w.files = r.files /\ w.reads = r.reads
    BY <1>4, <2>3, WorkLogged
  <2>5. /\ work' \in Work /\ work'.history = Append(r.history, i)
        /\ work'.files = r.files /\ work'.reads = r.reads /\ work'.current = p
    <3> HIDE DEF w
    <3> QED
      BY <1>2, <2>1, <2>4, WorkCurrent
  <2>6. q \in Replayed
    BY <1>3, ReplayTyped
  <2>7. SameWork(ReplayItem(q, i), work')
    <3>1. /\ ReplayItem(q, i).files = q.files /\ ReplayItem(q, i).reads = q.reads
          /\ ReplayItem(q, i).current = p
      <4> HIDE DEF q, i, p
      <4> QED
        BY <2>2, <2>3, <2>6, ReplayProposal
    <3> QED
      BY <1>3, <2>5, <3>1 DEF SameWork
  <2>8. Replay(work'.history) = ReplayItem(q, i)
    BY <1>3, <2>3, <2>5, ReplayStep
  <2> QED
    BY <2>7, <2>8 DEF Rebuilt
<1>6. CASE ~Rejected(r)
  <2>1. CASE fb = NoPlan
    <3>1. work' = WorkOf(r)
      BY <1>6, <2>1 DEF OpenDraft
    <3> QED
      BY <1>4, <3>1 DEF Rebuilt
  <2>2. CASE fb # NoPlan
    <3>1. p = r.current
      BY <2>2 DEF Continued
    <3>2. work' = [WorkOf(r) EXCEPT !.current = p]
      BY <1>6, <2>2 DEF OpenDraft
    <3>3. /\ work' \in Work /\ work'.current = p /\ work'.history = WorkOf(r).history
          /\ work'.files = WorkOf(r).files /\ work'.reads = WorkOf(r).reads
      BY <1>2, <1>4, <3>2, WorkCurrent
    <3> QED
      BY <1>4, <3>1, <3>3 DEF Rebuilt, SameWork
  <2> QED
    BY <2>1, <2>2
<1> QED
  BY <1>5, <1>6

\* A step to a phase without obligations.
LEMMA IdleWork ==
  ASSUME WorkInv, TypeInv', phase' \in {"idle", "author"},
         phase' = "author" => Rebuilt',
         \A d \in saved' : d \in saved \/ ~d.ready \/ Requalifies(d)
  PROVE  WorkInv'
BY DEF WorkInv, AfterReview, AfterHandoff

\* A turn of the author that logs what it did.
LEMMA TurnLogged ==
  ASSUME WorkInv, TypeInv', phase = "author", phase' = "author", saved' = saved,
         NEW i \in Items, work'.history = Append(work.history, i),
         SameWork(ReplayItem(Replay(work.history), i), work')
  PROVE  WorkInv'
<1>1. Rebuilt'
  BY RebuiltLogged DEF WorkInv, TypeInv, Rebuilt
<1> QED
  BY <1>1, IdleWork

LEMMA ConsiderWork ==
  ASSUME WorkInv, TypeInv', phase = "author", NEW base \in PlanOrNone, NEW p \in Plans,
         Consider(base, p), saved' = saved
  PROVE  WorkInv'
<1> DEFINE r == Replay(work.history)
<1>1. /\ work \in Work /\ r \in Replayed /\ SameWork(r, work)
  BY ReplayTyped DEF WorkInv, TypeInv, Work, Rebuilt
<1>2. CASE /\ base \in {NoPlan, work.current}
           /\ phase' = "review" /\ work' = [work EXCEPT !.current = p]
           /\ sub' = [base |-> base, plan |-> p, invalid |-> 0, bundle |-> Bundle(p)]
  <2>1. /\ work'.history = work.history /\ work'.current = p
        /\ work'.files = work.files /\ work'.reads = work.reads
    BY <1>1, <1>2, WorkCurrent DEF PlanOrNone
  <2>2. sub'.base = base /\ sub'.plan = p
    BY <1>2
  <2>3. UnderReview'
    BY <1>1, <1>2, <2>1, <2>2 DEF UnderReview, SameWork
  <2> QED
    BY <1>2, <2>3 DEF WorkInv, AfterReview, AfterHandoff
<1>3. CASE work' = Logged(work, PlanItem(base, p, "none")) /\ UNCHANGED phase
  <2> DEFINE i == PlanItem(base, p, "none")
  <2>1. /\ i \in Items /\ i.act \in {"submit-plan", "patch-plan"}
        /\ i.base = base /\ i.outcome = "none"
    BY PlanItemIsItem DEF PlanItem, Outcomes
  <2>2. /\ work'.history = Append(work.history, i) /\ work'.current = work.current
        /\ work'.files = work.files /\ work'.reads = work.reads
    BY <1>1, <1>3, <2>1, WorkLogged
  <2>3. SameWork(ReplayItem(r, i), r)
    BY <1>1, <2>1, ReplayProposal DEF SameWork
  <2>4. SameWork(ReplayItem(r, i), work')
    BY <1>1, <2>2, <2>3 DEF SameWork
  <2> QED
    BY <1>3, <2>1, <2>2, <2>4, TurnLogged
<1> QED
  BY <1>2, <1>3 DEF Consider

LEMMA EndReviewWork ==
  ASSUME WorkInv, TypeInv', phase = "review", NEW outcome \in Outcomes \ {"none"},
         EndReview(outcome), saved' = saved
  PROVE  WorkInv'
<1> DEFINE r == Replay(work.history)
           i == PlanItem(sub.base, sub.plan, outcome)
<1>1. /\ work \in Work /\ work.history \in Seq(Items) /\ r \in Replayed
      /\ Submission(sub) /\ UnderReview
  BY ReplayTyped DEF WorkInv, TypeInv, Work, Phases
<1>2. /\ i \in Items /\ i.act \in {"submit-plan", "patch-plan"} /\ i.plan = sub.plan
      /\ i.outcome = outcome /\ i.base \in {NoPlan, r.current}
  BY <1>1, PlanItemIsItem DEF PlanItem, Submission, UnderReview
<1>3. /\ work' \in Work /\ work'.history = Append(work.history, i)
      /\ work'.files = work.files /\ work'.reads = work.reads /\ work'.tools = work.tools
      /\ work'.current = work.current
  BY <1>1, <1>2, WorkLogged DEF EndReview
<1>4. Replay(work'.history) = ReplayItem(r, i)
  BY <1>1, <1>2, <1>3, ReplayStep
<1>5. /\ ReplayItem(r, i).files = r.files /\ ReplayItem(r, i).reads = r.reads
      /\ ReplayItem(r, i).pending = sub.plan /\ ReplayItem(r, i).current = sub.plan
      /\ ReplayItem(r, i).judged = <<sub.plan, outcome>>
  <2> HIDE DEF r, i
  <2>1. /\ ReplayItem(r, i).files = r.files /\ ReplayItem(r, i).reads = r.reads
        /\ ReplayItem(r, i).pending = i.plan
        /\ ReplayItem(r, i).current = IF i.outcome = "none" THEN r.current ELSE i.plan
        /\ ReplayItem(r, i).judged =
             IF i.outcome = "none" THEN r.judged ELSE <<i.plan, i.outcome>>
    BY <1>1, <1>2, ReplayProposal
  <2>2. i.outcome # "none"
    BY <1>2
  <2> QED
    BY <1>2, <2>1, <2>2
<1>6. Rebuilt'
  BY <1>1, <1>3, <1>4, <1>5 DEF Rebuilt, SameWork, UnderReview
<1>7. CASE phase' = "author"
  BY <1>6, <1>7, IdleWork
<1>8. CASE /\ Approves(outcome) /\ Valid(work, sub.plan) /\ approved' = Bundle(sub.plan)
           /\ phase' = "publish" /\ UNCHANGED sub
  <2>1. outcome = "supported"
    BY <1>8 DEF Approves
  <2>2. Last(work'.history) = i
    BY <1>1, <1>3 DEF Last
  <2>3. Valid(work', sub.plan)
    BY <1>3, <1>8 DEF Valid
  <2>4. Bundle(sub.plan)' = Bundle(sub.plan)
    BY <1>3, <1>8 DEF EndReview, authored, Bundle
  <2>5. Approved'
    BY <1>1, <1>3, <1>4, <1>5, <1>6, <1>8, <2>1, <2>2, <2>3, <2>4
       DEF Approved, UnderReview
  <2> QED
    BY <1>8, <2>5 DEF WorkInv, AfterReview, AfterHandoff
<1> QED
  BY <1>7, <1>8 DEF EndReview

\* Waiting, and what happens to the target meanwhile, leave the approved work alone.
LEMMA ExecutionWork ==
  ASSUME WorkInv, TypeInv', phase \in AfterHandoff, phase' \in AfterHandoff,
         UNCHANGED <<work, sub, approved, inputs, feedback, published, saved>>
  PROVE  WorkInv'
<1>1. Approved' /\ Bundle(sub.plan)' = Bundle(sub.plan)
  BY DEF WorkInv, AfterReview, Approved, Rebuilt, Bundle
<1> QED
  BY <1>1 DEF WorkInv, AfterReview, AfterHandoff

LEMMA SamePhaseWork ==
  ASSUME WorkInv, TypeInv',
         UNCHANGED <<phase, work, sub, approved, inputs, feedback, published, saved>>
  PROVE  WorkInv'
BY DEF WorkInv, UnderReview, Approved, Rebuilt, Bundle

LEMMA NextWork == WorkInv /\ [Next]_vars => WorkInv'
<1> SUFFICES ASSUME WorkInv, [Next]_vars PROVE WorkInv'
  OBVIOUS
<1>1. TypeInv /\ TypeInv' /\ work \in Work /\ work.history \in Seq(Items)
  BY NextType DEF WorkInv, TypeInv, Work
<1> DEFINE r == Replay(work.history)
<1>2. r \in Replayed /\ (phase = "author" => SameWork(r, work))
  BY <1>1, ReplayTyped DEF WorkInv, Rebuilt
<1>3. CASE Begin
  <2>1. Rebuilt'
    BY <1>3, ReplayStep DEF Begin, Rebuilt, FreshWork, BlankDraft, SameWork
  <2> QED
    BY <1>1, <1>3, <2>1, IdleWork DEF Begin, NewPlanner
<1>4. ASSUME NEW d \in saved, BeginFromDraft(d) PROVE WorkInv'
  <2>1. Rebuilt'
    BY <1>1, <1>4, DraftRebuilds DEF BeginFromDraft, TypeInv
  <2> QED
    BY <1>1, <1>4, <2>1, IdleWork DEF BeginFromDraft, NewPlanner
<1>5. ASSUME NEW s \in Sources, ReadSource(s) PROVE WorkInv'
  <2> DEFINE i == ReadItem(s)
  <2>1. i \in Items /\ i.act = "read-source" /\ i.arg = s
    BY DEF Items, ReadItem
  <2>2. /\ work'.history = Append(work.history, i) /\ work'.current = work.current
        /\ work'.files = work.files /\ work'.reads = work.reads \cup {s}
    BY <1>1, <1>5, WorkRead DEF ReadSource
  <2>3. /\ phase = "author" /\ phase' = "author" /\ saved' = saved
    BY <1>5 DEF ReadSource, Ask, Authoring, authored
  <2>4. SameWork(ReplayItem(r, i), work')
    BY <1>2, <2>1, <2>2, <2>3, ReplayRead DEF SameWork
  <2> QED
    BY <1>1, <2>1, <2>2, <2>3, <2>4, TurnLogged
<1>6. ASSUME NEW f \in Files, NEW t \in Texts, WriteFile(f, t) PROVE WorkInv'
  <2> DEFINE i == WriteItem(f, t)
  <2>1. i \in Items /\ i.act = "write-file" /\ i.arg[1] = f /\ i.arg[2] = t
    BY DEF Items, WriteItem
  <2>2. /\ work'.history = Append(work.history, i) /\ work'.current = work.current
        /\ work'.files = [work.files EXCEPT ![f] = t] /\ work'.reads = work.reads
    BY <1>1, <1>6, WorkWrite DEF WriteFile
  <2>3. /\ phase = "author" /\ phase' = "author" /\ saved' = saved
    BY <1>6 DEF WriteFile, Ask, Authoring, authored
  <2>4. /\ ReplayItem(r, i).files = [r.files EXCEPT ![f] = t]
        /\ ReplayItem(r, i).reads = r.reads /\ ReplayItem(r, i).current = r.current
    <3> HIDE DEF i, r
    <3> QED
      BY <1>2, <2>1, ReplayWrite
  <2>5. SameWork(ReplayItem(r, i), work')
    BY <1>2, <2>2, <2>3, <2>4 DEF SameWork
  <2> QED
    BY <1>1, <2>1, <2>2, <2>3, <2>5, TurnLogged
<1>7. ASSUME NEW t \in Tools, DiscoverTool(t) PROVE WorkInv'
  <2> DEFINE i == ToolItem(t)
  <2>1. i \in Items /\ i.act = "discover-tool"
    BY DEF Items, ToolItem
  <2>2. /\ work'.history = Append(work.history, i) /\ work'.current = work.current
        /\ work'.files = work.files /\ work'.reads = work.reads
    BY <1>1, <1>7, WorkTool DEF DiscoverTool
  <2>3. /\ phase = "author" /\ phase' = "author" /\ saved' = saved
    BY <1>7 DEF DiscoverTool, Ask, Authoring, authored
  <2>4. SameWork(ReplayItem(r, i), work')
    BY <1>2, <2>1, <2>2, <2>3, ReplayTool DEF SameWork
  <2> QED
    BY <1>1, <2>1, <2>2, <2>3, <2>4, TurnLogged
<1>8. CASE Fruitless
  BY <1>1, <1>8, SamePhaseWork DEF Fruitless, authored, execution
<1>9. ASSUME NEW q \in Proposals, Propose(q[1], q[2]) PROVE WorkInv'
  <2>1. q[1] \in PlanOrNone /\ q[2] \in Plans
    BY PlannerAssumption DEF PlanOrNone
  <2> QED
    BY <1>1, <1>9, <2>1, ConsiderWork DEF Propose, Ask, Authoring, authored
<1>10. CASE SubmitPending
  <2>1. NoPlan \in PlanOrNone /\ pending \in Plans
    BY <1>1, <1>10 DEF SubmitPending, TypeInv, PlanOrNone
  <2> QED
    BY <1>1, <1>10, <2>1, ConsiderWork DEF SubmitPending, Authoring, authored
<1>11. ASSUME NEW outcome \in Outcomes \ {"none"}, phase = "review", EndReview(outcome)
       PROVE  WorkInv'
  BY <1>1, <1>11, EndReviewWork DEF EndReview, authored
<1>12. (\E v \in Verdict : ReviewReply(v)) \/ NoBudgetForReview => WorkInv'
  BY <1>11 DEF ReviewReply, NoBudgetForReview, Outcomes, Verdict
<1>13. CASE InvalidReview
  <2>1. CASE /\ sub' = [sub EXCEPT !.invalid = 1]
             /\ UNCHANGED <<phase, work, pending, approved, staged, authored>>
    <3>1. sub'.base = sub.base /\ sub'.plan = sub.plan /\ phase = "review"
      BY <1>1, <1>13, <2>1 DEF InvalidReview, TypeInv, Phases, Submission
    <3> QED
      BY <1>1, <2>1, <3>1 DEF WorkInv, UnderReview, authored, AfterReview, AfterHandoff
  <2>2. CASE EndReview("incomplete")
    BY <1>11, <1>13, <2>2 DEF InvalidReview, Outcomes
  <2> QED
    BY <1>13, <2>1, <2>2 DEF InvalidReview
<1>14. CASE Publish
  <2>1. Approved
    BY <1>14 DEF Publish, WorkInv, AfterReview
  <2>2. Requalifies(Directory(TRUE))
    BY <2>1 DEF Approved, Rebuilt, SameWork, Valid, Requalifies, Directory
  <2>3. saved' = saved \cup {Directory(TRUE)}
    BY <1>14 DEF Publish
  <2>4. CASE Forgotten
    BY <1>1, <2>2, <2>3, <2>4, IdleWork DEF Forgotten
  <2>5. CASE /\ phase' = "handoff"
             /\ published' = [plan |-> sub.plan, bundle |-> approved, print |-> Fingerprint]
             /\ UNCHANGED <<round, work, pending, inputs, feedback, used, sub, approved,
                            agentPrint, report, staged>>
    <3>1. Approved' /\ Bundle(sub.plan)' = Bundle(sub.plan)
      BY <2>1, <2>5 DEF Approved, Rebuilt, Bundle
    <3>2. published'.plan = sub'.plan /\ published'.bundle = Bundle(sub.plan)'
      BY <2>1, <2>5, <3>1 DEF Approved
    <3> QED
      BY <1>1, <2>2, <2>3, <2>5, <3>1, <3>2 DEF WorkInv, AfterReview, AfterHandoff
  <2> QED
    BY <1>14, <2>4, <2>5 DEF Publish
<1>15. CASE OutOfBudget
  <2>1. ~Directory(FALSE).ready
    BY DEF Directory
  <2> QED
    BY <1>1, <1>15, <2>1, IdleWork DEF OutOfBudget, Forgotten
<1>16. CASE Handoff \/ AgentStarts \/ AgentEnds \/ InputsHold
  BY <1>1, <1>16, ExecutionWork, IdleWork
     DEF Handoff, AgentStarts, AgentEnds, InputsHold, Check, Forgotten, execution,
         atHandoff, AfterHandoff
<1>17. CASE Close \/ RepairRefused
  BY <1>1, <1>17, IdleWork DEF Close, RepairRefused, Forgotten
<1>18. CASE Repair
  <2>1. Approved /\ Directory(TRUE).history = work.history
    BY <1>18 DEF Repair, WorkInv, AfterReview, AfterHandoff, Directory
  <2>2. r.pending = r.current /\ r.judged[2] = "supported"
    BY <2>1 DEF Approved, Rebuilt, SameWork
  <2>3. Rebuilt'
    <3>1. Directory(TRUE) \in SavedDirectory
      BY <1>1, DirectoryTyped
    <3> QED
      BY <1>18, <2>1, <2>2, <3>1, DraftRebuilds DEF Repair
  <2> QED
    BY <1>1, <1>18, <2>3, IdleWork DEF Repair, NewPlanner
<1>19. CASE EditRepo \/ (\E f \in Files : EditStaged(f)) \/ UNCHANGED vars
  BY <1>1, <1>19, SamePhaseWork DEF EditRepo, EditStaged, Outside, vars, execution
<1> QED
  BY <1>3, <1>4, <1>5, <1>6, <1>7, <1>8, <1>9, <1>10, <1>12, <1>13, <1>14, <1>15, <1>16,
     <1>17, <1>18, <1>19
     DEF Next, Turn, Execution

LEMMA WorkInvariant == Spec => []WorkInv
BY InitWork, NextWork, PTL DEF Spec

\* At every turn the history rebuilds the files, what was inspected and the current
\* plan, for any chain of drafts of drafts and of repairs.
THEOREM HistoriesReplay == Spec => []HistoryReplays
<1>1. WorkInv => HistoryReplays
  BY DEF WorkInv, HistoryReplays, Rebuilt, SameWork
<1> QED
  BY <1>1, WorkInvariant, PTL

\* What is handed over and runs is the plan that the last item of this directory's
\* history supports, over the bundle its reviewer was shown.
THEOREM ReviewedIsExecuted == Spec => []ExecutedWasReviewed
<1>1. WorkInv => ExecutedWasReviewed
  BY DEF WorkInv, ExecutedWasReviewed, AfterReview, AfterHandoff, Approved, Last
<1> QED
  BY <1>1, WorkInvariant, PTL

\* A draft of a published campaign qualifies but for its tools: import_draft
\* takes over the tools of the draft and does not log them (campaign_planner.py
\* 361), so of a draft of a draft they may be missing, and nothing else is.
OnlyToolsMissing ==
  \A d \in saved : d.ready =>
    LET r == Replay(d.history)
    IN  Valid(r, r.pending) <=> UsesTools[r.pending] \subseteq r.tools

\* Every published directory is such a draft, whatever was imported, patched and
\* repaired before.
THEOREM OnlyToolsAreMissing == Spec => []OnlyToolsMissing
<1>1. WorkInv => OnlyToolsMissing
  BY DEF WorkInv, OnlyToolsMissing, Requalifies, Valid
<1> QED
  BY <1>1, WorkInvariant, PTL

\* So a draft requalifies when no plan uses a discovered tool; the run
\* draft_tools shows that discovered tools do break it.
THEOREM DraftsRequalify ==
  ASSUME \A p \in Plans : UsesTools[p] = {}
  PROVE  Spec => []DraftRequalifies
<1>1. WorkInv /\ OnlyToolsMissing => DraftRequalifies
  <2> SUFFICES ASSUME WorkInv, OnlyToolsMissing, NEW d \in saved, d.ready
               PROVE  Valid(Replay(d.history), Replay(d.history).pending)
    BY DEF DraftRequalifies
  <2>1. Replay(d.history).pending \in Plans
    BY PlannerAssumption DEF WorkInv, Requalifies
  <2> QED
    BY <2>1 DEF OnlyToolsMissing
<1> QED
  BY <1>1, WorkInvariant, OnlyToolsAreMissing, PTL

-----------------------------------------------------------------------------
(* Changes from outside, while jobs run and until their report is used. *)

\* The places where two fingerprints differ.
Differing(p, q) ==
  {place \in {Target} : p.repo # q.repo}
  \cup {StagedAt(f) : f \in {g \in Files : p.staged[g] # q.staged[g]}}

LEMMA DifferingApart ==
  \A p, q, r : /\ Differing(p, r) \subseteq Differing(p, q) \cup Differing(q, r)
               /\ Differing(p, q) = Differing(q, p)
               /\ Differing(p, p) = {}
BY DEF Differing

LEMMA UnreviewedApart ==
  \A p, q, b : Unreviewed(p, b) \subseteq Differing(p, q) \cup Unreviewed(q, b)
BY DEF Differing, Unreviewed

\* From cv-agent's fingerprint on, what differs from it was changed and what was
\* changed once does differ; after `unchanged` the fingerprint is of reviewed bytes
\* but for what was changed.  When the bytes equal the fingerprint once more, what
\* was changed was therefore changed again.
WatchInv ==
  /\ WorkInv
  /\ phase \in {"running", "ended", "recheck"} =>
       /\ \A print \in ran \cup {Fingerprint} : Differing(print, agentPrint) \subseteq changed
       /\ changed \ again \subseteq Differing(Fingerprint, agentPrint)
  /\ phase = "recheck" => Unreviewed(agentPrint, published.bundle) \subseteq changed
  /\ AcceptedRanReviewed

\* The bytes a planner finds unchanged are those of the bundle.
LEMMA UnchangedIsReviewed ==
  ASSUME NEW b, NEW p, b = Bundle(p), Unchanged
  PROVE  Unreviewed(Fingerprint, b) = {}
BY DEF Unreviewed, Bundle, Fingerprint, Unchanged

\* The use of a report.
LEMMA AcceptKeeps ==
  ASSUME WatchInv, phase = "recheck", ReportUsable, Accept
  PROVE  AcceptedRanReviewed'
<1>1. accepted' = [bundle |-> published.bundle, ran |-> ran, again |-> again]
  BY DEF Accept
<1>2. Fingerprint = agentPrint
  BY DEF ReportUsable
<1>3. changed \subseteq again
  BY <1>2, DifferingApart DEF WatchInv
<1>4. ASSUME NEW print \in ran PROVE Unreviewed(print, published.bundle) \subseteq again
  BY <1>3, UnreviewedApart DEF WatchInv
<1>5. \A print \in accepted'.ran : Unreviewed(print, accepted'.bundle) \subseteq accepted'.again
  BY <1>1, <1>4
<1> QED
  BY <1>5 DEF AcceptedRanReviewed, Unreviewed

\* A step of a planner that no execution waits for.
LEMMA ElsewhereKeeps ==
  ASSUME WatchInv, WorkInv', phase' \notin {"running", "ended", "recheck"},
         accepted' = accepted \/ (phase = "recheck" /\ ReportUsable /\ Accept)
  PROVE  WatchInv'
<1>1. AcceptedRanReviewed'
  BY AcceptKeeps DEF WatchInv, AcceptedRanReviewed, Unreviewed
<1> QED
  BY <1>1 DEF WatchInv

\* A change of one place, whatever the phase.
LEMMA OutsideKeeps ==
  ASSUME WatchInv, WorkInv', NEW place, Differing(Fingerprint', Fingerprint) = {place},
         Outside, Watch(place)
  PROVE  WatchInv'
<1>1. UNCHANGED <<phase, published, agentPrint, accepted>>
  BY DEF Outside
<1>2. AcceptedRanReviewed'
  BY <1>1 DEF WatchInv, AcceptedRanReviewed, Unreviewed
<1>3. CASE phase \notin {"running", "ended", "recheck"}
  BY <1>1, <1>2, <1>3 DEF WatchInv
<1>4. CASE phase \in {"running", "ended", "recheck"}
  <2>1. /\ changed' = changed \cup {place}
        /\ again' = again \cup (changed \cap {place})
        /\ ran' \subseteq ran \cup {Fingerprint'}
    BY <1>4 DEF Watch
  <2>2. /\ Differing(Fingerprint', agentPrint)
             \subseteq Differing(Fingerprint', Fingerprint) \cup Differing(Fingerprint, agentPrint)
        /\ Differing(Fingerprint, agentPrint)
             \subseteq Differing(Fingerprint, Fingerprint') \cup Differing(Fingerprint', agentPrint)
        /\ Differing(Fingerprint, Fingerprint') = Differing(Fingerprint', Fingerprint)
        /\ Differing(Fingerprint', Fingerprint)
             \subseteq Differing(Fingerprint', agentPrint) \cup Differing(Fingerprint, agentPrint)
    BY DifferingApart
  <2>3. /\ \A print \in ran \cup {Fingerprint} : Differing(print, agentPrint) \subseteq changed
        /\ changed \ again \subseteq Differing(Fingerprint, agentPrint)
    BY <1>4 DEF WatchInv
  <2>4. \A print \in ran' \cup {Fingerprint'} : Differing(print, agentPrint) \subseteq changed'
    BY <2>1, <2>2, <2>3
  <2>5. changed' \ again' \subseteq Differing(Fingerprint', agentPrint)
    BY <2>1, <2>2, <2>3
  <2>6. phase = "recheck" => Unreviewed(agentPrint, published.bundle) \subseteq changed'
    BY <2>1 DEF WatchInv
  <2> QED
    BY <1>1, <1>2, <2>4, <2>5, <2>6 DEF WatchInv, Differing, Unreviewed
<1> QED
  BY <1>3, <1>4

LEMMA NextWatch == WatchInv /\ [Next]_vars => WatchInv'
<1> SUFFICES ASSUME WatchInv, [Next]_vars PROVE WatchInv'
  OBVIOUS
<1>1. WorkInv /\ WorkInv'
  BY NextWork DEF WatchInv
<1>2. CASE Begin \/ (\E d \in saved : BeginFromDraft(d)) \/ OutOfBudget \/ Publish
  BY <1>1, <1>2, ElsewhereKeeps
     DEF Begin, BeginFromDraft, NewPlanner, OutOfBudget, Publish, Forgotten, execution
<1>3. CASE Close \/ Repair \/ RepairRefused
  BY <1>1, <1>3, ElsewhereKeeps DEF Close, Repair, RepairRefused, NewPlanner, Forgotten
<1>4. CASE \/ \E s \in Sources : ReadSource(s)
           \/ \E f \in Files, t \in Texts : WriteFile(f, t)
           \/ \E t \in Tools : DiscoverTool(t)
           \/ Fruitless
  BY <1>1, <1>4, ElsewhereKeeps
     DEF ReadSource, WriteFile, DiscoverTool, Fruitless, Ask, Authoring, authored, execution
<1>5. CASE (\E q \in Proposals : Propose(q[1], q[2])) \/ SubmitPending
  BY <1>1, <1>5, ElsewhereKeeps
     DEF Propose, SubmitPending, Consider, Ask, Authoring, authored, execution
<1>6. CASE (\E v \in Verdict : ReviewReply(v)) \/ InvalidReview \/ NoBudgetForReview
  BY <1>1, <1>6, ElsewhereKeeps
     DEF ReviewReply, InvalidReview, NoBudgetForReview, EndReview, authored, execution
<1>7. CASE Handoff
  BY <1>1, <1>7, ElsewhereKeeps DEF Handoff, Check, Forgotten, execution
<1>8. CASE AgentStarts
  <2>1. /\ agentPrint' = Fingerprint /\ Fingerprint' = Fingerprint /\ accepted' = accepted
        /\ ran' = {Fingerprint} /\ changed' = {} /\ again' = {} /\ phase' = "running"
    BY <1>8 DEF AgentStarts, atHandoff, disk, Fingerprint
  <2>2. Differing(Fingerprint, Fingerprint) = {}
    BY DifferingApart
  <2>3. AcceptedRanReviewed'
    BY <2>1 DEF WatchInv, AcceptedRanReviewed, Unreviewed
  <2>4. /\ \A print \in ran' \cup {Fingerprint'} : Differing(print, agentPrint') \subseteq changed'
        /\ changed' \ again' \subseteq Differing(Fingerprint', agentPrint')
    BY <2>1, <2>2
  <2> QED
    BY <1>1, <2>1, <2>3, <2>4 DEF WatchInv, Differing
<1>9. CASE /\ phase \in {"running", "ended"} /\ UNCHANGED <<agentPrint, watched, accepted, disk>>
           /\ phase' \in {"ended", "recheck"}
           /\ phase' = "recheck" => /\ Unreviewed(agentPrint, published.bundle) \subseteq changed
                                    /\ published' = published
  <2>1. /\ agentPrint' = agentPrint /\ Fingerprint' = Fingerprint /\ accepted' = accepted
        /\ ran' = ran /\ changed' = changed /\ again' = again
    BY <1>9 DEF watched, disk, Fingerprint
  <2>2. AcceptedRanReviewed'
    BY <2>1 DEF WatchInv, AcceptedRanReviewed, Unreviewed
  <2> QED
    BY <1>1, <1>9, <2>1, <2>2 DEF WatchInv, Differing, Unreviewed
<1>10. CASE AgentEnds
  BY <1>9, <1>10 DEF AgentEnds, atHandoff
<1>11. CASE InputsHold
  <2>1. CASE Forgotten
    BY <1>1, <1>11, <2>1, ElsewhereKeeps DEF InputsHold, Check, Forgotten, execution
  <2>2. CASE Unchanged /\ phase' = "recheck" /\ UNCHANGED <<execution, atHandoff>>
    <3>1. phase = "ended" /\ published.bundle = Bundle(sub.plan)
      BY <1>1, <1>11, <2>2 DEF InputsHold, Check, WorkInv, AfterHandoff
    <3>2. Unreviewed(Fingerprint, published.bundle) = {}
      BY <2>2, <3>1, UnchangedIsReviewed
    <3>3. Differing(Fingerprint, agentPrint) \subseteq changed
      BY <3>1 DEF WatchInv
    <3>4. Unreviewed(agentPrint, published.bundle) \subseteq changed
      BY <3>2, <3>3, DifferingApart, UnreviewedApart
    <3> QED
      BY <1>9, <2>2, <3>1, <3>4 DEF execution, atHandoff
  <2> QED
    BY <1>11, <2>1, <2>2 DEF InputsHold, Check
<1>12. CASE EditRepo
  <2>1. repo' # repo /\ staged' = staged /\ Outside /\ Watch(Target)
    BY <1>12 DEF EditRepo
  <2>2. Differing(Fingerprint', Fingerprint) = {Target}
    BY <2>1 DEF Differing, Fingerprint
  <2> QED
    BY <1>1, <2>1, <2>2, OutsideKeeps
<1>13. ASSUME NEW f \in Files, EditStaged(f) PROVE WatchInv'
  <2>1. PICK t \in Texts \ {staged[f]} : staged' = [staged EXCEPT ![f] = t]
    BY <1>13 DEF EditStaged
  <2>2. repo' = repo /\ Outside /\ Watch(StagedAt(f))
    BY <1>13 DEF EditStaged
  <2>3. \A g \in Files : staged'[g] # staged[g] <=> g = f
    BY <1>1, <2>1 DEF WorkInv, TypeInv, Bytes
  <2>4. Differing(Fingerprint', Fingerprint) = {StagedAt(f)}
    BY <2>2, <2>3 DEF Differing, Fingerprint
  <2> QED
    BY <1>1, <2>2, <2>4, OutsideKeeps
<1>14. CASE UNCHANGED vars
  <2>1. /\ phase' = phase /\ published' = published /\ agentPrint' = agentPrint
        /\ ran' = ran /\ changed' = changed /\ again' = again /\ accepted' = accepted
        /\ Fingerprint' = Fingerprint
    BY <1>14 DEF vars, disk, execution, watched, Fingerprint
  <2> QED
    BY <1>1, <2>1 DEF WatchInv, AcceptedRanReviewed, Unreviewed, Differing
<1> QED
  BY <1>2, <1>3, <1>4, <1>5, <1>6, <1>7, <1>8, <1>10, <1>11, <1>12, <1>13, <1>14
     DEF Next, Turn, Execution

\* However many rounds, drafts, files and changes from outside there are: the jobs
\* behind a report that is used met no byte its reviewer had not seen, but in places
\* changed at least twice between cv-agent's fingerprint and the use of the report.
THEOREM AcceptedRanReviewedBytes == Spec => []AcceptedRanReviewed
<1>1. Init => WatchInv
  BY InitWork DEF Init, WatchInv, AcceptedRanReviewed
<1>2. WatchInv => AcceptedRanReviewed
  BY DEF WatchInv
<1> QED
  BY <1>1, <1>2, NextWatch, PTL DEF Spec
=============================================================================
