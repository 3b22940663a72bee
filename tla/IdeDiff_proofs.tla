---------------------------- MODULE IdeDiff_proofs ----------------------------
(***************************************************************************)
(* Proofs about what the user confirms: about the diffs in the IDE         *)
(* (IdeDiff), and about the rules of the message bus and the calls that    *)
(* wait for it (ConfirmationBus), each alone.  Services_proofs takes them  *)
(* to all services together.                                               *)
(***************************************************************************)
EXTENDS IdeDiff, SequenceTheorems, FiniteSetTheorems, WellFoundedInduction, TLAPS

CONSTANTS BusTool, NoServer, BusCall, PolicyWorld, MaxAnswers
VARIABLES
    policyWorld, rules, added, changes, confirmation, listeners, timers, asking, answers,
    fired, given

Bus == INSTANCE ConfirmationBus

Begun(e) == edit[e].at \notin {"new", "queued"}
IsOpen(e) == edit[e].at = "open"
Viewed(e) == Contains(documents, e)
EditOrNone == Edit \cup {NoEdit}

\* What is assumed of the constants.
IdeConstants ==
    /\ NoEdit \notin Edit
    /\ \A w \in IdeWorld : w.file \in [Edit -> File] /\ w.sides \subseteq {"cli", "ide"}

IdeTypes ==
    /\ IdeConstants
    /\ ideWorld \in IdeWorld
    /\ edit \in [Edit -> Promise]
    /\ mutex \in Seq(Edit)
    /\ diffResponses \in [File -> EditOrNone]
    /\ asked \subseteq Edit
    /\ documents \in Seq(Edit)
    /\ deciding \subseteq Decision
    /\ notices \in Seq(Decision)
    /\ answer \in [Edit -> Answering]
    /\ link \in {"up", "closing", "down", "lost", "again"}

\* The mutex holds the edits that wait and the one that is open, which is first.
MutexInv ==
    /\ IsInjective(mutex)
    /\ \A e \in Edit : Contains(mutex, e) <=> edit[e].at \in {"queued", "open"}
    /\ \A e \in Edit : IsOpen(e) => mutex[1] = e

\* What is matched by the path of the file is of that file.
FilesInv ==
    /\ \A f \in File : diffResponses[f] # NoEdit => FileOf(diffResponses[f]) = f
    /\ \A e \in Edit :
         /\ answer[e].resolver # NoEdit => FileOf(answer[e].resolver) = FileOf(e)
         /\ answer[e].content # NoEdit => FileOf(answer[e].content) = FileOf(e)
         /\ edit[e].content # NoEdit => FileOf(edit[e].content) = FileOf(e)

\* A view is opened once, and is gone when the CLI is told.
ViewsInv ==
    /\ IsInjective(documents)
    /\ \A e \in Edit :
         /\ e \in asked => Begun(e) /\ ~Viewed(e)
         /\ Viewed(e) => Begun(e)
         /\ answer[e].at # "no" => Begun(e)
    /\ \A d \in deciding : Begun(d.view) /\ d.view \notin asked
    /\ \A i \in DOMAIN notices :
         /\ Begun(notices[i].view) /\ notices[i].view \notin asked
         /\ ~Viewed(notices[i].view)

Calm == Quiet /\ Separate
\* While nothing fails, an edit settles when its view is gone.
CalmInv ==
    Calm =>
      /\ link = "up"
      /\ \A e \in Edit : e \in asked \/ Viewed(e) => IsOpen(e) /\ answer[e].at # "closed"

Alone == Quiet /\ Cardinality(ideWorld.sides) = 1
\* While one side answers, nothing is late: every answer is for the edit that is open.
AloneInv ==
    Alone =>
      /\ "cli" \in ideWorld.sides \/ \A e \in Edit : answer[e].at = "no"
      /\ "ide" \in ideWorld.sides \/ (deciding = {} /\ notices = <<>>)
      /\ \A e \in Edit : IsOpen(e) => diffResponses[FileOf(e)] = e
      /\ \A e \in Edit :
           answer[e].at # "no" =>
             IsOpen(e) /\ answer[e].resolver = e /\ answer[e].content \in {e, NoEdit}
      /\ \A d \in deciding : IsOpen(d.view) /\ Viewed(d.view)
      /\ \A c, d \in deciding : c.view = d.view => c = d
      /\ Len(notices) <= 1
      /\ \A i \in DOMAIN notices : IsOpen(notices[i].view)
      /\ \A e \in Edit : edit[e].at = "accepted" => edit[e].content \in {e, NoEdit}

IdeInv == IdeTypes /\ MutexInv /\ FilesInv /\ ViewsInv /\ CalmInv /\ AloneInv

-----------------------------------------------------------------------------
(* Lemmas about the helpers.                                                *)

\* An edit has a file, and a session has sides.
LEMMA EditHasFile ==
  ASSUME IdeTypes
  PROVE  /\ \A e \in Edit : FileOf(e) \in File
         /\ ideWorld.sides \subseteq {"cli", "ide"}
<1>1. ideWorld.file \in [Edit -> File] /\ ideWorld.sides \subseteq {"cli", "ide"}
  BY DEF IdeTypes, IdeConstants
<1> QED
  BY <1>1 DEF FileOf

\* A sequence without its element at i.
LEMMA RemovedAt ==
  ASSUME NEW S, NEW s \in Seq(S), NEW i \in 1 .. Len(s)
  PROVE  LET rest == SubSeq(s, 1, i - 1) \o SubSeq(s, i + 1, Len(s)) IN
         /\ rest \in Seq(S) /\ Len(rest) = Len(s) - 1
         /\ \A k \in 1 .. (Len(s) - 1) : rest[k] = IF k < i THEN s[k] ELSE s[k + 1]
<1> DEFINE front == SubSeq(s, 1, i - 1)
           back == SubSeq(s, i + 1, Len(s))
<1>0. Len(s) \in Nat /\ i \in Nat
  OBVIOUS
<1>1. /\ front \in Seq(S) /\ Len(front) = i - 1
      /\ \A k \in 1 .. (i - 1) : front[k] = s[k]
  BY SubSeqProperties
<1>2. /\ back \in Seq(S) /\ Len(back) = Len(s) - i
      /\ \A k \in 1 .. (Len(s) - i) : back[k] = s[i + k]
  BY SubSeqProperties
<1> HIDE DEF front, back
<1>3. front \o back \in Seq(S) /\ Len(front \o back) = Len(s) - 1
  BY <1>1, <1>2
<1>4. ASSUME NEW k \in 1 .. (Len(s) - 1)
      PROVE  (front \o back)[k] = IF k < i THEN s[k] ELSE s[k + 1]
  <2>0. k \in Nat
    BY <1>0
  <2>1. CASE k < i
    BY <1>1, <1>2, <2>1
  <2>2. CASE ~(k < i)
    <3>1. k - Len(front) \in 1 .. (Len(s) - i) /\ i + (k - Len(front)) = k + 1
      BY <1>0, <1>1, <2>0, <2>2
    <3>2. (front \o back)[k] = back[k - Len(front)]
      BY <1>0, <1>1, <1>2, <2>0, <2>2, <3>1
    <3>3. back[k - Len(front)] = s[k + 1]
      BY <1>2, <3>1
    <3> QED
      BY <2>2, <3>2, <3>3
  <2> QED
    BY <2>1, <2>2
<1> QED
  BY <1>3, <1>4 DEF front, back

\* A set of numbers has a least one.
LEMMA HasLeast ==
  ASSUME NEW T \in SUBSET Nat, T # {}
  PROVE  \E n \in T : \A m \in T : n <= m
<1>1. PICK n \in T : \A m \in T : ~(<<m, n>> \in OpToRel(<, Nat))
  <2> DEFINE less == OpToRel(<, Nat)
  <2>1. IsWellFoundedOn(less, Nat)
    BY NatLessThanWellFounded
  <2> HIDE DEF less
  <2>2. \E n \in T : \A m \in T : ~(<<m, n>> \in less)
    BY <2>1, WFMin
  <2> QED
    BY <2>2 DEF less
<1>2. ASSUME NEW m \in T PROVE ~(m < n)
  BY <1>1, Zenon DEF OpToRel
<1> QED
  BY <1>2

\* Without one view the others remain, in their order.
LEMMA ClosedRemovesView ==
  ASSUME documents \in Seq(Edit), IsInjective(documents), NEW view
  PROVE  /\ Closed(view) \in Seq(Edit)
         /\ IsInjective(Closed(view))
         /\ \A e : Contains(Closed(view), e) <=> Contains(documents, e) /\ e # view
<1>1. CASE ~Contains(documents, view)
  BY <1>1 DEF Closed, Without, Contains
<1>2. CASE Contains(documents, view)
  <2> DEFINE last == Len(documents) - 1
             i == CHOOSE j \in DOMAIN documents : documents[j] = view
             rest == SubSeq(documents, 1, i - 1) \o SubSeq(documents, i + 1, Len(documents))
  <2>1. i \in 1 .. Len(documents) /\ documents[i] = view
    BY <1>2 DEF Contains
  <2>2. Closed(view) = rest
    BY <1>2 DEF Closed, Without
  <2> HIDE DEF i
  <2>3. /\ rest \in Seq(Edit) /\ Len(rest) = last
        /\ \A k \in 1 .. last : rest[k] = IF k < i THEN documents[k] ELSE documents[k + 1]
    BY <2>1, RemovedAt
  <2> HIDE DEF rest
  <2>4. IsInjective(rest)
    <3> SUFFICES ASSUME NEW a \in 1 .. last, NEW b \in 1 .. last, rest[a] = rest[b]
                 PROVE  a = b
      BY <2>3 DEF IsInjective
    <3> DEFINE place(k) == IF k < i THEN k ELSE k + 1
    <3>1. ASSUME NEW k \in 1 .. last
          PROVE  place(k) \in 1 .. Len(documents) /\ rest[k] = documents[place(k)]
      <4>1. k \in Nat /\ k <= Len(documents) - 1 /\ k >= 1 /\ i \in Nat /\ Len(documents) \in Nat
        BY <2>1
      <4>2. k \in 1 .. Len(documents) /\ k + 1 \in 1 .. Len(documents)
        BY <4>1
      <4> QED
        BY <2>3, <4>2
    <3>2. place(a) = place(b)
      <4> HIDE DEF place
      <4> QED
        BY <3>1 DEF IsInjective
    <3> QED
      BY <2>1, <3>2
  <2>5. ASSUME NEW e
        PROVE  Contains(rest, e) <=> Contains(documents, e) /\ e # view
    <3>1. ASSUME Contains(rest, e) PROVE Contains(documents, e) /\ e # view
      <4>1. PICK k \in 1 .. last : rest[k] = e
        BY <2>3, <3>1 DEF Contains
      <4> QED
        BY <2>1, <2>3, <4>1 DEF Contains, IsInjective
    <3>2. ASSUME Contains(documents, e), e # view PROVE Contains(rest, e)
      <4>1. PICK k \in 1 .. Len(documents) : documents[k] = e
        BY <3>2 DEF Contains
      <4>2. CASE k < i
        <5>1. k \in 1 .. last /\ rest[k] = e
          BY <2>1, <2>3, <4>1, <4>2
        <5> QED
          BY <2>3, <5>1 DEF Contains
      <4>3. CASE k > i
        <5>1. k - 1 \in 1 .. last /\ rest[k - 1] = e
          BY <2>1, <2>3, <4>1, <4>3
        <5> QED
          BY <2>3, <5>1 DEF Contains
      <4> QED
        BY <2>1, <3>2, <4>1, <4>2, <4>3
    <3> QED
      BY <3>1, <3>2
  <2> QED
    BY <2>2, <2>3, <2>4, <2>5
<1> QED
  BY <1>1, <1>2

\* The first document of a file is a document of that file, if there is one.
LEMMA FirstIsOfFile ==
  ASSUME IdeTypes, NEW f \in File
  PROVE  \/ /\ FirstOf(f) = NoEdit
            /\ \A e \in Edit : Viewed(e) => FileOf(e) # f
         \/ /\ FirstOf(f) \in Edit /\ Viewed(FirstOf(f))
            /\ FileOf(FirstOf(f)) = f
<1>0. documents \in Seq(Edit)
  BY DEF IdeTypes
<1>1. CASE ~\E i \in DOMAIN documents : Shows(i, f)
  <2>1. FirstOf(f) = NoEdit
    BY <1>1 DEF FirstOf
  <2>2. ASSUME NEW e \in Edit, Viewed(e) PROVE FileOf(e) # f
    BY <1>0, <1>1, <2>2 DEF Viewed, Contains, Shows
  <2> QED
    BY <2>1, <2>2
<1>2. CASE \E i \in DOMAIN documents : Shows(i, f)
  <2> DEFINE Of == {i \in DOMAIN documents : Shows(i, f)}
             First(i) == Shows(i, f) /\ \A j \in 1 .. (i - 1) : ~Shows(j, f)
  <2>1. PICK n \in Of : \A i \in Of : n <= i
    <3>1. Of \subseteq Nat /\ Of # {}
      BY <1>0, <1>2
    <3> QED
      BY <3>1, HasLeast
  <2>2. n \in DOMAIN documents /\ First(n)
    BY <1>0, <2>1
  <2> DEFINE i == CHOOSE k \in DOMAIN documents : First(k)
  <2>3. i \in DOMAIN documents /\ Shows(i, f)
    BY <2>2
  <2>4. FirstOf(f) = documents[i]
    BY <1>2 DEF FirstOf
  <2> HIDE DEF i
  <2> QED
    BY <1>0, <2>3, <2>4 DEF Viewed, Contains, Shows
<1> QED
  BY <1>1, <1>2

\* The edits of a queue when one comes.
LEMMA AppendAdds ==
  ASSUME NEW s \in Seq(Edit), NEW e \in Edit
  PROVE  /\ Append(s, e) \in Seq(Edit)
         /\ \A x : Contains(Append(s, e), x) <=> Contains(s, x) \/ x = e
         /\ IsInjective(s) /\ ~Contains(s, e) => IsInjective(Append(s, e))
<1> DEFINE t == Append(s, e)
           n == Len(s)
<1>1. /\ n \in Nat /\ t \in Seq(Edit) /\ Len(t) = n + 1 /\ t[n + 1] = e
      /\ \A k \in 1 .. n : t[k] = s[k]
  OBVIOUS
<1> HIDE DEF t
<1>2. ASSUME NEW x PROVE Contains(t, x) <=> Contains(s, x) \/ x = e
  <2>1. ASSUME Contains(t, x), x # e PROVE Contains(s, x)
    <3>1. PICK k \in 1 .. (n + 1) : t[k] = x
      BY <1>1, <2>1 DEF Contains
    <3>2. k \in 1 .. n
      BY <1>1, <2>1, <3>1
    <3> QED
      BY <1>1, <3>1, <3>2 DEF Contains
  <2>2. ASSUME Contains(s, x) PROVE Contains(t, x)
    <3>1. PICK k \in 1 .. n : s[k] = x
      BY <2>2 DEF Contains
    <3>2. k \in 1 .. (n + 1) /\ t[k] = x
      BY <1>1, <3>1
    <3> QED
      BY <1>1, <3>2 DEF Contains
  <2>3. Contains(t, e)
    <3>1. n + 1 \in 1 .. (n + 1)
      BY <1>1
    <3> QED
      BY <1>1, <3>1 DEF Contains
  <2> QED
    BY <2>1, <2>2, <2>3
<1>3. ASSUME IsInjective(s), ~Contains(s, e) PROVE IsInjective(t)
  <2> SUFFICES ASSUME NEW a \in 1 .. (n + 1), NEW b \in 1 .. (n + 1), t[a] = t[b] PROVE a = b
    BY <1>1 DEF IsInjective
  <2>1. \A k \in 1 .. n : s[k] # e
    BY <1>3 DEF Contains
  <2>2. CASE a \in 1 .. n /\ b \in 1 .. n
    BY <1>1, <1>3, <2>2 DEF IsInjective
  <2>3. (a \in 1 .. n \/ a = n + 1) /\ (b \in 1 .. n \/ b = n + 1)
    BY <1>1
  <2> QED
    BY <1>1, <2>1, <2>2, <2>3
<1> QED
  BY <1>1, <1>2, <1>3 DEF t

\* The edits of a queue when the first goes.
LEMMA TailRemoves ==
  ASSUME NEW s \in Seq(Edit), Len(s) > 0, IsInjective(s)
  PROVE  /\ Tail(s) \in Seq(Edit) /\ IsInjective(Tail(s))
         /\ \A x : Contains(Tail(s), x) <=> Contains(s, x) /\ x # s[1]
<1> DEFINE t == Tail(s)
           n == Len(s)
<1>1. /\ n \in Nat \ {0} /\ t \in Seq(Edit) /\ Len(t) = n - 1
      /\ \A k \in 1 .. (n - 1) : t[k] = s[k + 1]
  OBVIOUS
<1> HIDE DEF t
<1>2. \A k \in 1 .. (n - 1) : k + 1 \in 1 .. n /\ k + 1 # 1
  BY <1>1
<1>3. IsInjective(t)
  <2> SUFFICES ASSUME NEW a \in 1 .. (n - 1), NEW b \in 1 .. (n - 1), t[a] = t[b] PROVE a = b
    BY <1>1 DEF IsInjective
  <2>1. a + 1 = b + 1
    BY <1>1, <1>2 DEF IsInjective
  <2> QED
    BY <1>1, <2>1
<1>4. ASSUME NEW x PROVE Contains(t, x) <=> Contains(s, x) /\ x # s[1]
  <2>1. ASSUME Contains(t, x) PROVE Contains(s, x) /\ x # s[1]
    <3>1. PICK k \in 1 .. (n - 1) : s[k + 1] = x
      BY <1>1, <2>1 DEF Contains
    <3>2. 1 \in 1 .. n
      BY <1>1
    <3> QED
      BY <1>2, <3>1, <3>2 DEF Contains, IsInjective
  <2>2. ASSUME Contains(s, x), x # s[1] PROVE Contains(t, x)
    <3>1. PICK k \in 1 .. n : s[k] = x
      BY <2>2 DEF Contains
    <3>2. k - 1 \in 1 .. (n - 1) /\ (k - 1) + 1 = k
      BY <1>1, <2>2, <3>1
    <3>3. t[k - 1] = x
      BY <1>1, <3>1, <3>2
    <3> QED
      BY <1>1, <3>2, <3>3 DEF Contains
  <2> QED
    BY <2>1, <2>2
<1> QED
  BY <1>1, <1>3, <1>4 DEF t

\* A view in a notice or a decision is an edit's.
LEMMA ViewsAreEdits ==
  ASSUME IdeTypes
  PROVE  /\ \A d \in deciding : d.view \in Edit /\ d.verdict \in Verdict
         /\ \A i \in DOMAIN notices : notices[i].view \in Edit /\ notices[i].verdict \in Verdict
<1>1. \A d \in Decision : d.view \in Edit /\ d.verdict \in Verdict
  BY DEF Decision
<1>2. deciding \subseteq Decision
  BY DEF IdeTypes
<1>3. notices \in Seq(Decision)
  BY DEF IdeTypes
<1>4. \A i \in DOMAIN notices : notices[i] \in Decision
  BY <1>3
<1> QED
  BY <1>1, <1>2, <1>4

\* The open edit is the first of the mutex, and there is one at most.
LEMMA OneIsOpen ==
  ASSUME IdeTypes, MutexInv
  PROVE  /\ \A e \in Edit : IsOpen(e) => Len(mutex) > 0 /\ Head(mutex) = e
         /\ \A e, f \in Edit : IsOpen(e) /\ IsOpen(f) => e = f
<1>1. ASSUME NEW e \in Edit, IsOpen(e) PROVE Len(mutex) > 0 /\ mutex[1] = e
  <2>1. Contains(mutex, e) /\ mutex[1] = e
    BY <1>1 DEF MutexInv, IsOpen
  <2> QED
    BY <2>1 DEF Contains, IdeTypes
<1> QED
  BY <1>1 DEF IdeTypes

\* A resolver settles the edit that is open, if it is its own, and nothing else.
LEMMA SettleIsLocal ==
  ASSUME IdeTypes, MutexInv, NEW r \in EditOrNone, NEW at \in Settled, NEW c \in EditOrNone,
         Settle(r, at, c)
  PROVE  /\ edit' \in [Edit -> Promise] /\ mutex' \in Seq(Edit)
         /\ MutexInv'
         /\ \A e \in Edit :
              /\ Begun(e)' <=> Begun(e)
              /\ IsOpen(e)' <=> IsOpen(e) /\ e # r
              /\ edit'[e] = edit[e] \/ (e = r /\ edit'[e] = [at |-> at, content |-> c])
<1>1. CASE r # NoEdit /\ edit[r].at = "open"
  <2>1. /\ edit' = [edit EXCEPT ![r] = [at |-> at, content |-> c]]
        /\ mutex' = Tail(mutex)
    BY <1>1 DEF Settle
  <2>2. r \in Edit /\ IsOpen(r)
    BY <1>1 DEF EditOrNone, IsOpen
  <2>3. Len(mutex) > 0 /\ mutex[1] = r
    BY <2>2, OneIsOpen DEF IdeTypes
  <2>4. edit' \in [Edit -> Promise]
    BY <2>1 DEF IdeTypes, Promise, EditOrNone
  <2>5. /\ mutex' \in Seq(Edit) /\ IsInjective(mutex)'
        /\ \A x : Contains(mutex', x) <=> Contains(mutex, x) /\ x # r
    BY <2>1, <2>3, TailRemoves DEF IdeTypes, MutexInv
  <2>6. ASSUME NEW e \in Edit
        PROVE  /\ Begun(e)' <=> Begun(e)
               /\ IsOpen(e)' <=> IsOpen(e) /\ e # r
               /\ edit'[e] = edit[e] \/ (e = r /\ edit'[e] = [at |-> at, content |-> c])
    BY <2>1, <2>2 DEF IdeTypes, Begun, IsOpen, Settled
  <2>7. MutexInv'
    <3>1. ASSUME NEW e \in Edit
          PROVE  Contains(mutex', e) <=> edit'[e].at \in {"queued", "open"}
      <4>1. Contains(mutex, e) <=> edit[e].at \in {"queued", "open"}
        BY DEF MutexInv
      <4>2. CASE e = r
        BY <2>1, <2>2, <2>5, <4>2 DEF IdeTypes, Settled
      <4>3. CASE e # r
        BY <2>1, <2>5, <4>1, <4>3 DEF IdeTypes
      <4> QED
        BY <4>2, <4>3
    <3>2. \A e \in Edit : ~IsOpen(e)'
      BY <2>2, <2>6, OneIsOpen
    <3> QED
      BY <2>5, <3>1, <3>2 DEF MutexInv
  <2> QED
    BY <2>4, <2>5, <2>6, <2>7
<1>2. CASE ~(r # NoEdit /\ edit[r].at = "open")
  <2>1. UNCHANGED <<edit, mutex>>
    BY <1>2 DEF Settle
  <2>2. \A e \in Edit : e = r => ~IsOpen(e)
    BY <1>2 DEF IsOpen, IdeTypes, IdeConstants
  <2> QED
    BY <2>1, <2>2 DEF IdeTypes, MutexInv, Begun, IsOpen
<1> QED
  BY <1>1, <1>2

-----------------------------------------------------------------------------
(* One lemma for each action.                                               *)

LEMMA IdeInitHolds ==
  ASSUME IdeConstants, IdeInit
  PROVE  IdeInv
<1> USE DEF IdeInit
<1>1. IdeTypes
  BY DEF IdeTypes, Promise, Answering, NoAnswer, Verdict, EditOrNone
<1>2. MutexInv
  BY DEF MutexInv, IsOpen, IsInjective, Contains
<1>3. FilesInv
  BY DEF FilesInv, NoAnswer
<1>4. ViewsInv
  BY DEF ViewsInv, Viewed, IsInjective, Contains, NoAnswer
<1>5. CalmInv
  BY DEF CalmInv, Viewed, Contains
<1>6. AloneInv
  BY DEF AloneInv, IsOpen, NoAnswer
<1> QED
  BY <1>1, <1>2, <1>3, <1>4, <1>5, <1>6 DEF IdeInv

LEMMA OpenDiffKeeps ==
  ASSUME IdeInv, NEW e \in Edit, OpenDiff(e)
  PROVE  IdeInv'
<1> USE DEF IdeInv
<1>1. /\ edit' = [edit EXCEPT ![e].at = "queued"] /\ edit[e].at = "new"
      /\ mutex' = Append(mutex, e)
      /\ UNCHANGED <<ideWorld, diffResponses, asked, documents, deciding, notices, answer, link>>
  BY DEF OpenDiff
<1>2. IdeTypes'
  <2>1. edit' \in [Edit -> Promise]
    BY <1>1 DEF IdeTypes, Promise
  <2>2. mutex' \in Seq(Edit)
    BY <1>1, AppendAdds DEF IdeTypes
  <2> QED
    BY <1>1, <2>1, <2>2 DEF IdeTypes
<1>3. ASSUME NEW x \in Edit
      PROVE  /\ x # e => edit'[x] = edit[x]
             /\ edit'[x].content = edit[x].content
             /\ Begun(x)' <=> Begun(x)
             /\ IsOpen(x)' <=> IsOpen(x)
             /\ edit'[x].at = "accepted" <=> edit[x].at = "accepted"
  BY <1>1 DEF IdeTypes, Promise, Begun, IsOpen
<1>4. MutexInv'
  <2>1. ~Contains(mutex, e)
    BY <1>1 DEF MutexInv
  <2>2. /\ IsInjective(mutex)'
        /\ \A x : Contains(mutex', x) <=> Contains(mutex, x) \/ x = e
    BY <1>1, <2>1, AppendAdds DEF MutexInv, IdeTypes
  <2>3. ASSUME NEW x \in Edit
        PROVE  Contains(mutex', x) <=> edit'[x].at \in {"queued", "open"}
    <3>1. CASE x = e
      BY <1>1, <2>2, <3>1 DEF IdeTypes, Promise
    <3>2. CASE x # e
      BY <1>3, <2>2, <3>2 DEF MutexInv
    <3> QED
      BY <3>1, <3>2
  <2>4. ASSUME NEW x \in Edit, IsOpen(x)' PROVE mutex'[1] = x
    <3>1. Len(mutex) > 0 /\ mutex[1] = x
      BY <1>3, <2>4, OneIsOpen DEF IdeTypes
    <3> QED
      BY <1>1, <3>1 DEF IdeTypes
  <2> QED
    BY <2>2, <2>3, <2>4 DEF MutexInv
<1>5. FilesInv'
  BY <1>1, <1>3 DEF FilesInv, FileOf
<1>6. ViewsInv'
  BY <1>1, <1>3, ViewsAreEdits DEF ViewsInv, Viewed
<1>7. CalmInv'
  BY <1>1, <1>3 DEF CalmInv, Calm, Viewed, Quiet, Separate, SameFile, FileOf
<1>8. AloneInv'
  BY <1>1, <1>3, ViewsAreEdits DEF AloneInv, Alone, Viewed, Quiet, FileOf
<1> QED
  BY <1>2, <1>4, <1>5, <1>6, <1>7, <1>8

\* The world of a session does not change.
LEMMA WorldStays ==
  ASSUME UNCHANGED ideWorld
  PROVE  /\ Calm' <=> Calm
         /\ Alone' <=> Alone
         /\ \A e : FileOf(e)' = FileOf(e)
         /\ ideWorld' = ideWorld
<1>1. ideWorld' = ideWorld
  OBVIOUS
<1>2. \A e : FileOf(e)' = FileOf(e)
  BY <1>1 DEF FileOf
<1>3. Quiet' <=> Quiet
  BY <1>1 DEF Quiet
<1>4. SameFile' <=> SameFile
  BY <1>2 DEF SameFile
<1>5. Separate' <=> Separate
  BY <1>1 DEF Separate, SameFile, Quiet, FileOf
<1>6. Calm' <=> Calm
  BY <1>3, <1>5, Zenon DEF Calm
<1>7. Alone' <=> Alone
  BY <1>1 DEF Alone, Quiet
<1> QED
  BY <1>1, <1>2, <1>6, <1>7

\* A side that answers alone.
LEMMA OneSide ==
  ASSUME NEW S \in SUBSET {"cli", "ide"}, Cardinality(S) = 1
  PROVE  \E side : S = {side}
<1>1. IsFiniteSet({"cli", "ide"})
  <2>1. {"cli", "ide"} = ({} \cup {"cli"}) \cup {"ide"}
    OBVIOUS
  <2>2. IsFiniteSet({} \cup {"cli"})
    BY FS_EmptySet, FS_AddElement
  <2> QED
    BY <2>1, <2>2, FS_AddElement
<1>2. IsFiniteSet(S)
  BY <1>1, FS_Subset
<1> QED
  BY <1>2, FS_Singleton

LEMMA CliIsAlone ==
  ASSUME IdeTypes, Alone
  PROVE  ~("cli" \in ideWorld.sides /\ "ide" \in ideWorld.sides)
<1>1. PICK side : ideWorld.sides = {side}
  BY OneSide, EditHasFile DEF Alone
<1> QED
  BY <1>1

LEMMA AloneIsCalm == Alone => Calm
BY DEF Alone, Calm, Separate

LEMMA AskKeeps ==
  ASSUME IdeInv, NEW e \in Edit, Ask(e)
  PROVE  IdeInv'
<1> USE DEF IdeInv
<1>1. /\ edit[e].at = "queued" /\ Head(mutex) = e
      /\ edit' = [edit EXCEPT ![e].at = "open"]
      /\ diffResponses' = [diffResponses EXCEPT ![FileOf(e)] = e]
      /\ asked' = asked \cup {e}
      /\ UNCHANGED <<ideWorld, mutex, documents, deciding, notices, answer, link>>
  BY DEF Ask, Locked
<1>2. IdeTypes'
  <2>1. edit' \in [Edit -> Promise]
    <3>1. [edit[e] EXCEPT !.at = "open"] \in Promise
      BY DEF IdeTypes, Promise
    <3> QED
      BY <1>1, <3>1 DEF IdeTypes
  <2>2. diffResponses' \in [File -> EditOrNone]
    BY <1>1 DEF IdeTypes, EditOrNone
  <2> QED
    BY <1>1, <2>1, <2>2 DEF IdeTypes
<1>3. \A x \in Edit : ~IsOpen(x)
  BY <1>1, OneIsOpen DEF IsOpen
<1>4. ASSUME NEW x \in Edit
      PROVE  /\ x # e => edit'[x] = edit[x]
             /\ edit'[x].content = edit[x].content
             /\ Begun(x)' <=> Begun(x) \/ x = e
             /\ IsOpen(x)' <=> x = e
             /\ edit'[x].at = "accepted" <=> edit[x].at = "accepted"
  BY <1>1, <1>3 DEF IdeTypes, Promise, Begun, IsOpen
<1>5. MutexInv'
  <2>1. mutex'[1] = e
    BY <1>1 DEF IdeTypes
  <2>2. \A x \in Edit : edit'[x].at \in {"queued", "open"} <=> edit[x].at \in {"queued", "open"}
    BY <1>1 DEF IdeTypes, Promise
  <2> QED
    BY <1>1, <1>4, <2>1, <2>2 DEF MutexInv
<1>6. ~Begun(e) /\ answer[e].at = "no" /\ ~Viewed(e)
  BY <1>1 DEF Begun, ViewsInv
<1>7. FilesInv'
  BY <1>1, <1>4, EditHasFile, WorldStays DEF FilesInv, IdeTypes
<1>8. ViewsInv'
  BY <1>1, <1>4, <1>6, ViewsAreEdits DEF ViewsInv, Viewed
<1>9. CalmInv'
  BY <1>1, <1>3, <1>4, <1>6, WorldStays DEF CalmInv, Viewed
<1>10. AloneInv'
  BY <1>1, <1>3, <1>4, <1>6, ViewsAreEdits, EditHasFile, WorldStays DEF AloneInv, Viewed, IdeTypes
<1> QED
  BY <1>2, <1>5, <1>7, <1>8, <1>9, <1>10

LEMMA ShowDiffKeeps ==
  ASSUME IdeInv, NEW e \in Edit, ShowDiff(e)
  PROVE  IdeInv'
<1> USE DEF IdeInv
<1>1. /\ e \in asked /\ asked' = asked \ {e}
      /\ documents' = Append(documents, e)
      /\ UNCHANGED <<ideWorld, edit, mutex, diffResponses, deciding, notices, answer, link>>
  BY DEF ShowDiff
<1>2. Begun(e) /\ ~Viewed(e)
  BY <1>1 DEF ViewsInv
<1>3. /\ documents' \in Seq(Edit) /\ IsInjective(documents)'
      /\ \A x : Viewed(x)' <=> Viewed(x) \/ x = e
  BY <1>1, <1>2, AppendAdds DEF IdeTypes, ViewsInv, Viewed
<1>4. IdeTypes'
  BY <1>1, <1>3 DEF IdeTypes
<1>5. MutexInv' /\ FilesInv'
  BY <1>1, WorldStays DEF MutexInv, FilesInv, IsOpen
<1>6. \A x : (Begun(x)' <=> Begun(x)) /\ (IsOpen(x)' <=> IsOpen(x))
  BY <1>1 DEF Begun, IsOpen
<1>7. ViewsInv'
  BY <1>1, <1>2, <1>3, <1>6, ViewsAreEdits DEF ViewsInv
<1>8. CalmInv'
  BY <1>1, <1>3, <1>6, WorldStays DEF CalmInv
<1>9. AloneInv'
  BY <1>1, <1>3, <1>6, ViewsAreEdits, WorldStays DEF AloneInv
<1> QED
  BY <1>4, <1>5, <1>7, <1>8, <1>9

LEMMA OpenFailsKeeps ==
  ASSUME IdeInv, NEW e \in Edit, OpenFails(e)
  PROVE  IdeInv'
<1> USE DEF IdeInv
<1>1. /\ e \in asked /\ asked' = asked \ {e}
      /\ documents' \in {documents, Append(documents, e)}
      /\ diffResponses' = [diffResponses EXCEPT ![FileOf(e)] = NoEdit]
      /\ Settle(e, "failed", NoEdit)
      /\ UNCHANGED <<ideWorld, deciding, notices, answer, link>>
  BY DEF OpenFails
<1>2. Begun(e) /\ ~Viewed(e)
  BY <1>1 DEF ViewsInv
<1>3. /\ documents' \in Seq(Edit) /\ IsInjective(documents)'
      /\ \A x : Viewed(x)' => Viewed(x) \/ x = e
  <2>1. CASE documents' = documents
    BY <2>1 DEF IdeTypes, ViewsInv, Viewed
  <2>2. CASE documents' = Append(documents, e)
    BY <1>2, <2>2, AppendAdds DEF IdeTypes, ViewsInv, Viewed
  <2> QED
    BY <1>1, <2>1, <2>2
<1>4. /\ edit' \in [Edit -> Promise] /\ mutex' \in Seq(Edit)
      /\ MutexInv'
      /\ \A x \in Edit :
           /\ Begun(x)' <=> Begun(x)
           /\ edit'[x] = edit[x] \/ (x = e /\ edit'[x] = [at |-> "failed", content |-> NoEdit])
  BY <1>1, SettleIsLocal DEF EditOrNone, Settled
<1>5. IdeTypes'
  <2>1. diffResponses' \in [File -> EditOrNone]
    BY <1>1 DEF IdeTypes, EditOrNone
  <2> QED
    BY <1>1, <1>3, <1>4, <2>1 DEF IdeTypes
<1>6. FilesInv'
  <2>1. \A x \in Edit : edit'[x].content \in {edit[x].content, NoEdit}
    BY <1>4
  <2> QED
    BY <1>1, <2>1, WorldStays DEF FilesInv, IdeTypes
<1>7. ViewsInv'
  BY <1>1, <1>2, <1>3, <1>4, ViewsAreEdits DEF ViewsInv
<1>8. ~Quiet \/ link # "up"
  BY DEF OpenFails, Quiet, May, Connected, Up
<1>9. ~Calm
  BY <1>8 DEF CalmInv, Calm
<1>10. CalmInv' /\ AloneInv'
  BY <1>1, <1>9, AloneIsCalm, WorldStays DEF CalmInv, AloneInv
<1> QED
  BY <1>4, <1>5, <1>6, <1>7, <1>10

LEMMA DecidesKeeps ==
  ASSUME IdeInv, NEW d \in Decision, Decides(d)
  PROVE  IdeInv'
<1> USE DEF IdeInv
<1>1. /\ "ide" \in ideWorld.sides
      /\ Viewed(d.view)
      /\ (\A o \in deciding : o.view # d.view) \/ May("twice")
      /\ deciding' = deciding \cup {d}
      /\ UNCHANGED <<ideWorld, edit, mutex, diffResponses, asked, documents, notices, answer, link>>
  BY DEF Decides, Viewed
<1>2. d.view \in Edit
  BY DEF Decision
<1>3. \A x : (Begun(x)' <=> Begun(x)) /\ (IsOpen(x)' <=> IsOpen(x)) /\ (Viewed(x)' <=> Viewed(x))
  BY <1>1 DEF Begun, IsOpen, Viewed
<1>4. IdeTypes' /\ MutexInv' /\ FilesInv'
  BY <1>1, WorldStays DEF IdeTypes, MutexInv, FilesInv, IsOpen
<1>5. ViewsInv'
  <2>1. Begun(d.view) /\ d.view \notin asked
    BY <1>1, <1>2 DEF ViewsInv
  <2> QED
    BY <1>1, <1>3, <2>1 DEF ViewsInv
<1>6. CalmInv'
  BY <1>1, <1>3, WorldStays DEF CalmInv
<1>7. AloneInv'
  <2> SUFFICES ASSUME Alone PROVE AloneInv'
    BY <1>1, WorldStays DEF AloneInv
  <2>1. IsOpen(d.view)
    BY <1>1, <1>2, AloneIsCalm DEF CalmInv
  <2>2. \A o \in deciding : o.view # d.view
    BY <1>1 DEF Alone, Quiet, May
  <2> QED
    BY <1>1, <1>3, <2>1, <2>2, WorldStays DEF AloneInv
<1> QED
  BY <1>4, <1>5, <1>6, <1>7

LEMMA DecidedKeeps ==
  ASSUME IdeInv, NEW d \in Decision, Decided(d)
  PROVE  IdeInv'
<1> USE DEF IdeInv
<1>1. /\ d \in deciding /\ deciding' = deciding \ {d}
      /\ documents' = Closed(d.view)
      /\ notices' \in {notices, Append(notices, d)}
      /\ UNCHANGED <<ideWorld, edit, mutex, diffResponses, asked, answer, link>>
  BY DEF Decided
<1>2. /\ documents' \in Seq(Edit) /\ IsInjective(documents)'
      /\ \A x : Viewed(x)' <=> Viewed(x) /\ x # d.view
  BY <1>1, ClosedRemovesView DEF IdeTypes, ViewsInv, Viewed
<1>3. /\ notices' \in Seq(Decision)
      /\ \A i \in DOMAIN notices' : notices'[i] = d \/ (i \in DOMAIN notices /\ notices'[i] = notices[i])
      /\ Len(notices') <= Len(notices) + 1
  <2>1. notices \in Seq(Decision)
    BY DEF IdeTypes
  <2>2. CASE notices' = notices
    BY <2>1, <2>2
  <2>3. CASE notices' = Append(notices, d)
    BY <2>1, <2>3
  <2> QED
    BY <1>1, <2>2, <2>3
<1>4. \A x : (Begun(x)' <=> Begun(x)) /\ (IsOpen(x)' <=> IsOpen(x))
  BY <1>1 DEF Begun, IsOpen
<1>5. IdeTypes' /\ MutexInv' /\ FilesInv'
  BY <1>1, <1>2, <1>3, WorldStays DEF IdeTypes, MutexInv, FilesInv, IsOpen
<1>6. ViewsInv'
  <2>1. ASSUME NEW i \in DOMAIN notices', NEW x, x = notices'[i].view
        PROVE  Begun(x)' /\ x \notin asked' /\ ~Viewed(x)'
    <3>1. Begun(d.view) /\ d.view \notin asked
      BY <1>1 DEF ViewsInv
    <3>2. CASE notices'[i] = d
      BY <1>1, <1>2, <1>4, <2>1, <3>1, <3>2
    <3>3. CASE i \in DOMAIN notices /\ notices'[i] = notices[i]
      BY <1>1, <1>2, <1>4, <2>1, <3>3 DEF ViewsInv
    <3> QED
      BY <1>3, <3>2, <3>3
  <2> QED
    BY <1>1, <1>2, <1>4, <2>1 DEF ViewsInv
<1>7. CalmInv'
  BY <1>1, <1>2, <1>4, WorldStays DEF CalmInv
<1>8. AloneInv'
  <2> SUFFICES ASSUME Alone PROVE AloneInv'
    BY <1>1, WorldStays DEF AloneInv
  <2>1. d.view \in Edit /\ IsOpen(d.view) /\ Viewed(d.view) /\ "ide" \in ideWorld.sides
    BY <1>1, ViewsAreEdits DEF AloneInv
  <2>2. notices = <<>>
    <3>1. ASSUME Len(notices) # 0 PROVE FALSE
      <4>1. 1 \in DOMAIN notices
        BY <3>1 DEF IdeTypes
      <4>2. IsOpen(notices[1].view) /\ ~Viewed(notices[1].view) /\ notices[1].view \in Edit
        BY <4>1, ViewsAreEdits DEF AloneInv, ViewsInv
      <4> QED
        BY <2>1, <4>2, OneIsOpen
    <3> QED
      BY <3>1 DEF IdeTypes
  <2>3. \A i \in DOMAIN notices' : notices'[i] = d
    BY <1>3, <2>2
  <2>4. Len(notices') <= 1
    BY <1>3, <2>2
  <2>5. \A c \in deciding' : IsOpen(c.view)' /\ Viewed(c.view)'
    BY <1>1, <1>2, <1>4 DEF AloneInv
  <2> QED
    BY <1>1, <1>4, <2>1, <2>3, <2>4, <2>5, WorldStays DEF AloneInv
<1> QED
  BY <1>5, <1>6, <1>7, <1>8

LEMMA NotifiedKeeps ==
  ASSUME IdeInv, Notified
  PROVE  IdeInv'
<1> USE DEF IdeInv
<1> DEFINE d == notices[1]
           f == FileOf(d.view)
           r == diffResponses[f]
           content == IF d.verdict = "accepted" THEN d.view ELSE NoEdit
<1>1. /\ Len(notices) > 0 /\ 1 \in DOMAIN notices
      /\ Head(notices) = d
  BY DEF Notified, IdeTypes
<1>2. /\ Settle(r, d.verdict, content)
      /\ diffResponses' = [diffResponses EXCEPT ![f] = NoEdit]
      /\ notices' = Tail(notices)
      /\ UNCHANGED <<ideWorld, asked, documents, deciding, answer, link>>
  BY <1>1 DEF Notified, ResolverOf
<1>3. /\ d.view \in Edit /\ d.verdict \in Verdict
      /\ Begun(d.view) /\ d.view \notin asked /\ ~Viewed(d.view)
  BY <1>1, ViewsAreEdits DEF ViewsInv
<1>4. f \in File /\ r \in EditOrNone /\ (r # NoEdit => FileOf(r) = f)
  BY <1>3, EditHasFile DEF IdeTypes, FilesInv
<1> HIDE DEF d, f, r
<1>5. content \in EditOrNone /\ d.verdict \in Settled
  BY <1>3 DEF EditOrNone, Verdict, Settled
<1>6. /\ edit' \in [Edit -> Promise] /\ mutex' \in Seq(Edit)
      /\ MutexInv'
      /\ \A x \in Edit :
           /\ Begun(x)' <=> Begun(x)
           /\ IsOpen(x)' <=> IsOpen(x) /\ x # r
           /\ edit'[x] = edit[x] \/ (x = r /\ edit'[x] = [at |-> d.verdict, content |-> content])
  <2> HIDE DEF content
  <2> QED
    BY <1>2, <1>4, <1>5, SettleIsLocal
<1>7. /\ notices' \in Seq(Decision) /\ Len(notices') = Len(notices) - 1
      /\ \A i \in DOMAIN notices' : i + 1 \in DOMAIN notices /\ notices'[i] = notices[i + 1]
  BY <1>1, <1>2 DEF IdeTypes
<1>8. IdeTypes'
  <2>1. diffResponses' \in [File -> EditOrNone]
    BY <1>2 DEF IdeTypes, EditOrNone
  <2> QED
    BY <1>2, <1>6, <1>7, <2>1 DEF IdeTypes
<1>9. FilesInv'
  <2>1. \A x \in Edit :
          edit'[x].content # NoEdit => FileOf(edit'[x].content) = FileOf(x)
    BY <1>4, <1>5, <1>6 DEF FilesInv, IdeTypes, IdeConstants, f
  <2> QED
    BY <1>2, <1>4, <2>1, WorldStays DEF FilesInv, IdeTypes
<1>10. ViewsInv'
  <2>1. \A x : Viewed(x)' <=> Viewed(x)
    BY <1>2 DEF Viewed
  <2>2. \A i \in DOMAIN notices' : notices'[i].view \in Edit
    BY <1>7, ViewsAreEdits
  <2>3. ASSUME NEW i \in DOMAIN notices', NEW x, x = notices'[i].view
        PROVE  Begun(x)' /\ x \notin asked' /\ ~Viewed(x)'
    BY <1>2, <1>6, <1>7, <2>1, <2>2, <2>3 DEF ViewsInv
  <2> QED
    BY <1>2, <1>6, <2>1, <2>3, ViewsAreEdits DEF ViewsInv
<1>11. ASSUME Calm PROVE r \in {NoEdit, d.view}
  <2>1. CASE Alone
    <3>1. IsOpen(d.view)
      BY <1>1, <2>1 DEF AloneInv, d
    <3> QED
      BY <1>3, <2>1, <3>1 DEF AloneInv, r, f
  <2>2. CASE ~Alone
    <3>1. ~SameFile
      BY <1>11, <2>2 DEF Calm, Alone, Separate
    <3> QED
      BY <1>3, <1>4, <3>1 DEF SameFile, EditOrNone, f
  <2> QED
    BY <2>1, <2>2
<1>12. CalmInv'
  <2> SUFFICES ASSUME Calm, NEW x \in Edit, x \in asked \/ Viewed(x)
               PROVE  link = "up" /\ IsOpen(x)' /\ answer[x].at # "closed"
    BY <1>2, WorldStays DEF CalmInv, Viewed
  <2>1. x # r
    BY <1>3, <1>11 DEF IdeTypes, IdeConstants
  <2> QED
    BY <1>6, <2>1 DEF CalmInv
<1>13. AloneInv'
  <2> SUFFICES ASSUME Alone PROVE AloneInv'
    BY <1>2, WorldStays DEF AloneInv
  <2>1. IsOpen(d.view) /\ r = d.view /\ "ide" \in ideWorld.sides
    BY <1>1, <1>3 DEF AloneInv, d, r, f
  <2>2. \A x \in Edit : ~IsOpen(x)'
    BY <1>3, <1>6, <2>1, OneIsOpen
  <2>3. "cli" \notin ideWorld.sides
    BY <2>1, CliIsAlone
  <2>4. \A x \in Edit : answer[x].at = "no"
    BY <2>3 DEF AloneInv
  <2>5. deciding = {}
    <3>1. ASSUME NEW c \in deciding PROVE FALSE
      <4>1. c.view \in Edit /\ IsOpen(c.view) /\ Viewed(c.view)
        BY <3>1, ViewsAreEdits DEF AloneInv
      <4> QED
        BY <1>3, <2>1, <4>1, OneIsOpen
    <3> QED
      BY <3>1
  <2>6. Len(notices') = 0 /\ notices' = <<>>
    <3>1. Len(notices) \in Nat /\ Len(notices) <= 1
      BY DEF AloneInv, IdeTypes
    <3> QED
      BY <1>1, <1>7, <3>1
  <2>7. \A x \in Edit : edit'[x].at = "accepted" => edit'[x].content \in {x, NoEdit}
    BY <1>6, <2>1 DEF AloneInv
  <2> QED
    BY <1>2, <2>1, <2>2, <2>4, <2>5, <2>6, <2>7, WorldStays DEF AloneInv
<1> QED
  BY <1>6, <1>8, <1>9, <1>10, <1>12, <1>13

LEMMA CliAnswersKeeps ==
  ASSUME IdeInv, NEW e \in Edit, CliAnswers(e)
  PROVE  IdeInv'
<1> USE DEF IdeInv
<1>1. PICK v \in Verdict :
        answer' = [answer EXCEPT ![e] = [at |-> "closing", verdict |-> v, content |-> NoEdit,
                                         resolver |-> diffResponses[FileOf(e)]]]
  BY DEF CliAnswers, ResolverOf
<1>2. /\ "cli" \in ideWorld.sides /\ edit[e].at = "open"
      /\ UNCHANGED <<ideWorld, edit, mutex, diffResponses, asked, documents, deciding, notices, link>>
  BY DEF CliAnswers
<1>3. /\ FileOf(e) \in File /\ diffResponses[FileOf(e)] \in EditOrNone
      /\ diffResponses[FileOf(e)] # NoEdit => FileOf(diffResponses[FileOf(e)]) = FileOf(e)
  BY EditHasFile DEF IdeTypes, FilesInv
<1>4. ASSUME NEW x \in Edit
      PROVE  answer'[x] = IF x = e THEN [at |-> "closing", verdict |-> v, content |-> NoEdit,
                                         resolver |-> diffResponses[FileOf(e)]]
                                   ELSE answer[x]
  BY <1>1 DEF IdeTypes
<1>5. \A x : (Begun(x)' <=> Begun(x)) /\ (IsOpen(x)' <=> IsOpen(x)) /\ (Viewed(x)' <=> Viewed(x))
  BY <1>2 DEF Begun, IsOpen, Viewed
<1>6. Begun(e) /\ IsOpen(e)
  BY <1>2 DEF Begun, IsOpen
<1>7. IdeTypes'
  <2>1. [at |-> "closing", verdict |-> v, content |-> NoEdit, resolver |-> diffResponses[FileOf(e)]]
           \in Answering
    BY <1>3 DEF Answering, EditOrNone
  <2>2. answer' \in [Edit -> Answering]
    BY <1>1, <2>1 DEF IdeTypes
  <2> QED
    BY <1>2, <2>2 DEF IdeTypes
<1>8. MutexInv'
  BY <1>2 DEF MutexInv, IsOpen
<1>9. FilesInv'
  BY <1>2, <1>3, <1>4, WorldStays DEF FilesInv
<1>10. ViewsInv'
  BY <1>2, <1>4, <1>5, <1>6 DEF ViewsInv
<1>11. CalmInv'
  BY <1>2, <1>4, <1>5, WorldStays DEF CalmInv
<1>12. AloneInv'
  <2> SUFFICES ASSUME Alone PROVE AloneInv'
    BY <1>2, WorldStays DEF AloneInv
  <2>1. diffResponses[FileOf(e)] = e
    BY <1>6 DEF AloneInv
  <2> QED
    BY <1>2, <1>4, <1>5, <1>6, <2>1, WorldStays DEF AloneInv
<1> QED
  BY <1>7, <1>8, <1>9, <1>10, <1>11, <1>12

\* What closeDiff finds and closes leaves no view of the edit that is answered.
LEMMA CloseDiffKeeps ==
  ASSUME IdeInv, NEW e \in Edit, CloseDiff(e)
  PROVE  IdeInv'
<1> USE DEF IdeInv
<1> DEFINE f == FileOf(e)
           view == FirstOf(f)
<1>1. /\ answer[e].at = "closing"
      /\ \A x \in asked : FileOf(x) # f
      /\ documents' = IF view = NoEdit THEN documents ELSE Closed(view)
      /\ answer' = [answer EXCEPT ![e].at = "closed", ![e].content = view]
      /\ UNCHANGED <<ideWorld, edit, mutex, diffResponses, asked, deciding, notices, link>>
  BY DEF CloseDiff, Served
<1>2. f \in File
  BY EditHasFile
<1>3. \/ view = NoEdit /\ \A x \in Edit : Viewed(x) => FileOf(x) # f
      \/ view \in Edit /\ Viewed(view) /\ FileOf(view) = f
  BY <1>2, FirstIsOfFile
<1> HIDE DEF view
<1>4. /\ documents' \in Seq(Edit) /\ IsInjective(documents)'
      /\ \A x \in Edit : Viewed(x)' <=> Viewed(x) /\ x # view
  <2>1. CASE view = NoEdit
    BY <1>1, <2>1 DEF IdeTypes, IdeConstants, ViewsInv, Viewed
  <2>2. CASE view # NoEdit
    BY <1>1, <2>2, ClosedRemovesView DEF IdeTypes, ViewsInv, Viewed
  <2> QED
    BY <2>1, <2>2
<1>5. ASSUME NEW x \in Edit
      PROVE  /\ x # e => answer'[x] = answer[x]
             /\ answer'[e].at = "closed" /\ answer'[e].content = view
             /\ answer'[x].resolver = answer[x].resolver
             /\ answer'[x].at = "no" <=> answer[x].at = "no"
  BY <1>1 DEF IdeTypes, Answering
<1>6. \A x : (Begun(x)' <=> Begun(x)) /\ (IsOpen(x)' <=> IsOpen(x))
  BY <1>1 DEF Begun, IsOpen
<1>7. IdeTypes'
  <2>1. answer' \in [Edit -> Answering]
    <3>1. view \in Edit \cup {NoEdit}
      BY <1>3
    <3> QED
      <4>1. [answer[e] EXCEPT !.at = "closed", !.content = view] \in Answering
        BY <3>1 DEF IdeTypes, Answering
      <4> QED
        BY <1>1, <4>1 DEF IdeTypes
  <2> QED
    BY <1>1, <1>4, <2>1 DEF IdeTypes
<1>8. MutexInv'
  BY <1>1 DEF MutexInv, IsOpen
<1>9. FilesInv'
  <2>1. view # NoEdit => FileOf(view) = FileOf(e)
    BY <1>3
  <2>2. ASSUME NEW x \in Edit
        PROVE  /\ answer'[x].content # NoEdit => FileOf(answer'[x].content) = FileOf(x)
               /\ answer'[x].resolver # NoEdit => FileOf(answer'[x].resolver) = FileOf(x)
    BY <1>5, <2>1 DEF FilesInv
  <2>3. /\ \A g \in File : diffResponses'[g] # NoEdit => FileOf(diffResponses'[g]) = g
        /\ \A x \in Edit : edit'[x].content # NoEdit => FileOf(edit'[x].content) = FileOf(x)
    BY <1>1 DEF FilesInv
  <2>4. ideWorld' = ideWorld
    BY <1>1
  <2> HIDE DEF f
  <2>5. \A x \in Edit :
           /\ answer'[x].resolver # NoEdit => ideWorld'.file[answer'[x].resolver] = ideWorld'.file[x]
           /\ answer'[x].content # NoEdit => ideWorld'.file[answer'[x].content] = ideWorld'.file[x]
           /\ edit'[x].content # NoEdit => ideWorld'.file[edit'[x].content] = ideWorld'.file[x]
    BY <2>2, <2>3, <2>4 DEF FileOf
  <2>6. \A g \in File : diffResponses'[g] # NoEdit => ideWorld'.file[diffResponses'[g]] = g
    BY <2>3, <2>4 DEF FileOf
  <2> QED
    BY <2>5, <2>6 DEF FilesInv, FileOf
<1>10. ViewsInv'
  BY <1>1, <1>4, <1>5, <1>6, ViewsAreEdits DEF ViewsInv
<1>11. Calm => view \in {e, NoEdit}
  <2> SUFFICES ASSUME Calm, view # NoEdit PROVE view = e
    OBVIOUS
  <2>1. CASE Alone
    <3>1. IsOpen(e) /\ IsOpen(view) /\ view \in Edit
      BY <1>1, <1>3, <2>1, AloneIsCalm DEF AloneInv, CalmInv
    <3> QED
      BY <3>1, OneIsOpen
  <2>2. CASE ~Alone
    <3>1. ~SameFile
      BY <2>2 DEF Calm, Alone, Separate
    <3> QED
      BY <1>3, <3>1 DEF SameFile
  <2> QED
    BY <2>1, <2>2
<1>12. CalmInv'
  <2> SUFFICES ASSUME Calm PROVE CalmInv'
    BY <1>1, WorldStays DEF CalmInv
  <2>1. e \notin asked /\ ~Viewed(e)'
    BY <1>1, <1>3, <1>4, <1>11 DEF IdeTypes, IdeConstants
  <2>2. ASSUME NEW x \in Edit, x \in asked' \/ Viewed(x)'
        PROVE  IsOpen(x)' /\ answer'[x].at # "closed"
    BY <1>1, <1>4, <1>5, <1>6, <2>1, <2>2 DEF CalmInv
  <2> QED
    BY <1>1, <2>2 DEF CalmInv
<1>13. AloneInv'
  <2> SUFFICES ASSUME Alone PROVE AloneInv'
    BY <1>1, WorldStays DEF AloneInv
  <2>1. view \in {e, NoEdit}
    BY <1>11, AloneIsCalm
  <2>2. "cli" \in ideWorld.sides
    BY <1>1 DEF AloneInv
  <2>3. ASSUME NEW d \in deciding PROVE FALSE
    <3>1. deciding = {}
      BY <2>2, CliIsAlone DEF AloneInv
    <3> QED
      BY <2>3, <3>1
  <2>4. ASSUME NEW x \in Edit, answer'[x].at # "no"
        PROVE  IsOpen(x)' /\ answer'[x].resolver = x /\ answer'[x].content \in {x, NoEdit}
    BY <1>5, <1>6, <2>1, <2>4 DEF AloneInv
  <2> QED
    <3>1. deciding' = {} /\ "cli" \in ideWorld'.sides /\ edit' = edit /\ notices' = notices
      BY <1>1, <2>2, <2>3
    <3>2. \A x \in Edit : edit'[x].at = "open" => diffResponses'[ideWorld'.file[x]] = x
      BY <1>1 DEF AloneInv, IsOpen, FileOf
    <3>3. \A i \in DOMAIN notices' : edit'[notices'[i].view].at = "open"
      BY <1>1 DEF AloneInv, IsOpen
    <3>4. Len(notices') <= 1 /\ ("ide" \in ideWorld'.sides \/ notices' = <<>>)
      BY <1>1 DEF AloneInv
    <3>5. \A x \in Edit : edit'[x].at = "accepted" => edit'[x].content \in {x, NoEdit}
      BY <1>1 DEF AloneInv
    <3>6. \A x \in Edit : answer'[x].at # "no" =>
             /\ edit'[x].at = "open" /\ answer'[x].resolver = x
             /\ answer'[x].content \in {x, NoEdit}
      BY <2>4 DEF IsOpen
    <3> HIDE DEF f
    <3> QED
      BY <3>1, <3>2, <3>3, <3>4, <3>5, <3>6 DEF AloneInv, IsOpen, FileOf
<1> QED
  BY <1>7, <1>8, <1>9, <1>10, <1>12, <1>13

LEMMA CloseFailsKeeps ==
  ASSUME IdeInv, NEW e \in Edit, CloseFails(e)
  PROVE  IdeInv'
<1> USE DEF IdeInv
<1>1. /\ answer[e].at = "closing" /\ (Connected => May("close"))
      /\ answer' = [answer EXCEPT ![e].at = "closed"]
      /\ UNCHANGED <<ideWorld, edit, mutex, diffResponses, asked, documents, deciding, notices, link>>
  BY DEF CloseFails
<1>2. ASSUME NEW x \in Edit
      PROVE  /\ answer'[x].resolver = answer[x].resolver /\ answer'[x].content = answer[x].content
             /\ answer'[x].at = "no" <=> answer[x].at = "no"
  BY <1>1 DEF IdeTypes, Answering
<1>3. IdeTypes'
  <2>1. answer' \in [Edit -> Answering]
    BY <1>1 DEF IdeTypes, Answering
  <2> QED
    BY <1>1, <2>1 DEF IdeTypes
<1>4. MutexInv' /\ FilesInv'
  BY <1>1, <1>2, WorldStays DEF MutexInv, FilesInv, IsOpen
<1>5. \A x : (Begun(x)' <=> Begun(x)) /\ (Viewed(x)' <=> Viewed(x))
  BY <1>1 DEF Begun, Viewed
<1>6. ViewsInv'
  BY <1>1, <1>2, <1>5 DEF ViewsInv
<1>7. ~Calm
  BY <1>1 DEF CalmInv, Calm, Quiet, May, Connected, Up
<1>8. CalmInv' /\ AloneInv'
  BY <1>1, <1>7, AloneIsCalm, WorldStays DEF CalmInv, AloneInv
<1> QED
  BY <1>3, <1>4, <1>6, <1>8

LEMMA ResolveFromCliKeeps ==
  ASSUME IdeInv, NEW e \in Edit, ResolveFromCli(e)
  PROVE  IdeInv'
<1> USE DEF IdeInv
<1> DEFINE r == answer[e].resolver
           verdict == answer[e].verdict
           content == IF verdict = "accepted" THEN answer[e].content ELSE NoEdit
<1>1. /\ answer[e].at = "closed"
      /\ answer' = [answer EXCEPT ![e] = NoAnswer]
      /\ UNCHANGED <<ideWorld, asked, documents, deciding, notices, link>>
  BY DEF ResolveFromCli
<1>2. \/ Settle(r, verdict, content) /\ diffResponses' = [diffResponses EXCEPT ![FileOf(e)] = NoEdit]
      \/ r = NoEdit /\ UNCHANGED <<edit, mutex, diffResponses>>
  BY DEF ResolveFromCli
<1>3. /\ r \in EditOrNone /\ verdict \in Settled /\ content \in EditOrNone
      /\ r # NoEdit => FileOf(r) = FileOf(e)
      /\ content # NoEdit => FileOf(content) = FileOf(e)
  BY DEF IdeTypes, Answering, EditOrNone, Verdict, Settled, FilesInv
<1> HIDE DEF r, verdict, content
<1>4. /\ edit' \in [Edit -> Promise] /\ mutex' \in Seq(Edit)
      /\ MutexInv'
      /\ \A x \in Edit :
           /\ Begun(x)' <=> Begun(x)
           /\ IsOpen(x)' <=> IsOpen(x) /\ x # r
           /\ edit'[x] = edit[x] \/ (x = r /\ edit'[x] = [at |-> verdict, content |-> content])
  <2>1. CASE Settle(r, verdict, content)
    BY <1>3, <2>1, SettleIsLocal
  <2>2. CASE r = NoEdit /\ UNCHANGED <<edit, mutex, diffResponses>>
    BY <2>2 DEF IdeTypes, IdeConstants, MutexInv, Begun, IsOpen
  <2> QED
    BY <1>2, <2>1, <2>2
<1>5. /\ diffResponses' \in [File -> EditOrNone]
      /\ \A f \in File : diffResponses'[f] \in {diffResponses[f], NoEdit}
  BY <1>2 DEF IdeTypes, EditOrNone
<1>6. /\ answer' \in [Edit -> Answering]
      /\ \A x \in Edit : answer'[x] = IF x = e THEN NoAnswer ELSE answer[x]
  BY <1>1 DEF IdeTypes, Answering, NoAnswer, Verdict
<1>7. \A x : Viewed(x)' <=> Viewed(x)
  BY <1>1 DEF Viewed
<1>8. IdeTypes'
  BY <1>1, <1>4, <1>5, <1>6 DEF IdeTypes
<1>9. FilesInv'
  <2>1. \A f \in File : diffResponses'[f] # NoEdit => FileOf(diffResponses'[f]) = f
    BY <1>5 DEF FilesInv
  <2>2. ASSUME NEW x \in Edit
        PROVE  /\ answer'[x].resolver # NoEdit => FileOf(answer'[x].resolver) = FileOf(x)
               /\ answer'[x].content # NoEdit => FileOf(answer'[x].content) = FileOf(x)
    BY <1>6 DEF FilesInv, NoAnswer
  <2>3. ASSUME NEW x \in Edit, edit'[x].content # NoEdit
        PROVE  FileOf(edit'[x].content) = FileOf(x)
    <3>1. CASE edit'[x] = edit[x]
      BY <2>3, <3>1 DEF FilesInv
    <3>2. CASE x = r /\ edit'[x] = [at |-> verdict, content |-> content]
      BY <1>3, <2>3, <3>2 DEF IdeTypes, IdeConstants
    <3> QED
      BY <1>4, <3>1, <3>2
  <2> QED
    BY <1>1, <2>1, <2>2, <2>3 DEF FilesInv, FileOf
<1>10. ViewsInv'
  BY <1>1, <1>4, <1>6, <1>7, ViewsAreEdits DEF ViewsInv, NoAnswer
<1>11. Calm => r \in {NoEdit, e}
  <2>1. CASE Alone
    BY <1>1, <2>1 DEF AloneInv, r
  <2>2. ASSUME Calm, ~Alone PROVE r \in {NoEdit, e}
    <3>1. ~SameFile
      BY <2>2 DEF Calm, Alone, Separate
    <3> QED
      BY <1>3, <3>1 DEF SameFile, EditOrNone
  <2> QED
    BY <2>1, <2>2
<1>12. CalmInv'
  <2> SUFFICES ASSUME Calm PROVE CalmInv'
    BY <1>1, WorldStays DEF CalmInv
  <2>1. ASSUME NEW x \in Edit, x \in asked \/ Viewed(x)
        PROVE  IsOpen(x)' /\ answer'[x].at # "closed"
    <3>1. IsOpen(x) /\ answer[x].at # "closed"
      BY <2>1 DEF CalmInv
    <3>2. x # e /\ x # r
      BY <1>1, <1>11, <3>1 DEF IdeTypes, IdeConstants
    <3> QED
      BY <1>4, <1>6, <3>1, <3>2
  <2> QED
    BY <1>1, <1>7, <2>1 DEF CalmInv
<1>13. AloneInv'
  <2> SUFFICES ASSUME Alone PROVE AloneInv'
    BY <1>1, WorldStays DEF AloneInv
  <2>1. IsOpen(e) /\ r = e /\ content \in {e, NoEdit} /\ "cli" \in ideWorld.sides
    BY <1>1 DEF AloneInv, r, content
  <2>2. \A x \in Edit : ~IsOpen(x)'
    BY <1>4, <2>1, OneIsOpen
  <2>3. deciding = {} /\ notices = <<>>
    BY <2>1, CliIsAlone DEF AloneInv
  <2>4. \A x \in Edit : answer'[x].at = "no"
    <3>1. ASSUME NEW x \in Edit, x # e PROVE answer[x].at = "no"
      BY <2>1, <3>1, OneIsOpen DEF AloneInv
    <3> QED
      BY <1>6, <3>1 DEF NoAnswer
  <2>5. \A x \in Edit : edit'[x].at = "accepted" => edit'[x].content \in {x, NoEdit}
    BY <1>4, <2>1 DEF AloneInv
  <2> QED
    BY <1>1, <2>1, <2>2, <2>3, <2>4, <2>5 DEF AloneInv
<1> QED
  BY <1>4, <1>8, <1>9, <1>10, <1>12, <1>13

LEMMA CloseForDisconnectKeeps ==
  ASSUME IdeInv, CloseForDisconnect
  PROVE  IdeInv'
<1> USE DEF IdeInv
<1>1. PICK e \in Edit :
        LET view == FirstOf(FileOf(e)) IN
        /\ Contains(documents, e)
        /\ documents' = Closed(view)
        /\ notices' = Append(notices, [view |-> view, verdict |-> "rejected"])
  BY DEF CloseForDisconnect
<1> DEFINE view == FirstOf(FileOf(e))
           d == [view |-> view, verdict |-> "rejected"]
<1>2. /\ link = "closing"
      /\ UNCHANGED <<ideWorld, edit, mutex, diffResponses, asked, deciding, answer, link>>
  BY DEF CloseForDisconnect
<1>3. view \in Edit /\ Viewed(view)
  BY <1>1, EditHasFile, FirstIsOfFile DEF Viewed
<1> HIDE DEF view
<1>4. /\ documents' \in Seq(Edit) /\ IsInjective(documents)'
      /\ \A x : Viewed(x)' <=> Viewed(x) /\ x # view
  BY <1>1, ClosedRemovesView DEF IdeTypes, ViewsInv, Viewed, view
<1>5. d \in Decision /\ d.view = view
  BY <1>3 DEF Decision, Verdict
<1> HIDE DEF d
<1>6. /\ notices' \in Seq(Decision)
      /\ \A i \in DOMAIN notices' : notices'[i] = d \/ (i \in DOMAIN notices /\ notices'[i] = notices[i])
  <2>1. notices \in Seq(Decision) /\ notices' = Append(notices, d)
    BY <1>1 DEF IdeTypes, d, view
  <2> QED
    BY <1>5, <2>1
<1>7. IdeTypes'
  BY <1>2, <1>4, <1>6 DEF IdeTypes
<1>8. MutexInv' /\ FilesInv'
  BY <1>2, WorldStays DEF MutexInv, FilesInv, IsOpen
<1>9. \A x : Begun(x)' <=> Begun(x)
  BY <1>2 DEF Begun
<1>10. ViewsInv'
  <2>1. Begun(view) /\ view \notin asked
    BY <1>3 DEF ViewsInv
  <2>2. ASSUME NEW i \in DOMAIN notices', NEW x, x = notices'[i].view
        PROVE  Begun(x)' /\ x \notin asked' /\ ~Viewed(x)'
    <3>1. CASE notices'[i] = d
      BY <1>2, <1>4, <1>5, <1>9, <2>1, <2>2, <3>1
    <3>2. CASE i \in DOMAIN notices /\ notices'[i] = notices[i]
      BY <1>2, <1>4, <1>9, <2>2, <3>2 DEF ViewsInv
    <3> QED
      BY <1>6, <3>1, <3>2
  <2> QED
    BY <1>2, <1>4, <1>9, <2>2 DEF ViewsInv
<1>11. CalmInv' /\ AloneInv'
  BY <1>2, AloneIsCalm, WorldStays DEF CalmInv, AloneInv
<1> QED
  BY <1>7, <1>8, <1>10, <1>11

\* The connection that ends, is lost or comes again: no view, no edit and no
\* answer changes, and in a world where nothing fails it does not happen.
LEMMA ConnectionKeeps ==
  ASSUME IdeInv, Disconnect \/ DisconnectEnds \/ LoseConnection \/ Reconnect
  PROVE  IdeInv'
<1> USE DEF IdeInv
<1>1. /\ UNCHANGED <<ideWorld, edit, mutex, asked, documents, deciding, answer>>
      /\ diffResponses' \in {diffResponses, [f \in File |-> NoEdit]}
      /\ notices' \in {notices, <<>>}
      /\ link' \in {"closing", "down", "lost", "again"}
  BY DEF Disconnect, DisconnectEnds, LoseConnection, Reconnect
<1>2. ~Calm
  BY DEF CalmInv, Calm, Quiet, May, Disconnect, DisconnectEnds, LoseConnection, Reconnect
<1>3. IdeTypes'
  <2>1. diffResponses' \in [File -> EditOrNone]
    BY <1>1 DEF IdeTypes, EditOrNone
  <2>2. notices' \in Seq(Decision)
    <3>1. notices \in Seq(Decision) /\ <<>> \in Seq(Decision)
      BY DEF IdeTypes
    <3> QED
      BY <1>1, <3>1
  <2> QED
    BY <1>1, <2>1, <2>2 DEF IdeTypes
<1>4. MutexInv'
  BY <1>1 DEF MutexInv, IsOpen
<1>5. FilesInv'
  BY <1>1 DEF FilesInv, FileOf, IdeTypes
<1>6. ViewsInv'
  <2>1. \A x : (Begun(x)' <=> Begun(x)) /\ (Viewed(x)' <=> Viewed(x))
    BY <1>1 DEF Begun, Viewed
  <2>2. CASE notices' = notices
    BY <1>1, <2>1, <2>2 DEF ViewsInv
  <2>3. CASE notices' = <<>>
    BY <1>1, <2>1, <2>3 DEF ViewsInv
  <2> QED
    BY <1>1, <2>2, <2>3
<1>7. CalmInv' /\ AloneInv'
  BY <1>1, <1>2, AloneIsCalm, WorldStays DEF CalmInv, AloneInv
<1> QED
  BY <1>3, <1>4, <1>5, <1>6, <1>7

-----------------------------------------------------------------------------
(* The invariant, and what it says.                                         *)

LEMMA IdeStepKeeps == IdeInv /\ [IdeNext]_ideVars => IdeInv'
<1> SUFFICES ASSUME IdeInv, [IdeNext]_ideVars PROVE IdeInv'
  OBVIOUS
<1>1. ASSUME NEW e \in Edit, OpenDiff(e) PROVE IdeInv'
  BY <1>1, OpenDiffKeeps
<1>2. ASSUME NEW e \in Edit, CliAnswers(e) PROVE IdeInv'
  BY <1>2, CliAnswersKeeps
<1>3. ASSUME NEW d \in Decision, Decides(d) PROVE IdeInv'
  BY <1>3, DecidesKeeps
<1>4. CASE IdeClientStep
  BY <1>4, AskKeeps, OpenFailsKeeps, ResolveFromCliKeeps, CloseFailsKeeps, NotifiedKeeps,
     CloseForDisconnectKeeps, ConnectionKeeps DEF IdeClientStep
<1>5. CASE IdeCompanion
  BY <1>5, ShowDiffKeeps, CloseDiffKeeps, DecidedKeeps DEF IdeCompanion
<1>6. CASE Disconnect \/ LoseConnection \/ Reconnect
  BY <1>6, ConnectionKeeps
<1>7. CASE UNCHANGED ideVars
  <2>1. UNCHANGED <<ideWorld, edit, mutex, diffResponses, asked, documents, deciding, notices,
                    answer, link>>
    BY <1>7 DEF ideVars
  <2>2. IdeTypes' /\ MutexInv' /\ FilesInv'
    BY <2>1, WorldStays DEF IdeInv, IdeTypes, MutexInv, FilesInv, IsOpen
  <2>3. ViewsInv'
    BY <2>1 DEF IdeInv, ViewsInv, Begun, Viewed
  <2>4. CalmInv' /\ AloneInv'
    BY <2>1, WorldStays DEF IdeInv, CalmInv, AloneInv, Viewed, IsOpen
  <2> QED
    BY <2>2, <2>3, <2>4 DEF IdeInv
<1> QED
  BY <1>1, <1>2, <1>3, <1>4, <1>5, <1>6, <1>7 DEF IdeNext

LEMMA OneView == IdeInv => OneViewAtATime
<1> SUFFICES ASSUME IdeInv, Quiet, Separate, Len(documents) > 1 PROVE FALSE
  BY DEF OneViewAtATime, IdeInv, IdeTypes
<1>1. documents \in Seq(Edit) /\ 1 \in DOMAIN documents /\ 2 \in DOMAIN documents
  BY DEF IdeInv, IdeTypes
<1>2. Viewed(documents[1]) /\ Viewed(documents[2])
  BY <1>1 DEF Viewed, Contains
<1>3. IsOpen(documents[1]) /\ IsOpen(documents[2])
  BY <1>1, <1>2 DEF IdeInv, CalmInv, Calm
<1>4. documents[1] = documents[2]
  BY <1>1, <1>3, OneIsOpen DEF IdeInv
<1> QED
  BY <1>1, <1>4 DEF IdeInv, ViewsInv, IsInjective

LEMMA OwnText == IdeInv => AcceptedTextIsOwn
<1> SUFFICES ASSUME IdeInv, Separate, NEW e \in Edit, edit[e].at = "accepted"
             PROVE  edit[e].content \in {e, NoEdit}
  BY DEF AcceptedTextIsOwn
<1>1. CASE SameFile
  BY <1>1 DEF IdeInv, AloneInv, Alone, Separate
<1>2. CASE ~SameFile
  <2>1. edit[e].content \in Edit \cup {NoEdit}
    BY DEF IdeInv, IdeTypes, Promise
  <2>2. edit[e].content # NoEdit => FileOf(edit[e].content) = FileOf(e)
    BY DEF IdeInv, FilesInv
  <2> QED
    BY <1>2, <2>1, <2>2 DEF SameFile
<1> QED
  BY <1>1, <1>2

(* In every session of a client with any number of edits: while nothing     *)
(* fails, and two edits of one file are answered on one side only, the      *)
(* mutex lets one view be open at a time; and an edit is accepted with the  *)
(* text of its own view, whatever fails if no file has two edits.           *)
THEOREM DiffsAreSeparate ==
  ASSUME IdeConstants
  PROVE  IdeSpec => [](OneViewAtATime /\ AcceptedTextIsOwn)
<1>1. IdeInit => IdeInv
  BY IdeInitHolds
<1>2. IdeInv /\ [IdeNext]_ideVars => IdeInv'
  BY IdeStepKeeps
<1>3. IdeInv => OneViewAtATime /\ AcceptedTextIsOwn
  BY OneView, OwnText
<1> QED
  BY <1>1, <1>2, <1>3, PTL DEF IdeSpec

-----------------------------------------------------------------------------
(* The confirmations over the message bus (ConfirmationBus) *)

BusConstants ==
    /\ IsFiniteSet(BusCall)
    /\ \A c, d \in BusCall : BusTool[c].name = BusTool[d].name => BusTool[c].kind = BusTool[d].kind
    /\ \A w \in PolicyWorld :
         /\ \A s \in {w.settings.allowedServers, w.settings.trusted, w.settings.allowed,
                      w.settings.excluded, w.settings.excludedServers} :
              IsFiniteSet(s) /\ NoServer \notin s
         /\ {w.settings.autoAccept, w.settings.nonInteractive} \subseteq BOOLEAN
         /\ \A r \in w.rules :
              /\ r = [kind |-> r.kind, name |-> r.name, decision |-> r.decision,
                      priority |-> r.priority, since |-> 0]
              /\ r.priority \in Int

\* A response that a call rests on is one to its own request.
AnswersInv ==
    /\ confirmation \in [BusCall -> Bus!Outcomes] /\ given \in [BusCall -> SUBSET BOOLEAN]
    /\ asking \subseteq BusCall /\ listeners \subseteq BusCall
    /\ Bus!AnswersAreOwn

LEMMA AnswersStart == Bus!BusInit => AnswersInv
BY DEF Bus!BusInit, AnswersInv, Bus!AnswersAreOwn, Bus!Outcomes

LEMMA AskKeepsAnswers == ASSUME AnswersInv, NEW c \in BusCall, Bus!Ask(c) PROVE AnswersInv'
<1>1. CASE c \in fired
  BY <1>1 DEF Bus!Ask, AnswersInv, Bus!AnswersAreOwn, Bus!Outcomes
<1>2. CASE c \notin fired /\ Bus!Check(Bus!Tool(c).class, NoServer) = "ask"
  BY <1>2 DEF Bus!Ask, AnswersInv, Bus!AnswersAreOwn, Bus!Outcomes
<1>3. CASE c \notin fired /\ Bus!Check(Bus!Tool(c).class, NoServer) # "ask"
  <2>1. PICK d : d = Bus!Check(Bus!Tool(c).class, NoServer)
    OBVIOUS
  <2>2. PICK b \in BOOLEAN : b <=> d = "allow"
    OBVIOUS
  <2>3. /\ confirmation' = [confirmation EXCEPT ![c] = IF d = "allow" THEN "allowed" ELSE "denied"]
        /\ given' = [given EXCEPT ![c] = @ \cup {d = "allow"}]
        /\ UNCHANGED <<listeners, timers, asking, fired>>
    BY <1>3, <2>1 DEF Bus!Ask
  <2>4. given' = [given EXCEPT ![c] = @ \cup {b}]
    <3>1. b = (d = "allow")
      BY <2>2, Zenon
    <3> QED BY <2>3, <3>1, Zenon
  <2>5. (d = "allow" => b = TRUE) /\ (d # "allow" => b = FALSE)
    BY <2>2
  <2>6. confirmation[c] \notin {"waiting", "aborted"} /\ c \notin listeners /\ c \notin timers
    BY DEF Bus!Ask, AnswersInv, Bus!AnswersAreOwn
  <2>7. /\ confirmation' \in [BusCall -> Bus!Outcomes] /\ given' \in [BusCall -> SUBSET BOOLEAN]
        /\ (asking \subseteq BusCall)' /\ (listeners \subseteq BusCall)'
    BY <2>3, <2>4 DEF AnswersInv, Bus!Outcomes
  <2>8. ASSUME NEW e \in BusCall
        PROVE  /\ e # c => confirmation'[e] = confirmation[e] /\ given'[e] = given[e]
               /\ given'[c] = given[c] \cup {b}
               /\ confirmation'[c] = IF d = "allow" THEN "allowed" ELSE "denied"
    BY <2>3, <2>4 DEF AnswersInv
  <2>9. (Bus!AnswersAreOwn)'
    BY <2>3, <2>5, <2>6, <2>8 DEF AnswersInv, Bus!AnswersAreOwn
  <2> QED BY <2>7, <2>9 DEF AnswersInv
<1> QED BY <1>1, <1>2, <1>3

LEMMA AnswerKeepsAnswers == ASSUME AnswersInv, Bus!Answer PROVE AnswersInv'
<1>1. PICK c \in asking, confirmed \in BOOLEAN : Bus!Respond(c, confirmed)
  BY DEF Bus!Answer
<1>2. c \in BusCall /\ Bus!Hears(c) = listeners \cap {c}
  BY DEF AnswersInv, Bus!Hears
<1> QED BY <1>1, <1>2 DEF Bus!Answer, Bus!Respond, Bus!Settled, AnswersInv,
      Bus!AnswersAreOwn, Bus!Outcomes

LEMMA AnswersStep == AnswersInv /\ [Bus!BusNext]_(Bus!busVars) => AnswersInv'
<1> SUFFICES ASSUME AnswersInv, [Bus!BusNext]_(Bus!busVars) PROVE AnswersInv'
  OBVIOUS
<1>1. CASE Bus!AddRule \/ Bus!RemoveRulesForTool
  BY <1>1 DEF Bus!AddRule, Bus!RemoveRulesForTool, Bus!promises, AnswersInv, Bus!AnswersAreOwn
<1>2. ASSUME NEW c \in BusCall, Bus!Timeout(c) PROVE AnswersInv'
  BY <1>2 DEF Bus!Timeout, Bus!Settled, AnswersInv, Bus!AnswersAreOwn, Bus!Outcomes
<1>3. ASSUME NEW c \in BusCall, Bus!Abort(c) PROVE AnswersInv'
  BY <1>3 DEF Bus!Abort, Bus!Settled, AnswersInv, Bus!AnswersAreOwn, Bus!Outcomes
<1>4. CASE UNCHANGED Bus!busVars
  BY <1>4 DEF Bus!busVars, AnswersInv, Bus!AnswersAreOwn
<1> QED BY <1>1, <1>2, <1>3, <1>4, AskKeepsAnswers, AnswerKeepsAnswers DEF Bus!BusNext

\* The rules: in the order of their priority, the older first, and as many as there are.
IsRule(r) ==
    /\ r = [kind |-> r.kind, name |-> r.name, decision |-> r.decision, priority |-> r.priority,
            since |-> r.since]
    /\ r.priority \in Int /\ r.since \in Nat
Precedes(r, q) == r.priority > q.priority \/ (r.priority = q.priority /\ r.since <= q.since)
Has(rs, set) == rs \in Seq(set) /\ \A r \in set : \E i \in 1 .. Len(rs) : rs[i] = r
Arranged(rs) == \A i, j \in 1 .. Len(rs) : i < j => Precedes(rs[i], rs[j])
RulesInv ==
    /\ policyWorld \in PolicyWorld /\ changes \in Nat
    /\ \A r \in added : IsRule(r) /\ r.since <= changes
    /\ Has(rules, added) /\ Arranged(rules)
    /\ changes = 0 => added = Bus!RulesOf(policyWorld.settings)

LEMMA SameInBus == \A S : Bus!Cardinality(S) = Cardinality(S)
BY DEF Bus!Cardinality, Cardinality

\* The rules of a set in any order
LEMMA SomeOrder == ASSUME NEW S, IsFiniteSet(S) PROVE Has(Bus!SetToSeq(S), S)
<1>1. PICK n \in Nat : n = Cardinality(S)
  BY FS_CardinalityType
<1>2. PICK g : g \in Bijection(1 .. n, S)
  BY <1>1, FS_CardinalityType DEF ExistsBijection
<1>3. PICK f : f = Bus!SetToSeq(S)
  OBVIOUS
<1>4. g \in [1 .. n -> S] /\ Bus!IsInjective(g)
  BY <1>2 DEF Bijection, Injection, IsInjective, Bus!IsInjective
<1>5. f \in [1 .. n -> S] /\ Bus!IsInjective(f)
  BY <1>1, <1>3, <1>4, SameInBus DEF Bus!SetToSeq
<1>6. f \in Injection(1 .. n, S)
  BY <1>5 DEF Injection, IsInjective, Bus!IsInjective
<1>7. Cardinality(1 .. n) = Cardinality(S)
  BY <1>1, FS_Interval
<1>8. f \in Surjection(1 .. n, S)
  BY <1>6, <1>7, FS_Injection
<1>9. f \in Seq(S) /\ Len(f) = n
  BY <1>5
<1>10. \A r \in S : \E i \in 1 .. n : f[i] = r
  BY <1>8 DEF Surjection
<1> QED BY <1>3, <1>9, <1>10 DEF Has

\* The rules of higher priority go before the others.
LEMMA HigherFirst ==
  ASSUME NEW s, NEW S, NEW t, NEW T, Has(s, S), Has(t, T), Arranged(s), Arranged(t),
         \A r \in S, q \in T : Precedes(r, q)
  PROVE  Has(s \o t, S \cup T) /\ Arranged(s \o t)
<1>1. s \in Seq(S) /\ t \in Seq(T) /\ Len(s) \in Nat /\ Len(t) \in Nat
  BY DEF Has
<1>2. PICK u : u = s \o t
  OBVIOUS
<1>3. /\ u \in Seq(S \cup T) /\ Len(u) = Len(s) + Len(t)
      /\ \A i \in 1 .. Len(s) : u[i] = s[i]
      /\ \A i \in 1 .. Len(t) : u[Len(s) + i] = t[i]
  <2>1. s \in Seq(S \cup T) /\ t \in Seq(S \cup T)
    BY <1>1
  <2> QED BY <1>2, <2>1
<1>4. \A i \in 1 .. Len(u) : \/ i \in 1 .. Len(s) /\ u[i] = s[i] /\ u[i] \in S
                             \/ /\ i - Len(s) \in 1 .. Len(t) /\ i > Len(s)
                                /\ u[i] = t[i - Len(s)] /\ u[i] \in T
  <2> SUFFICES ASSUME NEW i \in 1 .. Len(u)
               PROVE \/ i \in 1 .. Len(s) /\ u[i] = s[i] /\ u[i] \in S
                     \/ /\ i - Len(s) \in 1 .. Len(t) /\ i > Len(s)
                        /\ u[i] = t[i - Len(s)] /\ u[i] \in T
    OBVIOUS
  <2>1. CASE i \in 1 .. Len(s)
    BY <1>1, <1>3, <2>1
  <2>2. CASE i \notin 1 .. Len(s)
    <3>1. i - Len(s) \in 1 .. Len(t) /\ i > Len(s) /\ i = Len(s) + (i - Len(s))
      BY <1>1, <1>3, <2>2
    <3> QED BY <1>1, <1>3, <3>1
  <2> QED BY <2>1, <2>2
<1>5. Arranged(u)
  <2> SUFFICES ASSUME NEW i \in 1 .. Len(u), NEW j \in 1 .. Len(u), i < j
               PROVE Precedes(u[i], u[j])
    BY DEF Arranged
  <2>1. CASE i \in 1 .. Len(s) /\ j \in 1 .. Len(s)
    BY <1>3, <2>1 DEF Arranged
  <2>2. CASE i \in 1 .. Len(s) /\ j \notin 1 .. Len(s)
    BY <1>4, <2>2
  <2>3. CASE i \notin 1 .. Len(s)
    <3>1. j \notin 1 .. Len(s)
      BY <1>1, <2>3
    <3>2. /\ i - Len(s) \in 1 .. Len(t) /\ u[i] = t[i - Len(s)]
          /\ j - Len(s) \in 1 .. Len(t) /\ u[j] = t[j - Len(s)]
      BY <1>4, <2>3, <3>1
    <3>3. i - Len(s) < j - Len(s)
      BY <1>1
    <3> QED BY <3>2, <3>3 DEF Arranged
  <2> QED BY <2>1, <2>2, <2>3
<1>6. \A r \in S \cup T : \E i \in 1 .. Len(u) : u[i] = r
  <2>1. ASSUME NEW r \in S PROVE \E i \in 1 .. Len(u) : u[i] = r
    <3>1. PICK i \in 1 .. Len(s) : s[i] = r
      BY DEF Has
    <3>2. i \in 1 .. Len(u) /\ u[i] = r
      BY <1>1, <1>3, <3>1
    <3> QED BY <3>2
  <2>2. ASSUME NEW r \in T PROVE \E i \in 1 .. Len(u) : u[i] = r
    <3>1. PICK i \in 1 .. Len(t) : t[i] = r
      BY DEF Has
    <3>2. Len(s) + i \in 1 .. Len(u) /\ u[Len(s) + i] = r
      BY <1>1, <1>3, <3>1
    <3> QED BY <3>2
  <2> QED BY <2>1, <2>2
<1> QED BY <1>2, <1>3, <1>5, <1>6 DEF Has

\* A rule goes behind those that are no less than it.
LEMMA PlaceExists ==
  ASSUME NEW A, NEW rs \in Seq(A), Arranged(rs), \A q \in A : IsRule(q), NEW p \in Int
  PROVE \E i \in 1 .. Len(rs) + 1 : \A j \in DOMAIN rs : j < i <=> rs[j].priority >= p
<1>0. Len(rs) \in Nat /\ DOMAIN rs = 1 .. Len(rs) /\ \A j \in 1 .. Len(rs) : rs[j].priority \in Int
  BY DEF IsRule
<1>1. PICK T : T = {i \in 1 .. Len(rs) + 1 : \A j \in 1 .. Len(rs) : rs[j].priority >= p => j < i}
  OBVIOUS
<1>2. Len(rs) + 1 \in T /\ T \subseteq Nat
  BY <1>0, <1>1
<1>3. PICK i \in T : \A k \in T : i <= k
  BY <1>2, HasLeast
<1>4. i \in 1 .. Len(rs) + 1 /\ \A j \in 1 .. Len(rs) : rs[j].priority >= p => j < i
  BY <1>1, <1>3
<1>5. ASSUME NEW j \in 1 .. Len(rs), j < i PROVE rs[j].priority >= p
  <2>1. i - 1 \in 1 .. Len(rs) /\ i - 1 \notin T
    BY <1>0, <1>3, <1>4, <1>5
  <2>2. PICK k \in 1 .. Len(rs) : rs[k].priority >= p /\ ~(k < i - 1)
    BY <1>0, <1>1, <2>1
  <2>3. k = i - 1 /\ (j = k \/ j < k)
    BY <1>0, <1>4, <1>5, <2>2
  <2>4. CASE j < k
    <3>1. Precedes(rs[j], rs[k])
      BY <2>4 DEF Arranged
    <3> QED BY <1>0, <2>2, <3>1 DEF Precedes
  <2> QED BY <2>2, <2>3, <2>4
<1> QED BY <1>0, <1>4, <1>5

LEMMA InsertedIs ==
  ASSUME NEW A, NEW rs, Has(rs, A), Arranged(rs), \A q \in A : IsRule(q),
         NEW r, IsRule(r), \A q \in A : q.since <= r.since
  PROVE  Has(Bus!Inserted(rs, r), A \cup {r}) /\ Arranged(Bus!Inserted(rs, r))
<1>0. /\ rs \in Seq(A) /\ Len(rs) \in Nat /\ DOMAIN rs = 1 .. Len(rs) /\ r.priority \in Int
      /\ r.since \in Nat
      /\ \A j \in 1 .. Len(rs) : /\ rs[j] \in A /\ rs[j].priority \in Int /\ rs[j].since \in Nat
                                 /\ rs[j].since <= r.since
  BY DEF Has, IsRule
<1>1. PICK i : i = CHOOSE k \in 1 .. Len(rs) + 1 :
                     \A j \in DOMAIN rs : j < k <=> rs[j].priority >= r.priority
  OBVIOUS
<1>2. i \in 1 .. Len(rs) + 1 /\ \A j \in 1 .. Len(rs) : j < i <=> rs[j].priority >= r.priority
  <2>1. \E k \in 1 .. Len(rs) + 1 : \A j \in DOMAIN rs : j < k <=> rs[j].priority >= r.priority
    BY <1>0, PlaceExists
  <2> QED BY <1>0, <1>1, <2>1
<1>3. PICK u : u = Bus!Inserted(rs, r)
  OBVIOUS
<1>4. PICK s, t : s = SubSeq(rs, 1, i - 1) /\ t = SubSeq(rs, i, Len(rs))
  OBVIOUS
<1>5. u = (s \o <<r>>) \o t
  BY <1>1, <1>3, <1>4 DEF Bus!Inserted, Bus!InsertAt
<1>6. /\ s \in Seq(A) /\ Len(s) = i - 1 /\ \A j \in 1 .. i - 1 : s[j] = rs[j]
      /\ t \in Seq(A) /\ Len(t) = Len(rs) - i + 1
      /\ \A j \in 1 .. Len(t) : t[j] = rs[j + i - 1]
  BY <1>0, <1>2, <1>4
<1>7. PICK S, T : S = {s[j] : j \in 1 .. i - 1} /\ T = {t[j] : j \in 1 .. Len(t)}
  OBVIOUS
<1>8. Has(s, S) /\ Has(t, T) /\ Has(<<r>>, {r}) /\ Arranged(<<r>>)
  <2>1. /\ \A j \in 1 .. Len(s) : s[j] \in S
        /\ \A j \in 1 .. Len(t) : t[j] \in T
    BY <1>6, <1>7
  <2>2. s \in Seq(S)
    BY <1>6, <2>1
  <2>3. t \in Seq(T)
    BY <1>6, <2>1
  <2> QED BY <1>6, <1>7, <2>2, <2>3 DEF Has, Arranged
<1>9. Arranged(s) /\ Arranged(t)
  <2>1. ASSUME NEW j \in 1 .. Len(s), NEW k \in 1 .. Len(s), j < k PROVE Precedes(s[j], s[k])
    BY <1>0, <1>2, <1>6, <2>1 DEF Arranged
  <2>2. ASSUME NEW j \in 1 .. Len(t), NEW k \in 1 .. Len(t), j < k PROVE Precedes(t[j], t[k])
    <3>1. j + i - 1 \in 1 .. Len(rs) /\ k + i - 1 \in 1 .. Len(rs) /\ j + i - 1 < k + i - 1
      BY <1>0, <1>2, <1>6, <2>2
    <3> QED BY <1>6, <3>1 DEF Arranged
  <2> QED BY <2>1, <2>2 DEF Arranged
<1>10. /\ \A q \in S : Precedes(q, r)
       /\ \A q \in T : Precedes(r, q)
       /\ \A p \in S, q \in T : Precedes(p, q)
  <2>1. ASSUME NEW p \in S
        PROVE p.priority \in Int /\ p.since \in Nat /\ p.priority >= r.priority /\ p.since <= r.since
    <3>1. PICK j \in 1 .. i - 1 : p = rs[j]
      BY <1>6, <1>7
    <3>2. j \in 1 .. Len(rs) /\ j < i
      BY <1>0, <1>2
    <3> QED BY <1>0, <1>2, <3>1, <3>2
  <2>2. ASSUME NEW q \in T PROVE q.priority \in Int /\ ~(q.priority >= r.priority)
    <3>1. PICK j \in 1 .. Len(t) : q = rs[j + i - 1]
      BY <1>6, <1>7
    <3>2. j + i - 1 \in 1 .. Len(rs) /\ ~(j + i - 1 < i)
      BY <1>0, <1>2, <1>6
    <3> QED BY <1>0, <1>2, <3>1, <3>2
  <2> QED BY <1>0, <2>1, <2>2 DEF Precedes
<1>11. Has(s \o <<r>>, S \cup {r}) /\ Arranged(s \o <<r>>)
  BY <1>8, <1>9, <1>10, HigherFirst
<1>12. Has((s \o <<r>>) \o t, (S \cup {r}) \cup T) /\ Arranged((s \o <<r>>) \o t)
  <2>1. \A p \in S \cup {r}, q \in T : Precedes(p, q)
    BY <1>10
  <2>2. PICK v : v = s \o <<r>>
    OBVIOUS
  <2>3. Has(v \o t, (S \cup {r}) \cup T) /\ Arranged(v \o t)
    BY <1>8, <1>9, <1>11, <2>1, <2>2, HigherFirst
  <2> QED BY <2>2, <2>3
<1>13. (S \cup {r}) \cup T = A \cup {r}
  <2>1. S \subseteq A /\ T \subseteq A
    BY <1>6, <1>7
  <2>2. ASSUME NEW q \in A PROVE q \in S \cup T
    <3>1. PICK j \in 1 .. Len(rs) : rs[j] = q
      BY DEF Has
    <3>2. CASE j < i
      BY <1>2, <1>6, <1>7, <3>1, <3>2
    <3>3. CASE ~(j < i)
      <4>1. j - i + 1 \in 1 .. Len(t) /\ j = (j - i + 1) + i - 1
        BY <1>0, <1>2, <1>6, <3>3
      <4>2. t[j - i + 1] = rs[j]
        BY <1>6, <4>1
      <4> QED BY <1>7, <3>1, <4>1, <4>2
    <3> QED BY <3>2, <3>3
  <2> QED BY <2>1, <2>2
<1> QED BY <1>3, <1>5, <1>12, <1>13

\* The later of two members has more members before it.
Earlier(T, i) == {k \in T : k < i}
LEMMA LaterHasMore ==
  ASSUME NEW T, T \subseteq Nat, IsFiniteSet(T), NEW i \in T
  PROVE  /\ Cardinality(Earlier(T, i)) \in Nat
         /\ Cardinality(Earlier(T, i)) < Cardinality(T)
         /\ \A j \in T : i < j => Cardinality(Earlier(T, i)) < Cardinality(Earlier(T, j))
<1>1. \A j \in T : j \in Nat
  OBVIOUS
<1>2. PICK U : U = Earlier(T, i) /\ U = {k \in T : k < i}
  BY DEF Earlier
<1>3. ASSUME NEW V, V \subseteq T, U \subseteq V, i \in V
      PROVE  Cardinality(U) \in Nat /\ Cardinality(U) < Cardinality(V)
  <2>1. i \notin U
    BY <1>1, <1>2
  <2>2. IsFiniteSet(V) /\ Cardinality(V) \in Nat
    BY <1>3, FS_Subset, FS_CardinalityType
  <2>3. IsFiniteSet(U) /\ Cardinality(U) \in Nat
    BY <1>3, <2>2, FS_Subset, FS_CardinalityType
  <2>4. Cardinality(U) <= Cardinality(V) /\ Cardinality(U) # Cardinality(V)
    BY <1>3, <2>1, <2>2, FS_Subset
  <2> QED BY <2>2, <2>3, <2>4
<1>4. Cardinality(U) \in Nat /\ Cardinality(U) < Cardinality(T)
  BY <1>2, <1>3
<1>5. ASSUME NEW j \in T, i < j PROVE Cardinality(U) < Cardinality(Earlier(T, j))
  <2>1. PICK V : V = Earlier(T, j) /\ V = {k \in T : k < j}
    BY DEF Earlier
  <2>2. V \subseteq T /\ U \subseteq V /\ i \in V
    <3>1. \A k \in T : k < i => k < j
      BY <1>1, <1>5
    <3> QED BY <1>2, <1>5, <2>1, <3>1
  <2>3. Cardinality(U) < Cardinality(V)
    BY <1>3, <2>2
  <2> QED BY <2>1, <2>3
<1> QED BY <1>2, <1>4, <1>5

LEMMA RemainingIs ==
  ASSUME NEW A, NEW rs, Has(rs, A), Arranged(rs), NEW q
  PROVE  /\ Has(Bus!Remaining(rs, q), {r \in A : Bus!Stays(r, q)})
         /\ Arranged(Bus!Remaining(rs, q))
<1>0. rs \in Seq(A) /\ Len(rs) \in Nat /\ DOMAIN rs = 1 .. Len(rs)
  BY DEF Has
<1>1. PICK stay : stay = {i \in DOMAIN rs : Bus!Stays(rs[i], q)}
  OBVIOUS
<1>2. stay \subseteq 1 .. Len(rs) /\ stay \subseteq Nat /\ IsFiniteSet(stay)
  <2>1. stay \subseteq 1 .. Len(rs) /\ IsFiniteSet(1 .. Len(rs))
    BY <1>0, <1>1, FS_Interval
  <2>2. IsFiniteSet(stay)
    BY <2>1, FS_Subset
  <2> QED BY <1>0, <2>1, <2>2
<1>3. PICK n \in Nat : n = Cardinality(stay)
  BY <1>2, FS_CardinalityType
\* As many stay before a rule that stays.
<1>4. PICK rank : rank = [i \in stay |-> Cardinality(Earlier(stay, i))]
  OBVIOUS
<1>5. \A i \in stay : rank[i] \in 0 .. n - 1 /\ \A j \in stay : i < j => rank[i] < rank[j]
  <2> SUFFICES ASSUME NEW i \in stay
               PROVE rank[i] \in 0 .. n - 1 /\ \A j \in stay : i < j => rank[i] < rank[j]
    OBVIOUS
  <2>1. \A j \in stay : rank[j] = Cardinality(Earlier(stay, j))
    BY <1>4
  <2>2. rank[i] \in Nat /\ rank[i] < n /\ \A j \in stay : i < j => rank[i] < rank[j]
    BY <1>2, <1>3, <2>1, LaterHasMore
  <2> QED BY <2>2
<1>6. \A i, j \in stay : (rank[i] < rank[j] => i < j) /\ (rank[i] = rank[j] => i = j)
  <2> SUFFICES ASSUME NEW i \in stay, NEW j \in stay
               PROVE (rank[i] < rank[j] => i < j) /\ (rank[i] = rank[j] => i = j)
    OBVIOUS
  <2>1. i < j \/ j < i \/ i = j
    BY <1>2
  <2>2. rank[i] \in Int /\ rank[j] \in Int
    BY <1>5
  <2> QED BY <1>5, <2>1, <2>2
<1>7. \A k \in 1 .. n : \E i \in stay : rank[i] = k - 1
  <2>1. PICK R : R = 0 .. n - 1
    OBVIOUS
  <2>2. rank \in Injection(stay, R)
    <3>1. rank \in [stay -> R]
      BY <1>4, <1>5, <2>1
    <3> QED BY <1>6, <3>1 DEF Injection, IsInjective
  <2>3. IsFiniteSet(R) /\ Cardinality(R) = n
    BY <2>1, FS_Interval
  <2>4. rank \in Surjection(stay, R)
    BY <1>2, <1>3, <2>2, <2>3, FS_Injection
  <2>5. \A r \in R : \E i \in stay : rank[i] = r
    BY <2>4 DEF Surjection
  <2> QED BY <2>1, <2>5
<1>8. PICK s : s = [k \in 1 .. n |-> CHOOSE i \in stay : rank[i] = k - 1]
  OBVIOUS
<1>9. \A k \in 1 .. n : s[k] \in stay /\ rank[s[k]] = k - 1
  BY <1>7, <1>8
<1>10. \A i, j \in 1 .. n : i < j => s[i] < s[j]
  <2> SUFFICES ASSUME NEW i \in 1 .. n, NEW j \in 1 .. n, i < j PROVE s[i] < s[j]
    OBVIOUS
  <2>1. rank[s[i]] < rank[s[j]]
    BY <1>9
  <2> QED BY <1>6, <1>9, <2>1
<1>11. \A x \in stay : \E k \in 1 .. n : s[k] = x
  <2> SUFFICES ASSUME NEW x \in stay PROVE \E k \in 1 .. n : s[k] = x
    OBVIOUS
  <2>1. rank[x] + 1 \in 1 .. n /\ (rank[x] + 1) - 1 = rank[x]
    BY <1>5
  <2> QED BY <1>6, <1>9, <2>1
<1>12. PICK u : u = Bus!Remaining(rs, q)
  OBVIOUS
<1>13. u = [k \in 1 .. n |-> rs[s[k]]]
  <2> DEFINE Place(k) == CHOOSE i \in stay : Bus!Cardinality({j \in stay : j < i}) = k - 1
  <2>1. ASSUME NEW k \in 1 .. n PROVE Place(k) = s[k]
    <3>1. ASSUME NEW i \in stay PROVE Bus!Cardinality({j \in stay : j < i}) = rank[i]
      BY <1>4, SameInBus DEF Earlier
    <3>2. \A i \in stay : Bus!Cardinality({j \in stay : j < i}) = k - 1 <=> i = s[k]
      BY <1>6, <1>9, <3>1
    <3> QED BY <1>9, <3>2
  <2>2. u = [k \in 1 .. n |-> rs[Place(k)]]
    BY <1>1, <1>3, <1>12, SameInBus DEF Bus!Remaining
  <2> HIDE DEF Place
  <2> QED BY <2>1, <2>2
<1>14. PICK B : B = {r \in A : Bus!Stays(r, q)}
  OBVIOUS
<1>15. \A k \in 1 .. n : u[k] = rs[s[k]] /\ s[k] \in 1 .. Len(rs) /\ u[k] \in B
  BY <1>0, <1>1, <1>2, <1>9, <1>13, <1>14
<1>16. u \in Seq(B) /\ Len(u) = n
  BY <1>13, <1>15
<1>17. \A r \in B : \E k \in 1 .. n : u[k] = r
  <2> SUFFICES ASSUME NEW r \in B PROVE \E k \in 1 .. n : u[k] = r
    OBVIOUS
  <2>1. PICK i \in 1 .. Len(rs) : rs[i] = r
    BY <1>14 DEF Has
  <2>2. i \in stay
    BY <1>0, <1>1, <1>14, <2>1
  <2>3. PICK k \in 1 .. n : s[k] = i
    BY <1>11, <2>2
  <2> QED BY <1>15, <2>1, <2>3
<1>18. \A i, j \in 1 .. n : i < j => Precedes(u[i], u[j])
  BY <1>10, <1>15 DEF Arranged
<1> QED BY <1>12, <1>14, <1>16, <1>17, <1>18 DEF Has, Arranged

\* The rule that is found goes before all that match.
Fitting(rs, name, server) == {i \in 1 .. Len(rs) : Bus!Matches(rs[i], name, server)}
Found(rs, name, server) ==
    IF Fitting(rs, name, server) # {} THEN Bus!Min(Fitting(rs, name, server)) ELSE 0
IsFound(found, A, rs, name, server) ==
    \/ found = 0 /\ \A q \in A : ~Bus!Matches(q, name, server)
    \/ /\ found \in 1 .. Len(rs) /\ rs[found] \in A /\ Bus!Matches(rs[found], name, server)
       /\ \A q \in A : Bus!Matches(q, name, server) => Precedes(rs[found], q)
LEMMA FoundIs ==
  ASSUME NEW A, NEW rs, Has(rs, A), Arranged(rs), \A q \in A : IsRule(q), NEW name, NEW server
  PROVE  IsFound(Found(rs, name, server), A, rs, name, server)
<1>1. PICK I : I = Fitting(rs, name, server)
  OBVIOUS
<1>2. PICK found : found = IF I # {} THEN Bus!Min(I) ELSE 0
  OBVIOUS
<1> USE DEF Fitting
<1>0. rs \in Seq(A) /\ Len(rs) \in Nat /\ \A i \in 1 .. Len(rs) : rs[i] \in A
  BY DEF Has
<1>3. CASE I = {}
  BY <1>1, <1>2, <1>3 DEF Has, IsFound, Found
<1>4. CASE I # {}
  <2>1. \E x \in I : \A y \in I : x <= y
    <3>1. I \subseteq Nat
      BY <1>0, <1>1
    <3> QED BY <1>4, <3>1, HasLeast
  <2>2. found \in I /\ \A y \in I : found <= y
    BY <1>2, <1>4, <2>1 DEF Bus!Min
  <2>3. found \in 1 .. Len(rs) /\ Bus!Matches(rs[found], name, server)
    BY <1>1, <2>2
  <2>4. ASSUME NEW q \in A, Bus!Matches(q, name, server) PROVE Precedes(rs[found], q)
    <3>1. PICK i \in 1 .. Len(rs) : rs[i] = q
      BY DEF Has
    <3>2. i \in I
      BY <1>1, <2>4, <3>1
    <3>3. found = i \/ found < i
      BY <1>0, <2>2, <2>3, <3>2
    <3>4. CASE found = i
      BY <1>1, <2>4, <3>1, <3>4 DEF Precedes, IsRule
    <3>5. CASE found < i
      BY <2>3, <3>1, <3>5 DEF Arranged
    <3> QED BY <3>3, <3>4, <3>5
  <2> QED BY <1>0, <1>1, <1>2, <2>3, <2>4 DEF IsFound, Found
<1> QED BY <1>3, <1>4

\* The rules that settings make
SettingsAre(s) ==
    /\ \A names \in {s.allowedServers, s.trusted, s.allowed, s.excluded, s.excludedServers} :
         IsFiniteSet(names) /\ NoServer \notin names
    /\ {s.autoAccept, s.nonInteractive} \subseteq BOOLEAN
Layer(s, p) == {r \in Bus!RulesOf(s) : r.priority = p}
Priorities == {200, 195, 100, 90, 85, 50, 15, 10, 0}

LEMMA NamedRules == ASSUME NEW S, IsFiniteSet(S), NEW kind, NEW decision, NEW p
  PROVE IsFiniteSet({Bus!Rule(kind, n, decision, p) : n \in S})
<1>1. PICK T : T = {Bus!Rule(kind, n, decision, p) : n \in S}
  OBVIOUS
<1>2. PICK f : f = [n \in S |-> Bus!Rule(kind, n, decision, p)]
  OBVIOUS
<1>3. f \in Surjection(S, T)
  BY <1>1, <1>2 DEF Surjection
<1> QED BY <1>1, <1>3, FS_Surjection

LEMMA NamesAreFinite == ASSUME BusConstants, NEW kinds PROVE IsFiniteSet(Bus!NamesOf(kinds))
<1>1. PICK S : S = {d \in BusCall : Bus!Tool(d).kind \in kinds}
  OBVIOUS
<1>2. IsFiniteSet(S)
  BY <1>1, FS_Subset DEF BusConstants
<1>3. PICK f : f = [c \in S |-> Bus!Tool(c).name]
  OBVIOUS
<1>4. PICK T : T = Bus!NamesOf(kinds)
  OBVIOUS
<1>5. f \in Surjection(S, T)
  BY <1>1, <1>3, <1>4 DEF Bus!NamesOf, Surjection
<1> QED BY <1>2, <1>4, <1>5, FS_Surjection

LEMMA RulesAreFinite == ASSUME BusConstants, NEW s, SettingsAre(s) PROVE IsFiniteSet(Bus!RulesOf(s))
<1>1. /\ IsFiniteSet(s.allowedServers) /\ IsFiniteSet(s.trusted) /\ IsFiniteSet(s.allowed)
      /\ IsFiniteSet(s.excluded) /\ IsFiniteSet(s.excludedServers)
  BY DEF SettingsAre
<1>2. /\ IsFiniteSet({Bus!Rule("server", n, "allow", 85) : n \in s.allowedServers})
      /\ IsFiniteSet({Bus!Rule("server", n, "allow", 90) : n \in s.trusted})
      /\ IsFiniteSet({Bus!Rule("tool", n, "allow", 100) : n \in s.allowed})
      /\ IsFiniteSet({Bus!Rule("tool", n, "deny", 200) : n \in s.excluded})
      /\ IsFiniteSet({Bus!Rule("server", n, "deny", 195) : n \in s.excludedServers})
  BY <1>1, NamedRules
<1>3. IsFiniteSet({Bus!Rule("tool", n, "allow", 50) :
                     n \in IF s.autoAccept THEN Bus!NamesOf({"read"}) ELSE {}})
  <2>1. PICK N : N = IF s.autoAccept THEN Bus!NamesOf({"read"}) ELSE {}
    OBVIOUS
  <2>2. IsFiniteSet(N)
    BY <2>1, NamesAreFinite, FS_EmptySet
  <2> QED BY <2>1, <2>2, NamedRules
<1>4. /\ IsFiniteSet({Bus!Rule("tool", n, "ask", 10) : n \in Bus!NamesOf(Bus!Write)})
      /\ IsFiniteSet({Bus!Rule("tool", n, "allow", 15) :
                        n \in IF s.mode = "auto_edit" THEN Bus!NamesOf({"edit"}) ELSE {}})
      /\ IsFiniteSet({Bus!Rule("any", "", "allow", 0)})
  <2>1. PICK N, r : /\ N = IF s.mode = "auto_edit" THEN Bus!NamesOf({"edit"}) ELSE {}
                    /\ r = Bus!Rule("any", "", "allow", 0)
    OBVIOUS
  <2>2. IsFiniteSet(N) /\ IsFiniteSet(Bus!NamesOf(Bus!Write)) /\ IsFiniteSet({r})
    BY <2>1, NamesAreFinite, FS_EmptySet, FS_Singleton
  <2>3. IsFiniteSet({Bus!Rule("tool", n, "ask", 10) : n \in Bus!NamesOf(Bus!Write)})
    BY <2>2, NamedRules
  <2>4. IsFiniteSet({Bus!Rule("tool", n, "allow", 15) : n \in N})
    BY <2>2, NamedRules
  <2> QED BY <2>1, <2>2, <2>3, <2>4
<1> QED BY <1>2, <1>3, <1>4, FS_Union DEF Bus!RulesOf

\* What a rule of the settings says, and why there is one
Says(r, kind, decision, p) == r.kind = kind /\ r.decision = decision /\ r.priority = p
MadeOf(s, r) ==
    \/ Says(r, "server", "allow", 85) /\ r.name \in s.allowedServers
    \/ Says(r, "server", "allow", 90) /\ r.name \in s.trusted
    \/ Says(r, "tool", "allow", 100) /\ r.name \in s.allowed
    \/ Says(r, "tool", "deny", 200) /\ r.name \in s.excluded
    \/ Says(r, "server", "deny", 195) /\ r.name \in s.excludedServers
    \/ Says(r, "tool", "allow", 50) /\ s.autoAccept /\ r.name \in Bus!NamesOf({"read"})
    \/ Says(r, "any", "allow", 0) /\ s.mode = "yolo"
    \/ Says(r, "tool", "ask", 10) /\ s.mode # "yolo" /\ r.name \in Bus!NamesOf(Bus!Write)
    \/ /\ Says(r, "tool", "allow", 15) /\ s.mode = "auto_edit"
       /\ r.name \in Bus!NamesOf({"edit"})
Made(r) == IsRule(r) /\ r.since = 0 /\ r.priority \in Priorities
LEMMA RulesOfAre == ASSUME NEW s, NEW r \in Bus!RulesOf(s) PROVE MadeOf(s, r) /\ Made(r)
<1> USE DEF Bus!Rule, MadeOf, Says, Made, IsRule, Priorities
<1>1. CASE r \in {Bus!Rule("server", n, "allow", 85) : n \in s.allowedServers}
  BY <1>1
<1>2. CASE r \in {Bus!Rule("server", n, "allow", 90) : n \in s.trusted}
  BY <1>2
<1>3. CASE r \in {Bus!Rule("tool", n, "allow", 100) : n \in s.allowed}
  BY <1>3
<1>4. CASE r \in {Bus!Rule("tool", n, "deny", 200) : n \in s.excluded}
  BY <1>4
<1>5. CASE r \in {Bus!Rule("server", n, "deny", 195) : n \in s.excludedServers}
  BY <1>5
<1>6. CASE r \in {Bus!Rule("tool", n, "allow", 50) :
                    n \in IF s.autoAccept THEN Bus!NamesOf({"read"}) ELSE {}}
  BY <1>6
<1>7. CASE s.mode = "yolo" /\ r \in {Bus!Rule("any", "", "allow", 0)}
  <2>1. r = [kind |-> "any", name |-> "", decision |-> "allow", priority |-> 0, since |-> 0]
    BY <1>7
  <2>2. /\ r.kind = "any" /\ r.decision = "allow" /\ r.priority = 0 /\ r.since = 0
        /\ r = [kind |-> r.kind, name |-> r.name, decision |-> r.decision, priority |-> r.priority,
                since |-> r.since]
    BY <2>1
  <2>3. s.mode = "yolo"
    BY <1>7
  <2>4. Says(r, "any", "allow", 0)
    BY <2>2 DEF Says
  <2>5. MadeOf(s, r)
    <3> HIDE DEF Says, Bus!Rule
    <3> QED BY <2>3, <2>4
  <2>6. Made(r)
    BY <2>2
  <2> QED BY <2>5, <2>6
<1>8. CASE s.mode # "yolo" /\ r \in {Bus!Rule("tool", n, "ask", 10) : n \in Bus!NamesOf(Bus!Write)}
  BY <1>8
<1>9. CASE /\ s.mode # "yolo"
           /\ r \in {Bus!Rule("tool", n, "allow", 15) :
                      n \in IF s.mode = "auto_edit" THEN Bus!NamesOf({"edit"}) ELSE {}}
  BY <1>9
<1> HIDE DEF Bus!Rule, MadeOf, Says, Made
<1> QED BY <1>1, <1>2, <1>3, <1>4, <1>5, <1>6, <1>7, <1>8, <1>9, Zenon DEF Bus!RulesOf

\* a has the rules of S, in order, and none is lower than p.
Sorts(a, S, p) == Has(a, S) /\ Arranged(a) /\ \A r \in S : r.priority \in Int /\ r.priority >= p
LEMMA LayerSorts == ASSUME BusConstants, NEW s, SettingsAre(s), NEW p \in Int
  PROVE Sorts(Bus!OfPriority(s, p), Layer(s, p), p)
<1>1. PICK a, S : a = Bus!OfPriority(s, p) /\ S = Layer(s, p)
  OBVIOUS
<1>2. IsFiniteSet(S)
  BY <1>1, RulesAreFinite, FS_Subset DEF Layer
<1>3. Has(a, S)
  BY <1>1, <1>2, SomeOrder DEF Bus!OfPriority, Layer
<1>4. \A r \in S : r.priority = p /\ r.since = 0
  BY <1>1, RulesOfAre DEF Made, Layer
<1>5. Arranged(a)
  <2>1. \A i \in 1 .. Len(a) : a[i] \in S
    BY <1>3 DEF Has
  <2> QED BY <1>4, <2>1 DEF Arranged, Precedes
<1> QED BY <1>1, <1>3, <1>4, <1>5 DEF Sorts

LEMMA LayerAdds ==
  ASSUME BusConstants, NEW s, SettingsAre(s), NEW a, NEW S, NEW h \in Int, NEW p \in Int, p < h, Sorts(a, S, h)
  PROVE  Sorts(a \o Bus!OfPriority(s, p), S \cup Layer(s, p), p)
<1>1. PICK b, T : b = Bus!OfPriority(s, p) /\ T = Layer(s, p)
  OBVIOUS
<1>2. Sorts(b, T, p) /\ \A r \in T : r.priority = p
  BY <1>1, LayerSorts DEF Layer
<1>3. \A r \in S, q \in T : Precedes(r, q)
  BY <1>2 DEF Sorts, Precedes
<1>4. Has(a \o b, S \cup T) /\ Arranged(a \o b)
  BY <1>2, <1>3, HigherFirst DEF Sorts
<1>5. \A r \in S \cup T : r.priority \in Int /\ r.priority >= p
  BY <1>2 DEF Sorts
<1> QED BY <1>1, <1>4, <1>5 DEF Sorts

LEMMA SettingsSort == ASSUME BusConstants, NEW s, SettingsAre(s)
  PROVE Has(Bus!SortedRules(s), Bus!RulesOf(s)) /\ Arranged(Bus!SortedRules(s))
<1>1. PICK a1, a2, a3, a4, a5, a6, a7, a8, a9 :
        /\ a1 = Bus!OfPriority(s, 200) /\ a2 = a1 \o Bus!OfPriority(s, 195)
        /\ a3 = a2 \o Bus!OfPriority(s, 100) /\ a4 = a3 \o Bus!OfPriority(s, 90)
        /\ a5 = a4 \o Bus!OfPriority(s, 85) /\ a6 = a5 \o Bus!OfPriority(s, 50)
        /\ a7 = a6 \o Bus!OfPriority(s, 15) /\ a8 = a7 \o Bus!OfPriority(s, 10)
        /\ a9 = a8 \o Bus!OfPriority(s, 0)
  OBVIOUS
<1>2. PICK S1, S2, S3, S4, S5, S6, S7, S8, S9 :
        /\ S1 = Layer(s, 200) /\ S2 = S1 \cup Layer(s, 195) /\ S3 = S2 \cup Layer(s, 100)
        /\ S4 = S3 \cup Layer(s, 90) /\ S5 = S4 \cup Layer(s, 85) /\ S6 = S5 \cup Layer(s, 50)
        /\ S7 = S6 \cup Layer(s, 15) /\ S8 = S7 \cup Layer(s, 10) /\ S9 = S8 \cup Layer(s, 0)
  OBVIOUS
<1>3. Sorts(a1, S1, 200)
  BY <1>1, <1>2, LayerSorts
<1>4. Sorts(a2, S2, 195)
  <2>1. Sorts(a1 \o Bus!OfPriority(s, 195), S1 \cup Layer(s, 195), 195)
    BY <1>3, LayerAdds
  <2> QED BY <1>1, <1>2, <2>1
<1>5. Sorts(a3, S3, 100)
  <2>1. Sorts(a2 \o Bus!OfPriority(s, 100), S2 \cup Layer(s, 100), 100)
    BY <1>4, LayerAdds
  <2> QED BY <1>1, <1>2, <2>1
<1>6. Sorts(a4, S4, 90)
  <2>1. Sorts(a3 \o Bus!OfPriority(s, 90), S3 \cup Layer(s, 90), 90)
    BY <1>5, LayerAdds
  <2> QED BY <1>1, <1>2, <2>1
<1>7. Sorts(a5, S5, 85)
  <2>1. Sorts(a4 \o Bus!OfPriority(s, 85), S4 \cup Layer(s, 85), 85)
    BY <1>6, LayerAdds
  <2> QED BY <1>1, <1>2, <2>1
<1>8. Sorts(a6, S6, 50)
  <2>1. Sorts(a5 \o Bus!OfPriority(s, 50), S5 \cup Layer(s, 50), 50)
    BY <1>7, LayerAdds
  <2> QED BY <1>1, <1>2, <2>1
<1>9. Sorts(a7, S7, 15)
  <2>1. Sorts(a6 \o Bus!OfPriority(s, 15), S6 \cup Layer(s, 15), 15)
    BY <1>8, LayerAdds
  <2> QED BY <1>1, <1>2, <2>1
<1>10. Sorts(a8, S8, 10)
  <2>1. Sorts(a7 \o Bus!OfPriority(s, 10), S7 \cup Layer(s, 10), 10)
    BY <1>9, LayerAdds
  <2> QED BY <1>1, <1>2, <2>1
<1>11. Sorts(a9, S9, 0)
  <2>1. Sorts(a8 \o Bus!OfPriority(s, 0), S8 \cup Layer(s, 0), 0)
    BY <1>10, LayerAdds
  <2> QED BY <1>1, <1>2, <2>1
<1>12. S9 = Bus!RulesOf(s)
  BY <1>2, RulesOfAre DEF Made, Layer, Priorities
<1>13. a9 = Bus!SortedRules(s)
  BY <1>1 DEF Bus!SortedRules
<1> QED BY <1>11, <1>12, <1>13 DEF Sorts

LEMMA PolicyIs == ASSUME BusConstants, policyWorld \in PolicyWorld PROVE SettingsAre(policyWorld.settings)
BY DEF BusConstants, SettingsAre

LEMMA RulesStart == BusConstants /\ Bus!BusInit => RulesInv
<1> SUFFICES ASSUME BusConstants, Bus!BusInit PROVE RulesInv
  OBVIOUS
<1>1. PICK s : s = policyWorld.settings
  OBVIOUS
<1>2. /\ policyWorld \in PolicyWorld /\ changes = 0 /\ rules = Bus!SortedRules(s)
      /\ added = Bus!RulesOf(s)
  BY <1>1 DEF Bus!BusInit
<1>3. SettingsAre(s)
  BY <1>1, <1>2, PolicyIs
<1>4. Has(rules, added) /\ Arranged(rules)
  BY <1>2, <1>3, SettingsSort
<1>5. \A r \in added : IsRule(r) /\ r.since <= changes
  BY <1>2, RulesOfAre DEF Made
<1> QED BY <1>1, <1>2, <1>4, <1>5 DEF RulesInv

LEMMA RulesStep == BusConstants /\ RulesInv /\ [Bus!BusNext]_(Bus!busVars) => RulesInv'
<1> SUFFICES ASSUME BusConstants, RulesInv, [Bus!BusNext]_(Bus!busVars) PROVE RulesInv'
  OBVIOUS
<1>0. /\ policyWorld \in PolicyWorld /\ changes \in Nat
      /\ \A r \in added : IsRule(r) /\ r.since \in Nat /\ r.since <= changes
      /\ Has(rules, added) /\ Arranged(rules)
  BY DEF RulesInv, IsRule
<1>1. CASE Bus!AddRule
  <2>1. PICK r \in policyWorld.rules :
          /\ rules' = Bus!Inserted(rules, [r EXCEPT !.since = changes + 1])
          /\ added' = added \cup {[r EXCEPT !.since = changes + 1]}
    BY <1>1 DEF Bus!AddRule
  <2>2. PICK q : q = [r EXCEPT !.since = changes + 1]
    OBVIOUS
  <2>3. IsRule(q) /\ q.since = changes + 1
    <3>1. /\ r = [kind |-> r.kind, name |-> r.name, decision |-> r.decision,
                  priority |-> r.priority, since |-> 0]
          /\ r.priority \in Int
      BY <1>0 DEF BusConstants
    <3>2. q = [kind |-> r.kind, name |-> r.name, decision |-> r.decision,
               priority |-> r.priority, since |-> changes + 1]
      BY <2>2, <3>1
    <3> QED BY <1>0, <3>1, <3>2 DEF IsRule
  <2>4. changes' = changes + 1 /\ policyWorld' = policyWorld
    BY <1>1 DEF Bus!AddRule
  <2>5. Has(Bus!Inserted(rules, q), added \cup {q}) /\ Arranged(Bus!Inserted(rules, q))
    BY <1>0, <2>3, InsertedIs
  <2>6. Has(rules', added') /\ Arranged(rules')
    BY <2>1, <2>2, <2>5
  <2>7. \A p \in added' : IsRule(p) /\ p.since <= changes'
    <3>1. ASSUME NEW p \in added PROVE IsRule(p) /\ p.since <= changes'
      BY <1>0, <2>4
    <3>2. IsRule(q) /\ q.since <= changes'
      BY <1>0, <2>3, <2>4
    <3> QED BY <2>1, <2>2, <3>1, <3>2
  <2> QED BY <1>0, <2>4, <2>6, <2>7 DEF RulesInv
<1>2. CASE Bus!RemoveRulesForTool
  <2>1. PICK q : rules' = Bus!Remaining(rules, q) /\ added' = {r \in added : Bus!Stays(r, q)}
    BY <1>2 DEF Bus!RemoveRulesForTool
  <2>2. changes' = changes + 1 /\ policyWorld' = policyWorld
    BY <1>2 DEF Bus!RemoveRulesForTool
  <2>3. Has(rules', added') /\ Arranged(rules')
    BY <1>0, <2>1, RemainingIs
  <2>4. \A p \in added' : IsRule(p) /\ p.since <= changes'
    BY <1>0, <2>1, <2>2
  <2> QED BY <1>0, <2>2, <2>3, <2>4 DEF RulesInv
<1>3. CASE UNCHANGED <<policyWorld, rules, added, changes>>
  BY <1>3 DEF RulesInv, Has, Arranged
<1>4. CASE Bus!Answer \/ \E c \in BusCall : Bus!Ask(c) \/ Bus!Timeout(c) \/ Bus!Abort(c)
  BY <1>3, <1>4 DEF Bus!Answer, Bus!Ask, Bus!Timeout, Bus!Abort
<1>5. CASE UNCHANGED Bus!busVars
  BY <1>3, <1>5 DEF Bus!busVars
<1> QED BY <1>1, <1>2, <1>4, <1>5 DEF Bus!BusNext

LEMMA RulesKeep == RulesInv =>
  /\ Has(rules, added) /\ Arranged(rules) /\ \A q \in added : IsRule(q)
  /\ policyWorld \in PolicyWorld /\ changes \in Nat
BY DEF RulesInv

(* However rules were added and removed, the one that decides goes before    *)
(* all that match.                                                           *)
LEMMA OneDecides == RulesInv => Bus!RulesDecide
<1> SUFFICES ASSUME RulesInv, NEW c \in BusCall
             PROVE  LET Suits(r) == Bus!Matches(r, Bus!Tool(c).name, Bus!Tool(c).server)
                        matching == {r \in added : Suits(r)}
                        found == Bus!SelectInSeq(rules, Suits)
                    IN IF found = 0 THEN matching = {} ELSE Bus!Decides(rules[found], matching)
  BY DEF Bus!RulesDecide
<1>1. PICK name, server : name = Bus!Tool(c).name /\ server = Bus!Tool(c).server
  OBVIOUS
<1>2. PICK found : found = Found(rules, name, server)
  OBVIOUS
<1>4. IsFound(found, added, rules, name, server)
  BY <1>2, FoundIs, RulesKeep
<1>5. PICK matching : matching = {r \in added : Bus!Matches(r, name, server)}
  OBVIOUS
<1>6. IF found = 0 THEN matching = {} ELSE Bus!Decides(rules[found], matching)
  BY <1>4, <1>5 DEF IsFound, Bus!Decides, Precedes
<1> QED BY <1>1, <1>2, <1>5, <1>6 DEF Found, Fitting, Bus!SelectInSeq

\* What is decided by the rules as they are
Told(decision) ==
    IF decision = "ask" /\ policyWorld.settings.nonInteractive THEN "deny" ELSE decision
LEMMA CheckIs == ASSUME RulesInv, NEW name, NEW server
  PROVE \/ /\ \A q \in added : ~Bus!Matches(q, name, server)
           /\ Bus!Check(name, server) = Told("ask")
        \/ \E r \in added : /\ Bus!Matches(r, name, server)
                            /\ \A q \in added : Bus!Matches(q, name, server) => Precedes(r, q)
                            /\ Bus!Check(name, server) = Told(r.decision)
<1>2. PICK found : found = Found(rules, name, server)
  OBVIOUS
<1>4. IsFound(found, added, rules, name, server)
  BY <1>2, FoundIs, RulesKeep
<1>5. Bus!Check(name, server) = Told(IF found = 0 THEN "ask" ELSE rules[found].decision)
  BY <1>2 DEF Found, Fitting, Bus!Check, Bus!SelectInSeq, Told
<1>6. CASE found = 0
  BY <1>4, <1>5, <1>6 DEF IsFound
<1>7. CASE found # 0
  BY <1>4, <1>5, <1>7 DEF IsFound
<1> QED BY <1>6, <1>7

\* Why a tool is denied, and why it is allowed
Excluded(s, t) == t.name \in s.excluded \/ t.server \in s.excludedServers
Named(s, t) == t.name \in s.allowed \/ t.server \in s.trusted \/ t.server \in s.allowedServers
Read(s, t) == s.autoAccept /\ t.kind = "read"
Edits(s, t) == s.mode = "auto_edit" /\ t.kind = "edit"
Allowed(s, t) == Named(s, t) \/ s.mode = "yolo" \/ Read(s, t) \/ Edits(s, t)

LEMMA NamesTell == ASSUME BusConstants, NEW c \in BusCall, NEW kinds
  PROVE Bus!Tool(c).name \in Bus!NamesOf(kinds) <=> Bus!Tool(c).kind \in kinds
<1>1. ASSUME Bus!Tool(c).name \in Bus!NamesOf(kinds) PROVE Bus!Tool(c).kind \in kinds
  <2>1. PICK d \in BusCall : Bus!Tool(d).kind \in kinds /\ Bus!Tool(c).name = Bus!Tool(d).name
    BY <1>1 DEF Bus!NamesOf
  <2> QED BY <2>1 DEF BusConstants, Bus!Tool
<1>2. ASSUME Bus!Tool(c).kind \in kinds PROVE Bus!Tool(c).name \in Bus!NamesOf(kinds)
  BY <1>2 DEF Bus!NamesOf
<1> QED BY <1>1, <1>2

\* What a rule of the settings that matches says, and why
LEMMA FitsFor ==
  ASSUME BusConstants, NEW s, SettingsAre(s), NEW c \in BusCall, NEW t, t = Bus!Tool(c),
         NEW r \in Bus!RulesOf(s), Bus!Matches(r, t.name, t.server)
  PROVE  \/ r.decision = "deny" /\ Excluded(s, t)
         \/ r.decision = "allow" /\ r.priority < 195 /\ Named(s, t)
         \/ r.decision = "allow" /\ r.priority < 195 /\ Read(s, t)
         \/ r.decision = "allow" /\ r.priority < 195 /\ s.mode = "yolo"
         \/ r.decision = "allow" /\ r.priority < 195 /\ Edits(s, t)
         \/ /\ r.decision = "ask" /\ r.priority = 10 /\ s.mode # "yolo"
            /\ t.kind \in Bus!Write
<1>1. MadeOf(s, r)
  BY RulesOfAre
<1>2. \/ r.kind = "any"
      \/ r.kind = "tool" /\ r.name = t.name
      \/ r.kind = "server" /\ r.name = t.server
  BY DEF Bus!Matches
<1>3. \A kinds : t.name \in Bus!NamesOf(kinds) <=> t.kind \in kinds
  BY NamesTell
<1> QED BY <1>1, <1>2, <1>3 DEF MadeOf, Says, Excluded, Named, Read, Edits

\* The rules that settings make for a tool
LEMMA RuleFor ==
  ASSUME BusConstants, NEW s, SettingsAre(s), NEW c \in BusCall, NEW t, t = Bus!Tool(c)
  PROVE  LET fits(p) == \E r \in Bus!RulesOf(s) : Bus!Matches(r, t.name, t.server) /\ r.priority >= p
         IN  /\ Excluded(s, t) => fits(195)
             /\ Named(s, t) => fits(85)
             /\ Read(s, t) => fits(50)
             /\ Edits(s, t) => fits(15)
             /\ s.mode = "yolo" => fits(0)
<1> DEFINE fits(p) == \E r \in Bus!RulesOf(s) : Bus!Matches(r, t.name, t.server) /\ r.priority >= p
<1>1. NoServer \notin s.allowedServers \cup s.trusted \cup s.excludedServers
  BY DEF SettingsAre
<1>2. ASSUME NEW p, NEW decision, NEW h, Bus!Rule("tool", t.name, decision, h) \in Bus!RulesOf(s), h >= p
      PROVE  fits(p)
  <2>1. PICK r : r = Bus!Rule("tool", t.name, decision, h)
    OBVIOUS
  <2>2. r.kind = "tool" /\ r.name = t.name /\ r.priority = h
    BY <2>1 DEF Bus!Rule
  <2> QED BY <1>2, <2>1, <2>2 DEF Bus!Matches
<1>3. ASSUME NEW p, NEW decision, NEW h, Bus!Rule("server", t.server, decision, h) \in Bus!RulesOf(s),
             h >= p, t.server # NoServer
      PROVE  fits(p)
  <2>1. PICK r : r = Bus!Rule("server", t.server, decision, h)
    OBVIOUS
  <2>2. r.kind = "server" /\ r.name = t.server /\ r.priority = h
    BY <2>1 DEF Bus!Rule
  <2> QED BY <1>3, <2>1, <2>2 DEF Bus!Matches
<1> HIDE DEF fits
<1>4. Excluded(s, t) => fits(195)
  <2>1. ASSUME t.name \in s.excluded PROVE fits(195)
    <3>1. Bus!Rule("tool", t.name, "deny", 200) \in Bus!RulesOf(s)
      <4>1. Bus!Rule("tool", t.name, "deny", 200) \in {Bus!Rule("tool", n, "deny", 200) : n \in s.excluded}
        BY <2>1
      <4> QED BY <4>1, Zenon DEF Bus!RulesOf
    <3> QED BY <1>2, <3>1
  <2>2. ASSUME t.server \in s.excludedServers PROVE fits(195)
    <3>1. Bus!Rule("server", t.server, "deny", 195) \in Bus!RulesOf(s)
      <4>1. Bus!Rule("server", t.server, "deny", 195) \in {Bus!Rule("server", n, "deny", 195) : n \in s.excludedServers}
        BY <2>2
      <4> QED BY <4>1, Zenon DEF Bus!RulesOf
    <3> QED BY <1>1, <1>3, <2>2, <3>1
  <2> QED BY <2>1, <2>2 DEF Excluded
<1>5. Named(s, t) => fits(85)
  <2>1. ASSUME t.name \in s.allowed PROVE fits(85)
    <3>1. Bus!Rule("tool", t.name, "allow", 100) \in Bus!RulesOf(s)
      <4>1. Bus!Rule("tool", t.name, "allow", 100) \in {Bus!Rule("tool", n, "allow", 100) : n \in s.allowed}
        BY <2>1
      <4> QED BY <4>1, Zenon DEF Bus!RulesOf
    <3> QED BY <1>2, <3>1
  <2>2. ASSUME t.server \in s.trusted PROVE fits(85)
    <3>1. Bus!Rule("server", t.server, "allow", 90) \in Bus!RulesOf(s)
      <4>1. Bus!Rule("server", t.server, "allow", 90) \in {Bus!Rule("server", n, "allow", 90) : n \in s.trusted}
        BY <2>2
      <4> QED BY <4>1, Zenon DEF Bus!RulesOf
    <3> QED BY <1>1, <1>3, <2>2, <3>1
  <2>3. ASSUME t.server \in s.allowedServers PROVE fits(85)
    <3>1. Bus!Rule("server", t.server, "allow", 85) \in Bus!RulesOf(s)
      <4>1. Bus!Rule("server", t.server, "allow", 85) \in {Bus!Rule("server", n, "allow", 85) : n \in s.allowedServers}
        BY <2>3
      <4> QED BY <4>1, Zenon DEF Bus!RulesOf
    <3> QED BY <1>1, <1>3, <2>3, <3>1
  <2> QED BY <2>1, <2>2, <2>3 DEF Named
<1>6. Read(s, t) => fits(50)
  <2> SUFFICES ASSUME s.autoAccept, t.kind = "read" PROVE fits(50)
    BY DEF Read
  <2>1. t.name \in Bus!NamesOf({"read"})
    BY NamesTell
  <2>2. Bus!Rule("tool", t.name, "allow", 50) \in Bus!RulesOf(s)
    BY <2>1 DEF Bus!RulesOf
  <2> QED BY <1>2, <2>2
<1>7. s.mode = "yolo" => fits(0)
  <2> SUFFICES ASSUME s.mode = "yolo" PROVE fits(0)
    OBVIOUS
  <2>1. PICK r : r = Bus!Rule("any", "", "allow", 0)
    OBVIOUS
  <2>2. r \in Bus!RulesOf(s)
    BY <2>1 DEF Bus!RulesOf
  <2>3. r.kind = "any" /\ r.priority = 0
    BY <2>1 DEF Bus!Rule
  <2> QED BY <2>2, <2>3 DEF fits, Bus!Matches
<1>8. Edits(s, t) => fits(15)
  <2> SUFFICES ASSUME s.mode = "auto_edit", t.kind = "edit" PROVE fits(15)
    BY DEF Edits
  <2>1. t.name \in Bus!NamesOf({"edit"})
    BY NamesTell
  <2>2. Bus!Rule("tool", t.name, "allow", 15) \in Bus!RulesOf(s)
    BY <2>1 DEF Bus!RulesOf
  <2> QED BY <1>2, <2>2
<1> QED BY <1>4, <1>5, <1>6, <1>7, <1>8 DEF fits

(* The rules that the settings make say what the settings promise.           *)
LEMMA PromisesAreKept == BusConstants /\ RulesInv => Bus!SettingsDecide
<1> SUFFICES ASSUME BusConstants, RulesInv, changes = 0, NEW c \in BusCall
             PROVE  Bus!Check(Bus!Tool(c).name, Bus!Tool(c).server)
                      = Bus!Promised(policyWorld.settings, Bus!Tool(c))
  BY DEF Bus!SettingsDecide
<1>1. PICK s, t : s = policyWorld.settings /\ t = Bus!Tool(c)
  OBVIOUS
<1>2. SettingsAre(s) /\ added = Bus!RulesOf(s)
  BY <1>1, PolicyIs DEF RulesInv
<1>4. Bus!Promised(s, t) =
        IF Excluded(s, t) THEN "deny" ELSE IF Allowed(s, t) THEN "allow" ELSE Told("ask")
  BY <1>1 DEF Bus!Promised, Allowed, Excluded, Named, Read, Edits, Told
<1>5. CASE /\ \A q \in added : ~Bus!Matches(q, t.name, t.server)
           /\ Bus!Check(t.name, t.server) = Told("ask")
  <2>1. ~Excluded(s, t) /\ ~Allowed(s, t)
    BY <1>1, <1>2, <1>5, RuleFor DEF Allowed
  <2> QED BY <1>1, <1>4, <1>5, <2>1
<1>6. ASSUME NEW r \in added, Bus!Matches(r, t.name, t.server),
             \A q \in added : Bus!Matches(q, t.name, t.server) => Precedes(r, q),
             Bus!Check(t.name, t.server) = Told(r.decision)
      PROVE  Bus!Check(t.name, t.server) = Bus!Promised(s, t)
  <2>1. \/ r.decision = "deny" /\ Excluded(s, t)
        \/ r.decision = "allow" /\ r.priority < 195 /\ Allowed(s, t)
        \/ r.decision = "ask" /\ r.priority = 10 /\ s.mode # "yolo" /\ t.kind \in Bus!Write
    BY <1>1, <1>2, <1>6, FitsFor DEF Allowed
  <2>2. \A p \in Int : (\E q \in added : Bus!Matches(q, t.name, t.server) /\ q.priority >= p)
                          => r.priority >= p
    BY <1>6, RulesKeep DEF Precedes, IsRule
  <2>3. /\ Excluded(s, t) => r.priority >= 195
        /\ Named(s, t) => r.priority >= 85
        /\ Read(s, t) => r.priority >= 50
        /\ Edits(s, t) => r.priority >= 15
    BY <1>1, <1>2, <2>2, RuleFor
  <2>4. r.priority \in Int
    BY RulesKeep DEF IsRule
  <2>5. CASE Excluded(s, t)
    <3>1. r.decision = "deny"
      BY <2>1, <2>3, <2>4, <2>5
    <3> QED BY <1>4, <1>6, <2>5, <3>1 DEF Told
  <2>6. CASE ~Excluded(s, t) /\ Allowed(s, t)
    <3>1. r.decision = "allow"
      BY <2>1, <2>3, <2>4, <2>6 DEF Allowed
    <3> QED BY <1>4, <1>6, <2>6, <3>1 DEF Told
  <2>7. CASE ~Excluded(s, t) /\ ~Allowed(s, t)
    <3>1. r.decision = "ask"
      BY <2>1, <2>7
    <3> QED BY <1>4, <1>6, <2>7, <3>1
  <2> QED BY <2>5, <2>6, <2>7
<1> QED BY <1>1, <1>5, <1>6, CheckIs
=============================================================================
