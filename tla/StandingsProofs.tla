-------------------------- MODULE StandingsProofs --------------------------
(***************************************************************************)
(* Proofs about Standings: for any kims, users and tasks, any number of    *)
(* submissions and any number of requests in flight.                       *)
(***************************************************************************)
EXTENDS Standings, SequenceTheorems, FiniteSetTheorems, WellFoundedInduction,
        TLAPS

-----------------------------------------------------------------------------
(***************************************************************************)
(* Greatest elements, and what is left of a sequence                       *)
(***************************************************************************)

\* Numbers that do not grow beyond a bound have a greatest one, and Max is it.
LEMMA MaxExists ==
  ASSUME NEW S \in SUBSET Int, S # {}, NEW bound \in Int, \A x \in S : x <= bound
  PROVE  Max(S) \in S /\ \A x \in S : x <= Max(S)
<1> DEFINE below == {k \in Nat : bound - k \in S}
<1>1. below \subseteq Nat /\ below # {}
  <2>1. PICK x \in S : TRUE
    OBVIOUS
  <2>2. bound - x \in Nat /\ bound - (bound - x) = x
    OBVIOUS
  <2> QED
    BY <2>2
<1> DEFINE less == OpToRel(<, Nat)
<1>2. \A i, j \in Nat : i < j => <<i, j>> \in less
  BY DEF OpToRel
<1>3. IsWellFoundedOn(less, Nat)
  BY NatLessThanWellFounded
<1>4. PICK k \in below : \A j \in below : <<j, k>> \notin less
  <2> HIDE DEF below, less
  <2> QED
    BY <1>1, <1>3, WFMin, Zenon
<1>5. \A j \in below : k <= j
  <2> HIDE DEF below, less
  <2> SUFFICES ASSUME NEW j \in below, ~(k <= j) PROVE FALSE
    OBVIOUS
  <2>1. j \in Nat /\ k \in Nat
    BY <1>1
  <2>2. j < k
    BY <2>1
  <2> QED
    BY <1>2, <1>4, <2>1, <2>2, Zenon
<1>6. bound - k \in S /\ \A x \in S : bound - k >= x
  <2>1. \A x \in S : bound - x \in below
    OBVIOUS
  <2> QED
    BY <1>5, <2>1
<1>7. \A x \in S : Max(S) >= x
  <2> HIDE DEF below, less
  <2> QED
    BY <1>6 DEF Max
<1>8. Max(S) \in S
  <2> HIDE DEF below, less
  <2> QED
    BY <1>6 DEF Max
<1> QED
  BY <1>7, <1>8

\* Where the elements that remain were before element i was taken out.
Before(i, j) == IF j < i THEN j ELSE j + 1

LEMMA RemoveAtElements ==
  ASSUME NEW S, NEW s \in Seq(S), NEW i \in DOMAIN s, NEW t, t = RemoveAt(s, i)
  PROVE  /\ t \in Seq(S) /\ Len(t) = Len(s) - 1
         /\ DOMAIN t = 1..Len(t) /\ Len(s) \in Nat \ {0} /\ DOMAIN s = 1..Len(s)
         /\ \A j \in DOMAIN t : /\ Before(i, j) \in DOMAIN s
                                /\ t[j] = s[Before(i, j)]
<1> DEFINE a == SubSeq(s, 1, i - 1)
           b == SubSeq(s, i + 1, Len(s))
<1>1. /\ DOMAIN s = 1..Len(s) /\ Len(s) \in Nat \ {0} /\ i \in 1..Len(s)
      /\ \A j \in 1..Len(s) : s[j] \in S
  BY LenProperties, ElementOfSeq
<1>2. /\ a \in Seq(S) /\ Len(a) = i - 1
      /\ \A j \in 1..(i - 1) : a[j] = s[j]
  <2>1. /\ a \in Seq(S) /\ Len(a) = IF 1 <= i - 1 THEN (i - 1) - 1 + 1 ELSE 0
        /\ \A j \in 1 .. (i - 1) - 1 + 1 : a[j] = s[1 + j - 1]
    BY <1>1, SubSeqProperties
  <2> QED
    BY <1>1, <2>1
<1>3. /\ b \in Seq(S) /\ Len(b) = Len(s) - i
      /\ \A j \in 1..(Len(s) - i) : b[j] = s[i + j]
  <2>1. /\ b \in Seq(S) /\ Len(b) = IF i + 1 <= Len(s) THEN Len(s) - (i + 1) + 1 ELSE 0
        /\ \A j \in 1 .. Len(s) - (i + 1) + 1 : b[j] = s[(i + 1) + j - 1]
    BY <1>1, SubSeqProperties, SMTT(30)
  <2> QED
    BY <1>1, <2>1
<1>4. t = a \o b
  BY DEF RemoveAt
<1> HIDE DEF a, b
<1>5. /\ t \in Seq(S) /\ Len(t) = Len(a) + Len(b)
      /\ \A j \in 1 .. Len(a) + Len(b) :
           (j <= Len(a) => t[j] = a[j]) /\ (~(j <= Len(a)) => t[j] = b[j - Len(a)])
  <2>1. a \in Seq(S) /\ b \in Seq(S)
    BY <1>2, <1>3
  <2>2. t \in Seq(S)
    BY <1>4, <2>1, ConcatProperties
  <2>3. Len(t) = Len(a) + Len(b)
    BY <1>4, <2>1, ConcatProperties
  <2>4. \A j \in 1 .. Len(a) + Len(b) :
           (j <= Len(a) => t[j] = a[j]) /\ (~(j <= Len(a)) => t[j] = b[j - Len(a)])
    BY <1>4, <2>1, ConcatProperties
  <2> QED
    BY <2>2, <2>3, <2>4
<1>6. /\ t \in Seq(S) /\ Len(t) = Len(s) - 1 /\ DOMAIN t = 1..Len(t)
  BY <1>1, <1>2, <1>3, <1>5, LenProperties
<1>7. ASSUME NEW j \in DOMAIN t
      PROVE  Before(i, j) \in DOMAIN s /\ t[j] = s[Before(i, j)]
  <2>1. j \in 1..(Len(s) - 1) /\ j \in 1 .. Len(a) + Len(b)
    BY <1>1, <1>5, <1>6
  <2>2. CASE j < i
    BY <1>1, <1>2, <1>5, <2>1, <2>2 DEF Before
  <2>3. CASE ~(j < i)
    <3>1. j - (i - 1) \in 1..(Len(s) - i) /\ i + (j - (i - 1)) = j + 1
      BY <1>1, <2>1, <2>3
    <3>2. t[j] = b[j - (i - 1)]
      BY <1>1, <1>2, <1>5, <2>1, <2>3
    <3> QED
      <4>1. Before(i, j) = j + 1 /\ j + 1 \in DOMAIN s
        BY <1>1, <2>1, <2>3 DEF Before
      <4>2. b[j - (i - 1)] = s[i + (j - (i - 1))]
        BY <1>3, <3>1
      <4> QED
        BY <3>1, <3>2, <4>1, <4>2
  <2> QED
    BY <2>2, <2>3
<1> QED
  BY <1>1, <1>6, <1>7

-----------------------------------------------------------------------------
(***************************************************************************)
(* The inductive invariant                                                 *)
(***************************************************************************)

Submission ==
  [kim : Kims, task : Tasks, user : Users, time : 1..(MaxSubs + 1), committed : BOOLEAN]
Request == [kim : Kims, tag : Nat, response : [subs : SUBSET Nat, tag : Nat]]

\* The operators below take the submissions s and the late ones l as parameters,
\* to speak of them before and after a step.
Visible(s, kim) == {id \in 1..Len(s) : s[id].kim = kim /\ s[id].committed}

SubsOK ==
  /\ subs \in Seq(Submission) /\ subs # <<>> /\ subs[1].committed
  /\ \A id \in Ids : subs[id].task \in TasksOf[subs[id].kim]

\* An answer has submissions of the kim that was asked for, from the tag on.
AnswerOK(s, request) ==
  \A id \in request.response.subs : id \in Visible(s, request.kim) /\ request.tag <= id

RequestsOK ==
  /\ requests \in Seq(Request)
  /\ \A i \in DOMAIN requests : AnswerOK(subs, requests[i])

TableOK ==
  /\ table = [of |-> table.of, scores |-> table.scores, cells |-> table.cells,
              total |-> table.total]
  /\ table.of \in Kims \cup {NoKim}
  /\ table.cells \in [Users -> [Tasks -> Ids \cup {0}]]

\* The tag is 0 only while no kim is selected.
TypeOK ==
  /\ SubsOK /\ RequestsOK /\ TableOK
  /\ selected \in Kims \cup {NoKim}
  /\ syncTag \in Nat /\ (syncTag = 0 <=> selected = NoKim)

\* Below a sound tag nothing can become visible any more without being late.
Sound(s, tag) == tag <= 1 \/ (tag - 1 \in 1..Len(s) /\ s[tag - 1].committed)

TagsAreSound ==
  /\ Sound(subs, syncTag)
  /\ \A i \in DOMAIN requests :
       Sound(subs, requests[i].tag) /\ Sound(subs, requests[i].response.tag)

SameCell(s, a, b) == s[a].user = s[b].user /\ s[a].task = s[b].task

Old(s, l, kim, tag) == {id \in Visible(s, kim) \ l : id < tag}

\* The response has, for each submission from the request's tag to this one, one
\* for the same user and task that is not earlier.
Answers(s, l, request, tag) ==
  \A id \in Old(s, l, request.kim, tag) : request.tag <= id =>
    /\ \E shown \in request.response.subs : SameCell(s, shown, id)
    /\ \A shown \in request.response.subs :
         SameCell(s, shown, id) => s[id].time <= s[shown].time

\* A response answers all that is asked of it up to its own tag; if nothing was
\* overtaken, also up to each tag that the page has, had in an earlier response, or
\* has already asked with.
ResponsesAnswer ==
  \A i \in DOMAIN requests : Served(requests[i]) =>
    /\ Answers(subs, late, requests[i], requests[i].response.tag)
    /\ ~troubled =>
         /\ Answers(subs, late, requests[i], syncTag)
         /\ \A j \in DOMAIN requests : Answers(subs, late, requests[i], requests[j].tag)
         /\ \A j \in 1..i :
              /\ Served(requests[j])
              /\ Answers(subs, late, requests[i], requests[j].response.tag)

\* The table has every submission below the tag, or one that may stand for it.
Covers(s, l, cells, kim, tag) ==
  \A id \in Old(s, l, kim, tag) :
    LET shown == cells[s[id].user][s[id].task]
    IN shown # 0 /\ ~(shown < id /\ s[shown].time < s[id].time)

\* The last full one of the requests rs is for the kim, and so are those after it.
LastFull(rs, kim, full) ==
  /\ \A j \in (full + 1)..Len(rs) : rs[j].tag # 0 /\ rs[j].kim = kim
  /\ full # 0 => rs[full].tag = 0 /\ rs[full].kim = kim

TableFollows ==
  /\ table.of = selected
  /\ Covers(subs, late, table.cells, selected, syncTag)
  /\ \A j \in DOMAIN requests :
       Covers(subs, late, table.cells, selected, requests[j].tag)

\* When no full request is in flight, the table is that of the selected kim, and
\* covers every tag in use; otherwise it will be replaced.
PageFollows ==
  ~troubled /\ selected # NoKim =>
    \E full \in 0..Len(requests) :
      LastFull(requests, selected, full) /\ (full = 0 => TableFollows)

IInv == TypeOK /\ TagsAreSound /\ ResponsesAnswer /\ PageFollows

-----------------------------------------------------------------------------
(***************************************************************************)
(* The submissions                                                         *)
(***************************************************************************)

LEMMA SubsFields ==
  ASSUME SubsOK
  PROVE  /\ Len(subs) \in Nat \ {0} /\ Ids = 1..Len(subs) /\ 1 \in Ids
         /\ \A id \in Ids :
              /\ subs[id] \in Submission
              /\ subs[id].kim \in Kims /\ subs[id].task \in Tasks
              /\ subs[id].user \in Users /\ subs[id].time \in 1..(MaxSubs + 1)
              /\ subs[id].committed \in BOOLEAN
              /\ id \in Nat
<1>1. Len(subs) \in Nat \ {0} /\ Ids = 1..Len(subs)
  BY LenProperties, EmptySeq DEF SubsOK, Ids
<1>2. \A id \in Ids : subs[id] \in Submission
  BY <1>1, ElementOfSeq DEF SubsOK
<1> QED
  BY <1>1, <1>2 DEF Submission

\* What a step may do to the submissions: one comes to the end of the list, or
\* becomes visible, and then those before a visible one are late.
SubsGrow ==
  /\ Ids \subseteq Ids'
  /\ \A id \in Ids :
       /\ subs'[id].kim = subs[id].kim /\ subs'[id].task = subs[id].task
       /\ subs'[id].user = subs[id].user /\ subs'[id].time = subs[id].time
       /\ subs[id].committed => subs'[id].committed
  /\ \A id \in Ids' : subs'[id].committed /\ id \notin late' =>
       /\ id \in Ids /\ id \notin late
       /\ \/ subs[id].committed
          \/ \A later \in Ids : later > id => ~subs[later].committed

LEMMA InsertGrows ==
  ASSUME SubsOK, NEW kim \in Kims, NEW task \in Tasks, NEW user \in Users,
         NEW time \in 1..MaxSubs, Insert(kim, task, user, time)
  PROVE  SubsOK' /\ SubsGrow
<1> DEFINE new == [kim |-> kim, task |-> task, user |-> user, time |-> time,
                   committed |-> FALSE]
<1>1. /\ Len(subs) \in Nat \ {0} /\ Ids = 1..Len(subs)
      /\ subs \in Seq(Submission)
  BY SubsFields DEF SubsOK
<1>2. new \in Submission
  BY StandingsAssumption DEF Submission, StandingsAssumption
<1>3. subs' = Append(subs, new) /\ late' = late /\ task \in TasksOf[kim]
  BY DEF Insert
<1>4. /\ new.kim = kim /\ new.task = task /\ new.committed = FALSE
  OBVIOUS
<1> HIDE DEF new
<1>5. /\ subs' \in Seq(Submission) /\ subs' # <<>> /\ Len(subs') = Len(subs) + 1
      /\ \A id \in 1..Len(subs) : subs'[id] = subs[id]
      /\ subs'[Len(subs) + 1] = new
  BY <1>1, <1>2, <1>3, AppendProperties
<1>6. Ids' = 1..Len(subs') /\ Ids \subseteq Ids'
      /\ \A id \in Ids' : id \in Ids \/ id = Len(subs) + 1
  BY <1>1, <1>5 DEF Ids
<1>7. SubsOK'
  BY <1>1, <1>3, <1>4, <1>5, <1>6 DEF SubsOK
<1> QED
  BY <1>1, <1>3, <1>4, <1>5, <1>6, <1>7 DEF SubsGrow

LEMMA CommitGrows ==
  ASSUME SubsOK, NEW id \in Ids, CommitInsert(id)
  PROVE  SubsOK' /\ SubsGrow
<1>1. /\ Len(subs) \in Nat \ {0} /\ Ids = 1..Len(subs)
      /\ subs \in Seq(Submission) /\ DOMAIN subs = 1..Len(subs)
      /\ \A k \in Ids : subs[k] \in Submission
  BY SubsFields, LenProperties DEF SubsOK
<1>2. /\ subs' = [subs EXCEPT ![id].committed = TRUE]
      /\ late' = IF \E later \in Ids : later > id /\ subs[later].committed
                 THEN late \cup {id} ELSE late
  BY DEF CommitInsert
<1>3. [subs[id] EXCEPT !.committed = TRUE] \in Submission
  BY <1>1 DEF Submission
<1>4. subs' \in Seq(Submission) /\ Len(subs') = Len(subs)
  BY <1>1, <1>2, <1>3, ExceptSeq
<1>5. Ids' = Ids
  BY <1>4 DEF Ids
<1>6. /\ \A k \in Ids : k # id => subs'[k] = subs[k]
      /\ subs'[id] = [subs[id] EXCEPT !.committed = TRUE]
  BY <1>1, <1>2
<1>7. /\ subs'[id].kim = subs[id].kim /\ subs'[id].task = subs[id].task
      /\ subs'[id].user = subs[id].user /\ subs'[id].time = subs[id].time
      /\ subs'[id].committed
  BY <1>1, <1>6 DEF Submission
<1>8. SubsOK'
  <2>1. subs' # <<>>
    BY <1>1, <1>4, EmptySeq
  <2>2. subs'[1].committed
    <3>1. CASE id = 1
      BY <1>7, <3>1
    <3>2. CASE id # 1
      <4>1. subs'[1] = subs[1]
        BY <1>6, <3>2, SubsFields
      <4> QED
        BY <4>1 DEF SubsOK
    <3> QED
      BY <3>1, <3>2
  <2>3. \A k \in Ids : subs'[k].task \in TasksOf[subs'[k].kim]
    BY <1>6, <1>7 DEF SubsOK
  <2> QED
    BY <1>4, <1>5, <2>1, <2>2, <2>3 DEF SubsOK
<1> QED
  BY <1>2, <1>5, <1>6, <1>7, <1>8 DEF SubsGrow

\* Whatever becomes visible below a sound tag is late, so that what was below it
\* then is all that is there now.
LEMMA OldIsStable ==
  ASSUME SubsOK, SubsOK', SubsGrow, NEW tag \in Nat, Sound(subs, tag)
  PROVE  /\ Sound(subs', tag)
         /\ \A kim \in Kims : Old(subs', late', kim, tag) \subseteq Old(subs, late, kim, tag)
<1>1. /\ Ids = 1..Len(subs) /\ Ids' = 1..Len(subs')
      /\ Ids \subseteq Nat \ {0} /\ Ids' \subseteq Nat \ {0}
  BY DEF Ids
<1>2. Sound(subs', tag)
  BY <1>1 DEF Sound, SubsGrow
<1>3. ASSUME NEW kim \in Kims, NEW id \in Old(subs', late', kim, tag)
      PROVE  id \in Old(subs, late, kim, tag)
  <2>1. id \in Ids' /\ id \notin late' /\ subs'[id].kim = kim /\ subs'[id].committed /\ id < tag
    BY <1>1 DEF Old, Visible
  <2>2. id \in Ids /\ id \notin late /\ subs[id].kim = kim
    BY <2>1 DEF SubsGrow
  <2>3. tag - 1 \in Ids /\ subs[tag - 1].committed
    BY <1>1, <2>1 DEF Sound
  <2>4. id = tag - 1 \/ tag - 1 > id
    BY <1>1, <2>1
  <2>5. subs[id].committed
    BY <2>1, <2>3, <2>4 DEF SubsGrow
  <2> QED
    BY <1>1, <2>1, <2>2, <2>5 DEF Old, Visible
<1> QED
  BY <1>2, <1>3

-----------------------------------------------------------------------------
(***************************************************************************)
(* The answer of the server                                                *)
(***************************************************************************)

\* SELECT DISTINCT ON: for every submission that is asked for there is an answer
\* for its user and task, and it is not an earlier one.
LEMMA UserAnswersEffect ==
  ASSUME SubsOK, NEW kim \in Kims, NEW min_id \in Nat,
         NEW found, found = UserAnswers(kim, min_id)
  PROVE  /\ found \subseteq Visible(subs, kim) /\ \A id \in found : min_id <= id
         /\ \A id \in Visible(subs, kim) : min_id <= id =>
              /\ \E shown \in found : SameCell(subs, shown, id)
              /\ \A shown \in found :
                   SameCell(subs, shown, id) => subs[id].time <= subs[shown].time
<1>1. /\ Ids \subseteq Nat /\ Visible(subs, kim) \subseteq Ids
      /\ \A id \in Ids : subs[id].time \in 1..(MaxSubs + 1)
  BY SubsFields DEF Visible
<1>2. found = {id \in Visible(subs, kim) : id >= min_id /\
                \A other \in Visible(subs, kim) :
                  other >= min_id /\ SameCell(subs, other, id) => subs[other].time <= subs[id].time}
  BY DEF UserAnswers, SameCell, Committed, Visible, Ids
<1>a. \A id \in found : id \in Visible(subs, kim) /\ min_id <= id
  BY <1>1, <1>2
<1>3. ASSUME NEW id \in Visible(subs, kim), min_id <= id
      PROVE  /\ \E shown \in found : SameCell(subs, shown, id)
             /\ \A shown \in found : SameCell(subs, shown, id) => subs[id].time <= subs[shown].time
  <2> DEFINE others == {k \in Visible(subs, kim) : k >= min_id /\ SameCell(subs, k, id)}
             times == {subs[k].time : k \in others}
  <2>1. id \in others /\ others \subseteq Ids
    BY <1>1, <1>3 DEF SameCell
  <2>a. \A k \in others : subs[k].time \in 1..(MaxSubs + 1)
    BY <1>1, <2>1
  <2>b. MaxSubs \in Nat
    BY StandingsAssumption DEF StandingsAssumption
  <2>2. /\ times \in SUBSET Int /\ times # {} /\ MaxSubs + 1 \in Int
        /\ \A t \in times : t <= MaxSubs + 1
    <3> HIDE DEF others
    <3> QED
      BY <2>1, <2>a, <2>b
  <2> HIDE DEF times
  <2>3. Max(times) \in times /\ \A t \in times : t <= Max(times)
    BY <2>2, MaxExists
  <2>4. PICK latest \in others : subs[latest].time = Max(times)
    BY <2>3 DEF times
  <2>5. \A k \in others : subs[k].time <= subs[latest].time
    BY <2>3, <2>4 DEF times
  <2>6. SameCell(subs, latest, id) /\ latest \in Visible(subs, kim) /\ latest >= min_id
    OBVIOUS
  <2>7. latest \in found
    <3>1. ASSUME NEW other \in Visible(subs, kim), other >= min_id, SameCell(subs, other, latest)
          PROVE  subs[other].time <= subs[latest].time
      BY <2>5, <2>6, <3>1 DEF SameCell
    <3> QED
      BY <1>2, <2>6, <3>1
  <2>8. \A shown \in found : SameCell(subs, shown, id) => subs[id].time <= subs[shown].time
    BY <1>1, <1>2, <1>3 DEF SameCell
  <2> QED
    BY <2>6, <2>7, <2>8
<1> QED
  BY <1>a, <1>3

\* The tag of a response is sound if that of the request is.
LEMMA SyncTagIsSound ==
  ASSUME SubsOK, NEW min_id \in Nat, Sound(subs, min_id), NEW kim \in Kims,
         NEW found \in SUBSET Visible(subs, kim), NEW tag, tag = SyncTag(min_id, found)
  PROVE  tag \in Nat /\ tag >= 2 /\ Sound(subs, tag)
<1> DEFINE ids == {1, min_id - 1} \cup found
           bound == Len(subs) + min_id
<1>1. /\ Len(subs) \in Nat \ {0} /\ Ids = 1..Len(subs) /\ subs[1].committed
      /\ found \subseteq Ids /\ \A id \in found : subs[id].committed
  BY SubsFields DEF SubsOK, Visible
<1>2. ids \in SUBSET Int /\ ids # {} /\ 1 \in ids
  BY <1>1
<1>3. bound \in Int /\ \A id \in ids : id <= bound
  BY <1>1
<1> HIDE DEF bound
<1>4. tag = Max(ids) + 1
  BY DEF SyncTag
<1>5. Max(ids) \in ids /\ 1 <= Max(ids)
  <2> HIDE DEF ids
  <2> QED
    BY <1>2, <1>3, MaxExists
<1>6. Max(ids) \in Ids /\ subs[Max(ids)].committed
  <2>1. CASE Max(ids) = 1
    BY <1>1, <2>1
  <2>2. CASE Max(ids) \in found
    BY <1>1, <2>2
  <2>3. CASE Max(ids) = min_id - 1
    <3>1. Max(ids) = 1 \/ min_id > 1
      BY <1>5, <2>3
    <3> QED
      BY <1>1, <1>5, <2>3, <3>1 DEF Sound
  <2> QED
    BY <1>5, <2>1, <2>2, <2>3
<1> HIDE DEF ids
<1>7. tag - 1 = Max(ids) /\ tag \in Nat /\ tag >= 2
  BY <1>1, <1>4, <1>5, <1>6
<1> QED
  BY <1>1, <1>6, <1>7 DEF Sound

-----------------------------------------------------------------------------
(***************************************************************************)
(* The table                                                               *)
(***************************************************************************)

\* A cell shows one of the new submissions if there is one for it, and what it
\* did otherwise.
LEMMA FillEffect ==
  ASSUME SubsOK, NEW cells \in [Users -> [Tasks -> Ids \cup {0}]],
         NEW shown \in SUBSET Ids, NEW filled, filled = Fill(cells, shown)
  PROVE  /\ filled \in [Users -> [Tasks -> Ids \cup {0}]]
         /\ \A id \in Ids :
              \/ Cell(filled, id) \in shown /\ SameCell(subs, Cell(filled, id), id)
              \/ /\ Cell(filled, id) = Cell(cells, id)
                 /\ ~\E new \in shown : SameCell(subs, new, id)
<1> DEFINE new(u, t) == {id \in shown : subs[id].user = u /\ subs[id].task = t}
           value(u, t) == IF new(u, t) = {} THEN cells[u][t]
                          ELSE CHOOSE id \in new(u, t) : TRUE
<1>1. filled = [u \in Users |-> [t \in Tasks |-> value(u, t)]]
  BY DEF Fill
<1>2. \A u \in Users, t \in Tasks :
        \/ value(u, t) \in new(u, t)
        \/ new(u, t) = {} /\ value(u, t) = cells[u][t]
  OBVIOUS
<1>3. \A u \in Users, t \in Tasks : value(u, t) \in Ids \cup {0}
  BY <1>2
<1> HIDE DEF value
<1>4. filled \in [Users -> [Tasks -> Ids \cup {0}]]
  BY <1>1, <1>3
<1>5. ASSUME NEW id \in Ids
      PROVE  \/ Cell(filled, id) \in shown /\ SameCell(subs, Cell(filled, id), id)
             \/ /\ Cell(filled, id) = Cell(cells, id)
                /\ ~\E x \in shown : SameCell(subs, x, id)
  <2>1. subs[id].user \in Users /\ subs[id].task \in Tasks
    BY SubsFields
  <2>2. Cell(filled, id) = value(subs[id].user, subs[id].task)
    BY <1>1, <2>1 DEF Cell
  <2> QED
    BY <1>2, <2>1, <2>2 DEF Cell, SameCell
<1> QED
  BY <1>4, <1>5

\* What was shown for the tags in use, and the response, together cover each tag
\* up to which the response answers.
LEMMA ShownCovers ==
  ASSUME SubsOK, NEW cells \in [Users -> [Tasks -> Ids \cup {0}]],
         NEW request \in Request, AnswerOK(subs, request), NEW tag \in Nat,
         Answers(subs, late, request, tag),
         request.tag = 0 \/ Covers(subs, late, cells, request.kim, request.tag),
         NEW filled, filled = Fill(cells, request.response.subs)
  PROVE  Covers(subs, late, filled, request.kim, tag)
<1> DEFINE shown == request.response.subs
<1>1. /\ Ids = 1..Len(subs) /\ Ids \subseteq Nat \ {0} /\ shown \in SUBSET Ids
      /\ \A id \in Ids : subs[id].time \in Nat
      /\ request.tag \in Nat
  BY SubsFields DEF AnswerOK, Visible, Request
<1>2. \A id \in Ids :
        \/ Cell(filled, id) \in shown /\ SameCell(subs, Cell(filled, id), id)
        \/ /\ Cell(filled, id) = Cell(cells, id)
           /\ ~\E new \in shown : SameCell(subs, new, id)
  BY <1>1, FillEffect
<1> SUFFICES ASSUME NEW id \in Old(subs, late, request.kim, tag)
             PROVE  /\ Cell(filled, id) # 0
                    /\ ~(Cell(filled, id) < id /\ subs[Cell(filled, id)].time < subs[id].time)
  BY DEF Covers, Cell
<1>3. id \in Ids
  BY <1>1 DEF Old, Visible
<1>4. CASE request.tag <= id
  <2>1. /\ \E new \in shown : SameCell(subs, new, id)
        /\ \A new \in shown : SameCell(subs, new, id) => subs[id].time <= subs[new].time
    BY <1>4 DEF Answers
  <2>2. Cell(filled, id) \in shown /\ SameCell(subs, Cell(filled, id), id)
    BY <1>2, <1>3, <2>1
  <2>3. subs[id].time <= subs[Cell(filled, id)].time
    BY <2>1, <2>2
  <2>4. Cell(filled, id) \in Ids
    BY <1>1, <2>2
  <2>5. subs[id].time \in Nat /\ subs[Cell(filled, id)].time \in Nat
    BY <1>1, <1>3, <2>4
  <2> QED
    BY <1>1, <2>3, <2>4, <2>5
<1>5. CASE ~(request.tag <= id)
  <2>1. id < request.tag
    BY <1>1, <1>3, <1>5
  <2>2. id \in Old(subs, late, request.kim, request.tag)
    BY <2>1 DEF Old
  <2>3. /\ Cell(cells, id) # 0
        /\ ~(Cell(cells, id) < id /\ subs[Cell(cells, id)].time < subs[id].time)
    <3>1. request.tag # 0
      BY <1>1, <1>3, <2>1
    <3>2. Covers(subs, late, cells, request.kim, request.tag)
      BY <3>1
    <3> QED
      BY <2>2, <3>2, Zenon DEF Covers, Cell
  <2>4. CASE Cell(filled, id) \in shown
    <3>1. Cell(filled, id) \in Ids /\ request.tag <= Cell(filled, id)
      BY <1>1, <2>4 DEF AnswerOK
    <3> QED
      BY <1>1, <1>3, <2>1, <3>1
  <2>5. CASE Cell(filled, id) = Cell(cells, id)
    BY <2>3, <2>5
  <2> QED
    BY <1>2, <1>3, <2>4, <2>5
<1> QED
  BY <1>4, <1>5

-----------------------------------------------------------------------------
(***************************************************************************)
(* The steps of the contestants                                            *)
(***************************************************************************)

LEMMA RequestFields ==
  ASSUME RequestsOK
  PROVE  /\ DOMAIN requests = 1..Len(requests) /\ Len(requests) \in Nat
         /\ \A i \in DOMAIN requests :
              /\ requests[i] \in Request
              /\ requests[i].kim \in Kims /\ requests[i].tag \in Nat
              /\ requests[i].response.tag \in Nat
              /\ AnswerOK(subs, requests[i])
<1>1. DOMAIN requests = 1..Len(requests) /\ Len(requests) \in Nat
  BY LenProperties DEF RequestsOK
<1>2. \A i \in DOMAIN requests : requests[i] \in Request
  BY <1>1, ElementOfSeq DEF RequestsOK
<1> QED
  BY <1>1, <1>2 DEF RequestsOK, Request

\* What a response answers and what a table covers stays so.
LEMMA AnswersStay ==
  ASSUME SubsOK, SubsOK', SubsGrow, NEW tag \in Nat, Sound(subs, tag),
         NEW request \in Request, AnswerOK(subs, request), Answers(subs, late, request, tag)
  PROVE  Answers(subs', late', request, tag)
<1>1. Old(subs', late', request.kim, tag) \subseteq Old(subs, late, request.kim, tag)
  BY OldIsStable DEF Request
<1>2. /\ \A id \in Old(subs, late, request.kim, tag) : id \in Ids
      /\ \A id \in request.response.subs : id \in Ids
  BY DEF Old, Visible, AnswerOK, Ids
<1> QED
  BY <1>1, <1>2 DEF Answers, SubsGrow, SameCell

LEMMA CoversStay ==
  ASSUME SubsOK, SubsOK', SubsGrow, NEW tag \in Nat, Sound(subs, tag), NEW kim \in Kims,
         NEW cells \in [Users -> [Tasks -> Ids \cup {0}]],
         Covers(subs, late, cells, kim, tag)
  PROVE  Covers(subs', late', cells, kim, tag)
<1> SUFFICES ASSUME NEW id \in Old(subs', late', kim, tag),
                    NEW shown, shown = cells[subs'[id].user][subs'[id].task]
             PROVE  shown # 0 /\ ~(shown < id /\ subs'[shown].time < subs'[id].time)
  BY DEF Covers
<1>1. id \in Old(subs, late, kim, tag)
  BY OldIsStable
<1>2. id \in Ids
  BY <1>1 DEF Old, Visible, Ids
<1>3. /\ subs'[id].user = subs[id].user /\ subs'[id].task = subs[id].task
      /\ subs'[id].time = subs[id].time
      /\ subs[id].user \in Users /\ subs[id].task \in Tasks
  BY <1>2, SubsFields DEF SubsGrow
<1>4. shown = cells[subs[id].user][subs[id].task] /\ shown \in Ids \cup {0}
  BY <1>3
<1>5. shown # 0 /\ ~(shown < id /\ subs[shown].time < subs[id].time)
  BY <1>1, <1>4 DEF Covers
<1>6. subs'[shown].time = subs[shown].time
  BY <1>4, <1>5 DEF SubsGrow
<1> QED
  BY <1>3, <1>5, <1>6

LEMMA SubsStepIInv ==
  ASSUME IInv, SubsOK', SubsGrow,
         UNCHANGED <<selected, syncTag, requests, table, troubled>>
  PROVE  IInv'
<1>1. SubsOK /\ RequestsOK /\ TableOK /\ TypeOK
  BY DEF IInv, TypeOK
<1>2. \A i \in DOMAIN requests : AnswerOK(subs', requests[i])
  <2>1. \A kim : Visible(subs, kim) \subseteq Visible(subs', kim)
    BY DEF SubsGrow, Visible, Ids
  <2> QED
    BY <1>1, <2>1, RequestFields DEF AnswerOK
<1>3. RequestsOK' /\ TableOK' /\ TypeOK'
  <2>1. RequestsOK'
    BY <1>1, <1>2 DEF RequestsOK
  <2>2. TableOK'
    <3>1. Ids \cup {0} \subseteq Ids' \cup {0}
      BY DEF SubsGrow
    <3>2. table.cells \in [Users -> [Tasks -> Ids' \cup {0}]]
      BY <1>1, <3>1 DEF TableOK
    <3> QED
      BY <1>1, <3>2 DEF TableOK
  <2> QED
    BY <1>1, <2>1, <2>2 DEF TypeOK
<1>4. /\ syncTag \in Nat /\ Sound(subs, syncTag) /\ Sound(subs', syncTag)
      /\ \A i \in DOMAIN requests :
           /\ requests[i].tag \in Nat /\ requests[i].response.tag \in Nat
           /\ Sound(subs, requests[i].tag) /\ Sound(subs, requests[i].response.tag)
           /\ Sound(subs', requests[i].tag) /\ Sound(subs', requests[i].response.tag)
  BY <1>1, RequestFields, OldIsStable DEF IInv, TypeOK, TagsAreSound
<1>5. TagsAreSound'
  BY <1>4 DEF TagsAreSound
<1>6. ResponsesAnswer'
  <2>1. \A i \in DOMAIN requests, tag \in Nat :
          Sound(subs, tag) /\ Answers(subs, late, requests[i], tag) =>
            Answers(subs', late', requests[i], tag)
    BY <1>1, RequestFields, AnswersStay
  <2>2. \A i \in DOMAIN requests : 1..i \subseteq DOMAIN requests
    BY <1>1, RequestFields
  <2> QED
    BY <1>4, <2>1, <2>2 DEF IInv, ResponsesAnswer
<1>7. PageFollows'
  <2> SUFFICES ASSUME ~troubled, selected # NoKim PROVE PageFollows'
    BY DEF PageFollows
  <2>1. PICK full \in 0..Len(requests) :
          LastFull(requests, selected, full) /\ (full = 0 => TableFollows)
    BY DEF IInv, PageFollows
  <2>2. selected \in Kims /\ table.cells \in [Users -> [Tasks -> Ids \cup {0}]]
    BY <1>1 DEF TypeOK, TableOK
  <2>3. full = 0 => TableFollows'
    BY <1>1, <1>4, <2>1, <2>2, CoversStay DEF TableFollows
  <2> QED
    BY <2>1, <2>3 DEF PageFollows
<1> QED
  BY <1>3, <1>5, <1>6, <1>7 DEF IInv

-----------------------------------------------------------------------------
(***************************************************************************)
(* The steps of the page and of the server                                 *)
(***************************************************************************)

\* Nothing is below the tags with which everything is asked for.
LEMMA NothingBelowOne ==
  ASSUME NEW s, NEW l, NEW tag \in {0, 1}
  PROVE  /\ Sound(s, tag)
         /\ \A request : Answers(s, l, request, tag)
         /\ \A cells, kim : Covers(s, l, cells, kim, tag)
BY DEF Sound, Answers, Covers, Old, Visible

\* A request is sent: a full one, or for what is newer than the tag.
LEMMA SendIInv ==
  ASSUME IInv, NEW kim \in Kims, NEW tag \in Nat,
         tag = 0 \/ (tag = syncTag /\ tag # 0 /\ kim = selected),
         selected' = kim, syncTag' = 1,
         requests' = Append(requests, [kim |-> kim, tag |-> tag, response |-> NoResponse]),
         UNCHANGED <<subs, table, late, troubled>>
  PROVE  IInv'
<1> DEFINE new == [kim |-> kim, tag |-> tag, response |-> NoResponse]
           last == Len(requests) + 1
<1>1. SubsOK /\ RequestsOK /\ TableOK /\ TypeOK
  BY DEF IInv, TypeOK
<1>2. /\ DOMAIN requests = 1..Len(requests) /\ Len(requests) \in Nat
      /\ requests \in Seq(Request)
  BY <1>1, RequestFields DEF RequestsOK
<1>3. new \in Request /\ AnswerOK(subs, new) /\ ~Served(new)
      /\ new.kim = kim /\ new.tag = tag /\ new.response.tag = 0
  BY DEF Request, AnswerOK, NoResponse, Served
<1> HIDE DEF new
<1>4. /\ requests' \in Seq(Request) /\ Len(requests') = last /\ requests'[last] = new
      /\ \A j \in DOMAIN requests : requests'[j] = requests[j]
      /\ DOMAIN requests' = 1..last
  BY <1>2, <1>3, AppendProperties, LenProperties DEF new
<1>5. \A j \in DOMAIN requests' : j \in DOMAIN requests \/ j = last
  BY <1>2, <1>4
<1>6. RequestsOK' /\ TypeOK'
  <2>1. RequestsOK'
    BY <1>1, <1>3, <1>4, <1>5, RequestFields DEF RequestsOK
  <2>2. SubsOK' /\ TableOK'
    BY <1>1 DEF SubsOK, TableOK, Ids
  <2>3. kim # NoKim
    BY StandingsAssumption DEF StandingsAssumption
  <2> QED
    BY <2>1, <2>2, <2>3 DEF TypeOK
<1>7. Sound(subs, 0) /\ Sound(subs, 1) /\ Sound(subs, tag)
  BY NothingBelowOne DEF IInv, TagsAreSound
<1>8. TagsAreSound'
  BY <1>3, <1>4, <1>5, <1>7 DEF IInv, TagsAreSound
<1>9. ResponsesAnswer'
  <2> SUFFICES ASSUME NEW i \in DOMAIN requests', Served(requests'[i])
               PROVE  /\ Answers(subs, late, requests'[i], requests'[i].response.tag)
                      /\ ~troubled =>
                           /\ Answers(subs, late, requests'[i], 1)
                           /\ \A j \in DOMAIN requests' :
                                Answers(subs, late, requests'[i], requests'[j].tag)
                           /\ \A j \in 1..i :
                                /\ Served(requests'[j])
                                /\ Answers(subs, late, requests'[i], requests'[j].response.tag)
    BY DEF ResponsesAnswer
  <2>1. i \in DOMAIN requests /\ requests'[i] = requests[i]
    BY <1>3, <1>4, <1>5
  <2>2. \A j \in 1..i : j \in DOMAIN requests /\ requests'[j] = requests[j]
    BY <1>2, <1>4, <2>1
  <2>3. /\ Answers(subs, late, requests[i], 0) /\ Answers(subs, late, requests[i], 1)
    BY NothingBelowOne
  <2>4. ~troubled => Answers(subs, late, requests[i], tag)
    BY <2>1, <2>3 DEF IInv, ResponsesAnswer
  <2> QED
    BY <1>3, <1>4, <1>5, <2>1, <2>2, <2>3, <2>4 DEF IInv, ResponsesAnswer
<1>10. PageFollows'
  <2> SUFFICES ASSUME ~troubled PROVE PageFollows'
    BY DEF PageFollows
  <2>1. CASE tag = 0
    <3>1. LastFull(requests', kim, last)
      BY <1>2, <1>3, <1>4, <2>1 DEF LastFull
    <3>2. last \in 0..Len(requests') /\ last # 0
      BY <1>2, <1>4
    <3> QED
      BY <3>1, <3>2 DEF PageFollows
  <2>2. CASE tag # 0
    <3>1. selected # NoKim /\ kim = selected /\ tag = syncTag
      BY <2>2, StandingsAssumption DEF StandingsAssumption
    <3>2. PICK full \in 0..Len(requests) :
            LastFull(requests, kim, full) /\ (full = 0 => TableFollows)
      BY <3>1 DEF IInv, PageFollows
    <3>3. LastFull(requests', kim, full)
      BY <1>2, <1>3, <1>4, <1>5, <2>2, <3>2 DEF LastFull
    <3>4. full = 0 => TableFollows'
      BY <1>3, <1>4, <1>5, <3>1, <3>2, NothingBelowOne DEF TableFollows
    <3>5. full \in 0..Len(requests')
      BY <1>2, <1>4
    <3> QED
      BY <3>3, <3>4, <3>5 DEF PageFollows
  <2> QED
    BY <2>1, <2>2
<1> QED
  BY <1>6, <1>8, <1>9, <1>10 DEF IInv

\* updateStandings, with and without a kim.
LEMMA ChangeIInv ==
  ASSUME IInv, NEW kim \in Kims \cup {NoKim}, Change(kim)
  PROVE  IInv'
<1>1. CASE kim # NoKim
  <2>1. /\ kim \in Kims /\ selected' = kim /\ syncTag' = 1
        /\ requests' = Append(requests, [kim |-> kim, tag |-> 0, response |-> NoResponse])
        /\ UNCHANGED <<subs, table, late, troubled>>
    BY <1>1 DEF Change, ReallyUpdate
  <2> QED
    BY <2>1, SendIInv
<1>2. CASE kim = NoKim
  <2>1. selected' = NoKim /\ syncTag' = 0 /\ UNCHANGED <<requests, subs, table, late, troubled>>
    BY <1>2 DEF Change, ReallyUpdate
  <2>2. TypeOK'
    BY <2>1 DEF IInv, TypeOK, SubsOK, RequestsOK, TableOK, Ids
  <2>3. TagsAreSound'
    BY <2>1, NothingBelowOne DEF IInv, TagsAreSound
  <2>4. ResponsesAnswer'
    BY <2>1, NothingBelowOne DEF IInv, ResponsesAnswer
  <2>5. PageFollows'
    BY <2>1 DEF PageFollows
  <2> QED
    BY <2>2, <2>3, <2>4, <2>5 DEF IInv
<1> QED
  BY <1>1, <1>2

LEMMA AutomaticUpdateIInv == IInv /\ AutomaticUpdate => IInv'
<1> SUFFICES ASSUME IInv, AutomaticUpdate PROVE IInv'
  OBVIOUS
<1>1. /\ selected \in Kims \cup {NoKim} /\ syncTag \in Nat
      /\ syncTag = 0 <=> selected = NoKim
  BY DEF IInv, TypeOK
<1>2. CASE selected # NoKim
  <2>1. /\ selected \in Kims /\ selected' = selected /\ syncTag' = 1 /\ syncTag # 0
        /\ requests' = Append(requests, [kim |-> selected, tag |-> syncTag,
                                         response |-> NoResponse])
        /\ UNCHANGED <<subs, table, late, troubled>>
    BY <1>1, <1>2 DEF AutomaticUpdate, ReallyUpdate
  <2> QED
    BY <1>1, <2>1, SendIInv
<1>3. CASE selected = NoKim
  <2>1. UNCHANGED vars
    BY <1>1, <1>3 DEF AutomaticUpdate, ReallyUpdate, vars
  <2> QED
    BY <2>1 DEF vars, IInv, TypeOK, SubsOK, RequestsOK, TableOK, Ids, TagsAreSound,
                ResponsesAnswer, PageFollows, TableFollows
<1> QED
  BY <1>2, <1>3

\* get_standings, for any of the requests.
LEMMA ServeIInv ==
  ASSUME IInv, NEW i \in DOMAIN requests, Serve(i)
  PROVE  IInv'
<1>1. SubsOK /\ RequestsOK /\ TableOK /\ TypeOK
  BY DEF IInv, TypeOK
<1>2. /\ DOMAIN requests = 1..Len(requests) /\ Len(requests) \in Nat
      /\ requests \in Seq(Request)
      /\ \A j \in DOMAIN requests :
           /\ requests[j] \in Request /\ requests[j].kim \in Kims /\ requests[j].tag \in Nat
           /\ requests[j].response.tag \in Nat /\ AnswerOK(subs, requests[j])
  BY <1>1, RequestFields DEF RequestsOK
<1> DEFINE found == UserAnswers(requests[i].kim, requests[i].tag)
           tag == SyncTag(requests[i].tag, found)
           new == [requests[i] EXCEPT !.response = [subs |-> found, tag |-> tag]]
<1>3. /\ ~Served(requests[i]) /\ requests' = [requests EXCEPT ![i] = new]
      /\ ~troubled' => ~troubled /\ InOrder(i)
      /\ UNCHANGED <<subs, selected, syncTag, table, late>>
  BY DEF Serve
<1>4. /\ found \subseteq Visible(subs, requests[i].kim)
      /\ \A id \in found : requests[i].tag <= id
      /\ \A id \in Visible(subs, requests[i].kim) : requests[i].tag <= id =>
           /\ \E shown \in found : SameCell(subs, shown, id)
           /\ \A shown \in found :
                SameCell(subs, shown, id) => subs[id].time <= subs[shown].time
  BY <1>1, <1>2, UserAnswersEffect
<1> HIDE DEF found
<1>5. tag \in Nat /\ tag >= 2 /\ Sound(subs, tag)
  BY <1>1, <1>2, <1>4, SyncTagIsSound DEF IInv, TagsAreSound
<1> HIDE DEF tag
<1>6. found \subseteq Nat
  BY <1>4 DEF Visible
<1>7. /\ new.kim = requests[i].kim /\ new.tag = requests[i].tag
      /\ new.response.subs = found /\ new.response.tag = tag
      /\ new \in Request
  BY <1>2, <1>5, <1>6 DEF Request
<1> HIDE DEF new
<1>8. AnswerOK(subs, new) /\ Served(new)
  BY <1>4, <1>5, <1>7 DEF AnswerOK, Served
<1>9. /\ requests' \in Seq(Request) /\ Len(requests') = Len(requests)
      /\ DOMAIN requests' = DOMAIN requests
  BY <1>2, <1>3, <1>7, ExceptSeq
<1>10. /\ requests'[i] = new
       /\ \A j \in DOMAIN requests : j # i => requests'[j] = requests[j]
       /\ \A j \in DOMAIN requests :
            requests'[j].kim = requests[j].kim /\ requests'[j].tag = requests[j].tag
  BY <1>3, <1>7
<1>11. TypeOK'
  <2>1. RequestsOK'
    BY <1>2, <1>3, <1>8, <1>9, <1>10 DEF RequestsOK
  <2> QED
    BY <1>1, <1>3, <2>1 DEF TypeOK, SubsOK, TableOK, Ids
<1>12. TagsAreSound'
  BY <1>3, <1>5, <1>7, <1>9, <1>10 DEF IInv, TagsAreSound
<1>13. \A t : Answers(subs, late, new, t)
  BY <1>4, <1>7 DEF Answers, Old
<1>14. ResponsesAnswer'
  <2> SUFFICES ASSUME NEW k \in DOMAIN requests, Served(requests'[k])
               PROVE  /\ Answers(subs, late, requests'[k], requests'[k].response.tag)
                      /\ ~troubled' =>
                           /\ Answers(subs, late, requests'[k], syncTag)
                           /\ \A j \in DOMAIN requests :
                                Answers(subs, late, requests'[k], requests'[j].tag)
                           /\ \A j \in 1..k :
                                /\ Served(requests'[j])
                                /\ Answers(subs, late, requests'[k], requests'[j].response.tag)
    BY <1>3, <1>9 DEF ResponsesAnswer
  <2>1. CASE k = i
    <3>1. ~troubled' => \A j \in 1..k : Served(requests'[j])
      <4>1. ASSUME ~troubled', NEW j \in 1..k PROVE Served(requests'[j])
        <5>1. CASE j = i
          BY <1>8, <1>10, <5>1
        <5>2. CASE j # i
          <6>1. j \in 1..(i - 1) /\ j \in DOMAIN requests
            BY <1>2, <2>1, <5>2
          <6>2. Served(requests[j])
            BY <1>3, <4>1, <6>1 DEF InOrder
          <6> QED
            BY <1>10, <5>2, <6>1, <6>2
        <5> QED
          BY <5>1, <5>2
      <4> QED
        BY <4>1
    <3> QED
      BY <1>10, <1>13, <2>1, <3>1
  <2>2. CASE k # i
    <3>1. requests'[k] = requests[k] /\ Served(requests[k])
      BY <1>10, <2>2
    <3>2. Answers(subs, late, requests[k], requests[k].response.tag)
      BY <3>1 DEF IInv, ResponsesAnswer
    <3>3. ~troubled' => \A j \in 1..k : j # i /\ j \in DOMAIN requests
      BY <1>2, <1>3, <3>1 DEF IInv, ResponsesAnswer
    <3> QED
      <4>1. ASSUME ~troubled'
            PROVE  /\ Answers(subs, late, requests[k], syncTag)
                   /\ \A j \in DOMAIN requests :
                        Answers(subs, late, requests[k], requests[j].tag)
                   /\ \A j \in 1..k :
                        /\ Served(requests[j])
                        /\ Answers(subs, late, requests[k], requests[j].response.tag)
        BY <1>3, <3>1, <4>1 DEF IInv, ResponsesAnswer
      <4>2. ~troubled' => \A j \in 1..k : requests'[j] = requests[j]
        BY <1>10, <3>3
      <4> QED
        BY <1>10, <3>1, <3>2, <4>1, <4>2
  <2> QED
    BY <2>1, <2>2
<1>15. PageFollows'
  <2> SUFFICES ASSUME ~troubled', selected # NoKim PROVE PageFollows'
    BY <1>3 DEF PageFollows
  <2>1. PICK full \in 0..Len(requests) :
          LastFull(requests, selected, full) /\ (full = 0 => TableFollows)
    BY <1>3 DEF IInv, PageFollows
  <2>2. \A j \in (full + 1)..Len(requests) : j \in DOMAIN requests
    BY <1>2
  <2>3. full # 0 => full \in DOMAIN requests
    BY <1>2
  <2>4. LastFull(requests', selected, full)
    BY <1>9, <1>10, <2>1, <2>2, <2>3 DEF LastFull
  <2>5. full = 0 => TableFollows'
    BY <1>3, <1>9, <1>10, <2>1 DEF TableFollows
  <2> QED
    BY <1>3, <1>9, <2>4, <2>5 DEF PageFollows
<1> QED
  BY <1>11, <1>12, <1>14, <1>15 DEF IInv

\* A request is over: those that remain keep their order.
LEMMA RemovalIInv ==
  ASSUME IInv, NEW i \in DOMAIN requests, requests' = RemoveAt(requests, i),
         TableOK', syncTag' \in Nat, syncTag' = 0 <=> selected = NoKim,
         Sound(subs, syncTag'), UNCHANGED <<subs, selected, late>>,
         ~troubled' => (~troubled \/ Len(requests) = 1),
         ~troubled' => \A k \in DOMAIN requests : k # i /\ Served(requests[k]) =>
                         Answers(subs, late, requests[k], syncTag')
  PROVE  /\ TypeOK' /\ TagsAreSound' /\ ResponsesAnswer'
         /\ \A full \in 0..Len(requests) : full # i /\ LastFull(requests, selected, full) =>
              \E now \in 0..Len(requests') :
                /\ LastFull(requests', selected, now)
                /\ now = 0 <=> full = 0
         /\ \A j \in DOMAIN requests' :
              \E k \in DOMAIN requests : k # i /\ requests'[j] = requests[k]
<1>1. SubsOK /\ RequestsOK /\ TypeOK
  BY DEF IInv, TypeOK
<1>2. /\ DOMAIN requests = 1..Len(requests) /\ Len(requests) \in Nat \ {0}
      /\ requests' \in Seq(Request) /\ Len(requests') = Len(requests) - 1
      /\ DOMAIN requests' = 1..Len(requests')
      /\ \A j \in DOMAIN requests' :
           Before(i, j) \in DOMAIN requests /\ requests'[j] = requests[Before(i, j)]
  BY <1>1, RemoveAtElements DEF RequestsOK
<1>3. \A j \in DOMAIN requests' : Before(i, j) # i
  BY <1>2 DEF Before
<1>4. TypeOK'
  <2>1. RequestsOK'
    BY <1>1, <1>2, RequestFields DEF RequestsOK
  <2> QED
    BY <1>1, <2>1 DEF TypeOK, SubsOK, Ids
<1>5. TagsAreSound'
  BY <1>2 DEF IInv, TagsAreSound
<1>6. ResponsesAnswer'
  <2> SUFFICES ASSUME NEW k \in DOMAIN requests', Served(requests'[k])
               PROVE  /\ Answers(subs, late, requests'[k], requests'[k].response.tag)
                      /\ ~troubled' =>
                           /\ Answers(subs, late, requests'[k], syncTag')
                           /\ \A j \in DOMAIN requests' :
                                Answers(subs, late, requests'[k], requests'[j].tag)
                           /\ \A j \in 1..k :
                                /\ Served(requests'[j])
                                /\ Answers(subs, late, requests'[k], requests'[j].response.tag)
    BY DEF ResponsesAnswer
  <2>1. Served(requests[Before(i, k)])
    BY <1>2
  <2>2. Answers(subs, late, requests[Before(i, k)], requests[Before(i, k)].response.tag)
    BY <1>2, <2>1 DEF IInv, ResponsesAnswer
  <2>3. ASSUME ~troubled'
        PROVE  /\ Answers(subs, late, requests'[k], syncTag')
               /\ \A j \in DOMAIN requests' : Answers(subs, late, requests'[k], requests'[j].tag)
               /\ \A j \in 1..k :
                    /\ Served(requests'[j])
                    /\ Answers(subs, late, requests'[k], requests'[j].response.tag)
    <3>1. ~troubled
      BY <1>2, <2>3
    <3>2. \A j \in 1..k : j \in DOMAIN requests' /\ Before(i, j) \in 1..Before(i, k)
      BY <1>2 DEF Before
    <3>3. Answers(subs, late, requests'[k], syncTag')
      BY <1>2, <1>3, <2>1, <2>3
    <3>4. \A j \in DOMAIN requests' : Answers(subs, late, requests'[k], requests'[j].tag)
      BY <1>2, <2>1, <3>1 DEF IInv, ResponsesAnswer
    <3>5. \A j \in 1..Before(i, k) :
            /\ Served(requests[j])
            /\ Answers(subs, late, requests[Before(i, k)], requests[j].response.tag)
      BY <1>2, <2>1, <3>1 DEF IInv, ResponsesAnswer
    <3> QED
      BY <1>2, <3>2, <3>3, <3>4, <3>5
  <2> QED
    BY <1>2, <2>2, <2>3
<1>7. ASSUME NEW full \in 0..Len(requests), full # i, LastFull(requests, selected, full)
      PROVE  \E now \in 0..Len(requests') :
               LastFull(requests', selected, now) /\ (now = 0 <=> full = 0)
  <2> DEFINE now == IF i < full THEN full - 1 ELSE full
  <2>1. i \in 1..Len(requests) /\ now \in 0..Len(requests') /\ (now = 0 <=> full = 0)
    BY <1>2, <1>7
  <2>2. \A j \in (now + 1)..Len(requests') :
          j \in DOMAIN requests' /\ Before(i, j) \in (full + 1)..Len(requests)
    BY <1>2, <1>7, <2>1 DEF Before
  <2>3. now # 0 => now \in DOMAIN requests' /\ Before(i, now) = full
    BY <1>2, <1>7, <2>1 DEF Before
  <2> HIDE DEF now
  <2>4. LastFull(requests', selected, now)
    BY <1>2, <1>7, <2>1, <2>2, <2>3 DEF LastFull
  <2> QED
    BY <2>1, <2>4
<1> QED
  BY <1>2, <1>3, <1>4, <1>5, <1>6, <1>7

LEMMA FailIInv ==
  ASSUME IInv, NEW i \in DOMAIN requests, Fail(i)
  PROVE  IInv'
<1>1. /\ requests' = RemoveAt(requests, i)
      /\ ~troubled' => ~troubled /\ requests[i].tag # 0
      /\ UNCHANGED <<subs, selected, syncTag, table, late>>
  BY DEF Fail
<1>2. TableOK' /\ Sound(subs, syncTag) /\ syncTag \in Nat /\ (syncTag = 0 <=> selected = NoKim)
  BY <1>1 DEF IInv, TypeOK, TableOK, Ids, TagsAreSound
<1>3. ~troubled => \A k \in DOMAIN requests :
        k # i /\ Served(requests[k]) => Answers(subs, late, requests[k], syncTag)
  BY DEF IInv, ResponsesAnswer
<1>4. /\ TypeOK' /\ TagsAreSound' /\ ResponsesAnswer'
      /\ \A full \in 0..Len(requests) : full # i /\ LastFull(requests, selected, full) =>
           \E now \in 0..Len(requests') :
             /\ LastFull(requests', selected, now)
             /\ now = 0 <=> full = 0
      /\ \A j \in DOMAIN requests' :
           \E k \in DOMAIN requests : k # i /\ requests'[j] = requests[k]
  BY <1>1, <1>2, <1>3, RemovalIInv
<1>5. PageFollows'
  <2> SUFFICES ASSUME ~troubled', selected # NoKim PROVE PageFollows'
    BY <1>1 DEF PageFollows
  <2>1. PICK full \in 0..Len(requests) :
          LastFull(requests, selected, full) /\ (full = 0 => TableFollows)
    BY <1>1 DEF IInv, PageFollows
  <2>2. full # i
    <3>1. i # 0
      BY RequestFields DEF IInv, TypeOK
    <3> QED
      BY <1>1, <2>1, <3>1 DEF LastFull
  <2>3. PICK now \in 0..Len(requests') :
          LastFull(requests', selected, now) /\ (now = 0 <=> full = 0)
    BY <1>4, <2>1, <2>2
  <2>4. now = 0 => TableFollows'
    BY <1>1, <1>4, <2>1, <2>3 DEF TableFollows
  <2> QED
    BY <1>1, <2>3, <2>4 DEF PageFollows
<1> QED
  BY <1>4, <1>5 DEF IInv

\* The three ways in which a response is received.
LEMMA ReceiveEffect ==
  ASSUME TypeOK, NEW i \in DOMAIN requests, Receive(i),
         NEW request, request = requests[i]
  PROVE  /\ Served(request) /\ requests' = RemoveAt(requests, i)
         /\ UNCHANGED <<subs, selected, late>>
         /\ TableOK'
         /\ \/ syncTag = 0 /\ UNCHANGED <<syncTag, table, troubled>>
            \/ /\ syncTag # 0 /\ syncTag' = request.response.tag
               /\ request.tag = 0 => /\ table'.of = request.kim
                                     /\ table'.cells = Fill(NoScores, request.response.subs)
               /\ request.tag # 0 => /\ table'.of = table.of
                                     /\ table'.cells = Fill(table.cells, request.response.subs)
               /\ ~troubled' => \/ ~troubled /\ i = 1
                                \/ /\ request.tag = 0 /\ request.kim = selected
                                   /\ RemoveAt(requests, i) = <<>>
            \/ /\ syncTag # 0 /\ syncTag' = request.tag
               /\ request.tag # 0 /\ troubled' = TRUE
<1>1. SubsOK /\ RequestsOK /\ TableOK
  BY DEF TypeOK
<1>2. /\ request \in Request /\ AnswerOK(subs, request) /\ request.kim \in Kims
      /\ request.tag \in Nat
  BY <1>1, RequestFields
<1> DEFINE found == request.response.subs
           known == IF request.tag = 0 THEN Empty(request.kim) ELSE table
           fits == {id \in found : known.of # NoKim /\ subs[id].task \in TasksOf[known.of]}
           rest == RemoveAt(requests, i)
<1>3. found \in SUBSET Ids
  BY <1>2 DEF AnswerOK, Visible, Ids
<1>4. NoScores \in [Users -> [Tasks -> Ids \cup {0}]]
  BY DEF NoScores
<1>5. /\ known = [of |-> known.of, scores |-> known.scores, cells |-> known.cells,
                  total |-> known.total]
      /\ known.of \in Kims \cup {NoKim}
      /\ known.cells \in [Users -> [Tasks -> Ids \cup {0}]]
      /\ request.tag = 0 => known.of = request.kim /\ known.cells = NoScores
      /\ request.tag # 0 => known.of = table.of /\ known.cells = table.cells
  <2>1. CASE request.tag = 0
    <3>1. known = [of |-> request.kim, scores |-> NoScores, cells |-> NoScores,
                   total |-> [u \in Users |-> 0]]
      BY <2>1 DEF Empty
    <3> HIDE DEF known
    <3> QED
      BY <1>2, <1>4, <2>1, <3>1
  <2>2. CASE request.tag # 0
    BY <1>1, <2>2 DEF TableOK
  <2> QED
    BY <1>2, <2>1, <2>2
<1>6. request.tag = 0 => fits = found
  <2>1. \A id \in found : id \in Ids /\ subs[id].kim = request.kim
    BY <1>2 DEF AnswerOK, Visible, Ids
  <2>2. \A id \in found : subs[id].task \in TasksOf[request.kim]
    BY <1>1, <2>1 DEF SubsOK
  <2>3. request.kim # NoKim
    BY <1>2, StandingsAssumption DEF StandingsAssumption
  <2> QED
    BY <1>5, <2>2, <2>3
<1>7. /\ Served(request) /\ requests' = rest /\ UNCHANGED <<subs, selected, late>>
      /\ \/ /\ syncTag = 0
            /\ UNCHANGED <<syncTag, table, troubled>>
         \/ /\ syncTag # 0 /\ fits = found
            /\ table' = [Scored(known, found) EXCEPT !.cells = Fill(@, found)]
            /\ syncTag' = request.response.tag
            /\ troubled' = IF request.tag = 0 /\ request.kim = selected /\ rest = <<>>
                           THEN FALSE ELSE troubled \/ i # 1
         \/ /\ syncTag # 0 /\ fits # found
            /\ \E before \in SUBSET fits : table' = Scored(known, before)
            /\ syncTag' = request.tag
            /\ troubled' = TRUE
  BY DEF Receive
<1> HIDE DEF found, known, fits, rest
<1>8. ASSUME NEW shown, NEW scored, scored = Scored(known, shown)
      PROVE  /\ scored = [of |-> known.of, scores |-> scored.scores, cells |-> known.cells,
                          total |-> scored.total]
             /\ scored.of = known.of /\ scored.cells = known.cells
  <2> DEFINE scores == Fill(known.scores, shown)
             total == [u \in Users |-> known.total[u] + Gained(known.scores, shown, u)]
  <2>1. scored = [known EXCEPT !.scores = scores, !.total = total]
    BY <1>8 DEF Scored
  <2> HIDE DEF scores, total
  <2>2. scored = [of |-> known.of, scores |-> scores, cells |-> known.cells, total |-> total]
    BY <1>5, <2>1
  <2> QED
    BY <2>2
<1>9. CASE syncTag = 0
  BY <1>1, <1>7, <1>9 DEF TableOK, Ids, rest
<1>10. CASE syncTag # 0 /\ fits = found
  <2>1. PICK scored : scored = Scored(known, found)
    OBVIOUS
  <2>2. PICK filled : filled = Fill(known.cells, found)
    OBVIOUS
  <2>3. scored.cells = known.cells
    BY <1>8, <2>1
  <2>4. table' = [scored EXCEPT !.cells = filled]
    BY <1>7, <1>10, <2>1, <2>2, <2>3
  <2>5. table' = [of |-> known.of, scores |-> scored.scores, cells |-> filled,
                  total |-> scored.total]
    BY <1>8, <2>1, <2>4
  <2>6. filled \in [Users -> [Tasks -> Ids \cup {0}]]
    BY <1>1, <1>3, <1>5, <2>2, FillEffect DEF found
  <2>7. TableOK'
    BY <1>5, <1>7, <2>5, <2>6 DEF TableOK, Ids
  <2>8. table'.of = known.of /\ table'.cells = filled
    BY <2>5
  <2>9. ~troubled' => \/ ~troubled /\ i = 1
                      \/ request.tag = 0 /\ request.kim = selected /\ rest = <<>>
    BY <1>7, <1>10
  <2> QED
    BY <1>5, <1>7, <1>10, <2>2, <2>7, <2>8, <2>9 DEF found, rest
<1>11. CASE syncTag # 0 /\ fits # found
  <2>1. PICK before \in SUBSET fits : table' = Scored(known, before)
    BY <1>7, <1>11
  <2>2. /\ table' = [of |-> known.of, scores |-> table'.scores, cells |-> known.cells,
                     total |-> table'.total]
        /\ table'.of = known.of /\ table'.cells = known.cells
    BY <1>8, <2>1
  <2>3. TableOK'
    BY <1>5, <1>7, <2>2 DEF TableOK, Ids
  <2> QED
    BY <1>6, <1>7, <1>11, <2>3 DEF rest
<1> QED
  BY <1>9, <1>10, <1>11

LEMMA ReceiveIInv ==
  ASSUME IInv, NEW i \in DOMAIN requests, Receive(i)
  PROVE  IInv'
<1>1. SubsOK /\ RequestsOK /\ TableOK /\ TypeOK
  BY DEF IInv, TypeOK
<1>2. PICK request : request = requests[i]
  OBVIOUS
<1>3. /\ request \in Request /\ AnswerOK(subs, request) /\ request.kim \in Kims
      /\ request.tag \in Nat /\ request.response.tag \in Nat
      /\ DOMAIN requests = 1..Len(requests) /\ Len(requests) \in Nat
  BY <1>1, <1>2, RequestFields
<1>4. /\ Served(request) /\ requests' = RemoveAt(requests, i)
      /\ UNCHANGED <<subs, selected, late>> /\ TableOK'
  BY <1>1, <1>2, ReceiveEffect
<1>5. /\ Answers(subs, late, request, request.response.tag)
      /\ Sound(subs, request.tag) /\ Sound(subs, request.response.tag) /\ Sound(subs, syncTag)
      /\ request.response.tag # 0
      /\ syncTag \in Nat /\ (syncTag = 0 <=> selected = NoKim)
  BY <1>1, <1>2, <1>4 DEF IInv, ResponsesAnswer, TagsAreSound, Served, TypeOK
<1>6. /\ requests' \in Seq(Request) /\ Len(requests') = Len(requests) - 1
      /\ DOMAIN requests' = 1..Len(requests')
  BY <1>1, <1>4, RemoveAtElements DEF RequestsOK
<1>7. CASE syncTag = 0
  <2>1. UNCHANGED <<syncTag, table, troubled>>
    BY <1>1, <1>2, <1>7, ReceiveEffect
  <2>2. TypeOK' /\ TagsAreSound' /\ ResponsesAnswer'
    <3>1. ~troubled => \A k \in DOMAIN requests :
            k # i /\ Served(requests[k]) => Answers(subs, late, requests[k], syncTag)
      BY DEF IInv, ResponsesAnswer
    <3> QED
      BY <1>4, <1>5, <2>1, <3>1, RemovalIInv
  <2>3. PageFollows'
    BY <1>4, <1>5, <1>7 DEF PageFollows
  <2> QED
    BY <2>2, <2>3 DEF IInv
<1>8. CASE /\ syncTag # 0 /\ syncTag' = request.tag
           /\ request.tag # 0 /\ troubled' = TRUE
  <2>1. TypeOK' /\ TagsAreSound' /\ ResponsesAnswer'
    <3>1. syncTag' \in Nat /\ (syncTag' = 0 <=> selected = NoKim) /\ Sound(subs, syncTag')
      BY <1>3, <1>5, <1>8
    <3> QED
      BY <1>4, <1>8, <3>1, RemovalIInv
  <2>2. PageFollows'
    BY <1>8 DEF PageFollows
  <2> QED
    BY <2>1, <2>2 DEF IInv
<1>9. CASE /\ syncTag # 0 /\ syncTag' = request.response.tag
           /\ request.tag = 0 => /\ table'.of = request.kim
                                 /\ table'.cells = Fill(NoScores, request.response.subs)
           /\ request.tag # 0 => /\ table'.of = table.of
                                 /\ table'.cells = Fill(table.cells, request.response.subs)
           /\ ~troubled' => \/ ~troubled /\ i = 1
                            \/ /\ request.tag = 0 /\ request.kim = selected
                               /\ RemoveAt(requests, i) = <<>>
  <2>1. ~troubled' => (~troubled /\ i = 1) \/ Len(requests) = 1
    <3>1. requests' = <<>> => Len(requests) = 1
      <4>1. requests' = <<>> => Len(requests') = 0
        BY EmptySeq
      <4>2. Len(requests') = 0 => Len(requests) = 1
        <5>1. Len(requests') = Len(requests) - 1 /\ Len(requests) \in Nat
          BY <1>3, <1>6
        <5>2. ASSUME NEW n \in Nat, NEW m, m = n - 1, m = 0 PROVE n = 1
          BY <5>2
        <5> QED
          BY <5>1, <5>2
      <4> QED
        BY <4>1, <4>2, Zenon
    <3> QED
      BY <1>4, <1>9, <3>1
  <2>2. ~troubled' => \A k \in DOMAIN requests : k # i /\ Served(requests[k]) =>
                        Answers(subs, late, requests[k], syncTag')
    <3> SUFFICES ASSUME ~troubled', NEW k \in DOMAIN requests, k # i, Served(requests[k])
                 PROVE  Answers(subs, late, requests[k], request.response.tag)
      BY <1>9
    <3>1. ~troubled /\ i = 1
      BY <1>3, <2>1
    <3>2. 1 \in 1..k
      BY <1>3
    <3> QED
      BY <1>2, <3>1, <3>2 DEF IInv, ResponsesAnswer
  <2>3. syncTag' \in Nat /\ (syncTag' = 0 <=> selected = NoKim) /\ Sound(subs, syncTag')
    BY <1>3, <1>5, <1>9
  <2>4. /\ TypeOK' /\ TagsAreSound' /\ ResponsesAnswer'
        /\ \A full \in 0..Len(requests) : full # i /\ LastFull(requests, selected, full) =>
             \E now \in 0..Len(requests') :
               /\ LastFull(requests', selected, now)
               /\ now = 0 <=> full = 0
        /\ \A j \in DOMAIN requests' :
             \E k \in DOMAIN requests : k # i /\ requests'[j] = requests[k]
    BY <1>4, <2>1, <2>2, <2>3, RemovalIInv
  <2>5. PageFollows'
    <3> SUFFICES ASSUME ~troubled', selected # NoKim PROVE PageFollows'
      BY <1>4 DEF PageFollows
    <3> DEFINE cells == IF request.tag = 0 THEN NoScores ELSE table.cells
    <3>1. cells \in [Users -> [Tasks -> Ids \cup {0}]]
      BY <1>1 DEF NoScores, TableOK
    <3>2. table'.cells = Fill(cells, request.response.subs)
      BY <1>9
    <3> HIDE DEF cells
    <3>3. \A tag \in Nat :
            /\ Answers(subs, late, request, tag)
            /\ request.tag = 0 \/ Covers(subs, late, cells, request.kim, request.tag)
            => Covers(subs, late, table'.cells, request.kim, tag)
      BY <1>1, <1>3, <3>1, <3>2, ShownCovers
    <3>4. CASE request.tag = 0 /\ request.kim = selected /\ requests' = <<>>
      <4>1. Len(requests') = 0 /\ DOMAIN requests' = {}
        BY <1>6, <3>4, EmptySeq
      <4>2. LastFull(requests', selected, 0)
        BY <4>1 DEF LastFull
      <4>3. Covers(subs, late, table'.cells, selected, request.response.tag)
        BY <1>3, <1>5, <3>3, <3>4
      <4>4. TableFollows'
        BY <1>4, <1>9, <3>4, <4>1, <4>3 DEF TableFollows
      <4> QED
        BY <1>4, <4>1, <4>2, <4>4 DEF PageFollows
    <3>5. CASE ~troubled /\ i = 1
      <4>1. PICK full \in 0..Len(requests) :
              LastFull(requests, selected, full) /\ (full = 0 => TableFollows)
        BY <3>5 DEF IInv, PageFollows
      <4>2. \A j \in DOMAIN requests :
              requests[j].tag \in Nat /\ Answers(subs, late, request, requests[j].tag)
        BY <1>1, <1>2, <1>4, <3>5, RequestFields DEF IInv, ResponsesAnswer
      <4>3. CASE full > 1
        <5>1. PICK now \in 0..Len(requests') :
                LastFull(requests', selected, now) /\ (now = 0 <=> full = 0)
          BY <2>4, <3>5, <4>1, <4>3
        <5> QED
          BY <1>4, <4>3, <5>1 DEF PageFollows
      <4>4. CASE full \in {0, 1}
        <5>1. /\ request.kim = selected
              /\ request.tag = 0 \/ Covers(subs, late, cells, request.kim, request.tag)
              /\ table'.of = selected
          <6>1. CASE full = 1
            BY <1>2, <1>9, <3>5, <4>1, <6>1 DEF LastFull
          <6>2. CASE full = 0
            <7>1. i \in (full + 1)..Len(requests)
              BY <1>3, <3>5, <6>2
            <7>2. request.tag # 0 /\ request.kim = selected
              BY <1>2, <4>1, <7>1 DEF LastFull
            <7> QED
              BY <1>2, <1>9, <4>1, <6>2, <7>2 DEF TableFollows, cells
          <6> QED
            BY <4>4, <6>1, <6>2
        <5>2. \A j \in DOMAIN requests :
                Covers(subs, late, table'.cells, selected, requests[j].tag)
          BY <3>3, <4>2, <5>1
        <5>3. Covers(subs, late, table'.cells, selected, request.response.tag)
          BY <1>3, <1>5, <3>3, <5>1
        <5>4. TableFollows'
          BY <1>4, <1>9, <2>4, <5>1, <5>2, <5>3 DEF TableFollows
        <5>5. LastFull(requests', selected, 0)
          <6>a. \A j \in DOMAIN requests' : requests'[j] = requests[Before(1, j)]
            BY <1>1, <1>4, <3>5, RemoveAtElements DEF RequestsOK
          <6>1. \A j \in DOMAIN requests' :
                  j + 1 \in 2..Len(requests) /\ requests'[j] = requests[j + 1]
            BY <1>3, <1>6, <6>a DEF Before
          <6>2. \A j \in 2..Len(requests) : requests[j].tag # 0 /\ requests[j].kim = selected
            BY <1>3, <4>1, <4>4 DEF LastFull
          <6> QED
            BY <1>6, <6>1, <6>2 DEF LastFull
        <5>6. 0 \in 0..Len(requests')
          BY <1>3, <1>6
        <5> QED
          BY <1>4, <5>4, <5>5, <5>6 DEF PageFollows
      <4> QED
        BY <1>3, <4>3, <4>4
    <3> QED
      BY <1>4, <1>9, <3>4, <3>5
  <2> QED
    BY <2>4, <2>5 DEF IInv
<1> QED
  BY <1>1, <1>2, <1>7, <1>8, <1>9, ReceiveEffect

-----------------------------------------------------------------------------
(***************************************************************************)
(* The theorems                                                            *)
(***************************************************************************)

LEMMA InitIInv == Init => IInv
<1> SUFFICES ASSUME Init PROVE IInv
  OBVIOUS
<1>1. PICK kim \in Kims, user \in Users : \E task \in TasksOf[kim] :
        subs = <<[kim |-> kim, task |-> task, user |-> user, time |-> 1, committed |-> TRUE]>>
  BY DEF Init
<1>2. PICK task \in TasksOf[kim] :
        subs = <<[kim |-> kim, task |-> task, user |-> user, time |-> 1, committed |-> TRUE]>>
  BY <1>1
<1> DEFINE first == [kim |-> kim, task |-> task, user |-> user, time |-> 1, committed |-> TRUE]
<1>3. first \in Submission /\ first.committed /\ first.task \in TasksOf[first.kim]
  BY StandingsAssumption DEF StandingsAssumption, Submission
<1> HIDE DEF first
<1>4. subs = <<first>>
  BY <1>2 DEF first
<1>5. SubsOK
  <2>1. Ids = {1} /\ subs[1] = first /\ subs \in Seq(Submission) /\ subs # <<>>
    BY <1>3, <1>4 DEF Ids
  <2> QED
    BY <1>3, <2>1 DEF SubsOK
<1>6. /\ requests = <<>> /\ DOMAIN requests = {} /\ requests \in Seq(Request)
      /\ selected = NoKim /\ syncTag = 0 /\ table = Empty(NoKim)
  BY DEF Init
<1>7. TableOK
  <2>1. table = [of |-> NoKim, scores |-> NoScores, cells |-> NoScores,
                 total |-> [u \in Users |-> 0]]
    BY <1>6 DEF Empty
  <2>2. NoScores \in [Users -> [Tasks -> Ids \cup {0}]]
    BY DEF NoScores
  <2> QED
    BY <2>1, <2>2 DEF TableOK
<1>8. TypeOK
  BY <1>5, <1>6, <1>7 DEF TypeOK, RequestsOK
<1> QED
  BY <1>6, <1>8, NothingBelowOne DEF IInv, TagsAreSound, ResponsesAnswer, PageFollows

LEMMA NextIInv == IInv /\ [Next]_vars => IInv'
<1> SUFFICES ASSUME IInv, [Next]_vars PROVE IInv'
  OBVIOUS
<1>1. SubsOK
  BY DEF IInv, TypeOK
<1>2. ASSUME NEW kim \in Kims, NEW task \in Tasks, NEW user \in Users,
             NEW time \in 1..MaxSubs, Insert(kim, task, user, time)
      PROVE  IInv'
  <2>1. SubsOK' /\ SubsGrow
    BY <1>1, <1>2, InsertGrows
  <2>2. UNCHANGED <<selected, syncTag, requests, table, troubled>>
    BY <1>2 DEF Insert
  <2> QED
    BY <2>1, <2>2, SubsStepIInv
<1>3. ASSUME NEW id \in Ids, CommitInsert(id) PROVE IInv'
  <2>1. SubsOK' /\ SubsGrow
    BY <1>1, <1>3, CommitGrows
  <2>2. UNCHANGED <<selected, syncTag, requests, table, troubled>>
    BY <1>3 DEF CommitInsert
  <2> QED
    BY <2>1, <2>2, SubsStepIInv
<1>4. ASSUME NEW kim \in Kims \cup {NoKim}, Change(kim) PROVE IInv'
  BY <1>4, ChangeIInv
<1>5. CASE AutomaticUpdate
  BY <1>5, AutomaticUpdateIInv
<1>6. ASSUME NEW i \in DOMAIN requests, Serve(i) \/ Fail(i) \/ Receive(i) PROVE IInv'
  BY <1>6, ServeIInv, FailIInv, ReceiveIInv
<1>7. CASE UNCHANGED vars
  BY <1>7 DEF vars, IInv, TypeOK, SubsOK, RequestsOK, TableOK, Ids, TagsAreSound,
              ResponsesAnswer, PageFollows, TableFollows
<1> QED
  BY <1>2, <1>3, <1>4, <1>5, <1>6, <1>7 DEF Next

LEMMA Invariance == Spec => []IInv
BY InitIInv, NextIInv, PTL DEF Spec

\* When the page has its answers, nothing but the selected kim is shown.
LEMMA SettledFollows == IInv /\ Settled => TableFollows
<1> SUFFICES ASSUME IInv, Settled PROVE TableFollows
  OBVIOUS
<1>1. Len(requests) = 0
  BY DEF Settled
<1>2. 0..Len(requests) = {0}
  BY <1>1
<1> QED
  BY <1>2 DEF Settled, IInv, PageFollows

\* However requests of reallyUpdateStandings for several selections were mixed, the
\* table ends up that of the selected kim, if none overtook another.
THEOREM TableFollowsSelection == Spec => []TableIsOfSelection
<1>1. IInv => TableIsOfSelection
  BY SettledFollows DEF TableIsOfSelection, TableFollows
<1> QED
  BY <1>1, Invariance, PTL

\* The sync tag leaves no hole: every submission below it that was not late is in
\* the table, or one with a greater id or a later time is in its place.
THEOREM NoHoleBelowTag == Spec => []NothingMissing
<1>1. IInv => NothingMissing
  <2> SUFFICES ASSUME IInv, Settled, NEW id \in Committed(selected) \ late, id < syncTag,
                      NEW shown, shown = Cell(table.cells, id)
               PROVE  shown # 0 /\ ~(shown < id /\ subs[shown].time < subs[id].time)
    BY DEF NothingMissing
  <2>1. id \in Old(subs, late, selected, syncTag)
    BY DEF Old, Visible, Committed, Ids
  <2>2. Covers(subs, late, table.cells, selected, syncTag)
    BY SettledFollows DEF TableFollows
  <2> QED
    BY <2>1, <2>2 DEF Covers, Cell
<1> QED
  BY <1>1, Invariance, PTL

\* The tags of the page and of get_standings are never ahead of the installation: they
\* are at most 1, or one more than the id of a submission that is visible.
THEOREM TagsStaySound == Spec => []TagsAreSound
<1>1. IInv => TagsAreSound
  BY DEF IInv
<1> QED
  BY <1>1, Invariance, PTL

-----------------------------------------------------------------------------
(***************************************************************************)
(* Sums over finite sets                                                   *)
(***************************************************************************)

\* Of the subsets of a finite set that are in B one has none of the others in it.
LEMMA SmallestSubset ==
  ASSUME NEW S, IsFiniteSet(S), NEW B \in SUBSET SUBSET S, B # {}
  PROVE  \E T \in B : \A U \in B : U \subseteq T => U = T
<1> DEFINE less == StrictSubsetOrdering(S)
<1>1. IsWellFoundedOn(less, SUBSET S)
  BY FS_FiniteSubsetsOfFinite, FS_StrictSubsetOrderingWellFounded
<1>2. \A T, U \in SUBSET S : U \subseteq T /\ U # T => <<U, T>> \in less
  <2> TAKE T, U \in SUBSET S
  <2> HAVE U \subseteq T /\ U # T
  <2>1. <<U, T>> \in (SUBSET S) \X (SUBSET S) /\ <<U, T>>[1] = U /\ <<U, T>>[2] = T
    OBVIOUS
  <2> QED
    BY <2>1, Zenon DEF StrictSubsetOrdering
<1> HIDE DEF less
<1>3. PICK T \in B : \A U \in B : <<U, T>> \notin less
  BY <1>1, WFMin, Zenon
<1> QED
  BY <1>2, <1>3

\* The sums of f over the subsets of S, each by way of a chosen element.
Chosen(T) == CHOOSE x \in T : TRUE
SumsBy(sum, f, S) ==
  sum = [T \in SUBSET S |-> IF T = {} THEN 0 ELSE f[Chosen(T)] + sum[T \ {Chosen(T)}]]

LEMMA ChosenIsElement == \A T : T # {} => Chosen(T) \in T
BY DEF Chosen

\* There are such sums, because there are those of up to n elements for every n.
LEMMA SumsExist ==
  ASSUME NEW S, IsFiniteSet(S), NEW f
  PROVE  \E sum : SumsBy(sum, f, S)
<1> DEFINE Step(sum, T) == IF T = {} THEN 0 ELSE f[Chosen(T)] + sum[T \ {Chosen(T)}]
           UpTo(n) == \E sum : /\ DOMAIN sum = SUBSET S /\ sum = [T \in SUBSET S |-> sum[T]]
                               /\ \A T \in SUBSET S : Cardinality(T) <= n => sum[T] = Step(sum, T)
           B == {T \in SUBSET S : ~UpTo(Cardinality(T))}
<1>1. \A T \in SUBSET S : IsFiniteSet(T) /\ Cardinality(T) \in Nat /\ Cardinality(T) <= Cardinality(S)
  BY FS_Subset, FS_CardinalityType
<1>2. B = {}
  <2> SUFFICES ASSUME B # {} PROVE FALSE
    OBVIOUS
  <2> HIDE DEF UpTo
  <2>1. PICK T \in B : \A U \in B : U \subseteq T => U = T
    <3>1. B \in SUBSET SUBSET S
      OBVIOUS
    <3> HIDE DEF B
    <3> QED
      BY <3>1, SmallestSubset
  <2>2. T \in SUBSET S /\ ~UpTo(Cardinality(T))
    OBVIOUS
  <2>3. T # {}
    <3>1. UpTo(0)
      <4> DEFINE sum == [U \in SUBSET S |-> 0]
      <4>1. \A U \in SUBSET S : Cardinality(U) <= 0 => U = {}
        BY <1>1, FS_EmptySet
      <4>2. \A U \in SUBSET S : Cardinality(U) <= 0 => sum[U] = Step(sum, U)
        BY <4>1
      <4>3. DOMAIN sum = SUBSET S /\ sum = [U \in SUBSET S |-> sum[U]]
        OBVIOUS
      <4> HIDE DEF sum
      <4> QED
        BY <4>2, <4>3 DEF UpTo
    <3> QED
      BY <2>2, <3>1, FS_EmptySet
  <2>4. PICK x \in T : TRUE
    BY <2>3
  <2>5. PICK n \in Nat : Cardinality(T \ {x}) = n /\ Cardinality(T) = n + 1
    <3>1. Cardinality(T \ {x}) = Cardinality(T) - 1 /\ Cardinality(T \ {x}) \in Nat
      BY <1>1, <2>2, FS_RemoveElement
    <3> QED
      BY <1>1, <2>2, <3>1
  <2>6. UpTo(n)
    <3>1. T \ {x} \in SUBSET S /\ T \ {x} \subseteq T /\ T \ {x} # T
      BY <2>2
    <3>2. T \ {x} \notin B
      BY <2>1, <3>1
    <3> QED
      BY <2>5, <3>1, <3>2
  <2>7. PICK sum :
          /\ DOMAIN sum = SUBSET S
          /\ \A U \in SUBSET S : Cardinality(U) <= n => sum[U] = Step(sum, U)
    BY <2>6 DEF UpTo
  <2>8. UpTo(n + 1)
    <3> DEFINE more == [U \in SUBSET S |-> IF Cardinality(U) <= n THEN sum[U] ELSE Step(sum, U)]
    <3>1. \A U \in SUBSET S : more[U] = Step(sum, U)
      BY <2>7
    <3>2. DOMAIN more = SUBSET S /\ more = [U \in SUBSET S |-> more[U]]
      OBVIOUS
    <3>3. \A U \in SUBSET S : Cardinality(U) <= n => more[U] = sum[U]
      OBVIOUS
    <3> HIDE DEF more
    <3>4. ASSUME NEW U \in SUBSET S, Cardinality(U) <= n + 1
          PROVE  more[U] = Step(more, U)
      <4>1. CASE U = {}
        BY <3>1, <4>1
      <4>2. CASE U # {}
        <5>1. Chosen(U) \in U
          BY <4>2, ChosenIsElement
        <5>2. U \ {Chosen(U)} \in SUBSET S /\ Cardinality(U \ {Chosen(U)}) = Cardinality(U) - 1
          BY <1>1, <5>1, FS_RemoveElement
        <5>3. Cardinality(U \ {Chosen(U)}) <= n
          BY <1>1, <3>4, <5>2
        <5>4. more[U \ {Chosen(U)}] = sum[U \ {Chosen(U)}]
          BY <3>3, <5>2, <5>3
        <5> QED
          BY <3>1, <4>2, <5>4
      <4> QED
        BY <4>1, <4>2
    <3> QED
      BY <3>2, <3>4 DEF UpTo
  <2> QED
    BY <2>2, <2>5, <2>8
<1>3. S \notin B
  BY <1>2
<1>4. UpTo(Cardinality(S))
  BY <1>3
<1>5. PICK sum : /\ sum = [T \in SUBSET S |-> sum[T]]
                 /\ \A T \in SUBSET S : Cardinality(T) <= Cardinality(S) => sum[T] = Step(sum, T)
  BY <1>4
<1>6. \A T \in SUBSET S : sum[T] = Step(sum, T)
  BY <1>1, <1>5
<1>7. sum = [T \in SUBSET S |-> Step(sum, T)]
  BY <1>5, <1>6
<1> QED
  BY <1>7 DEF SumsBy

\* sum has the sums of f over the subsets of S, whatever element is added last.
Sums(sum, f, S) ==
  /\ sum \in [SUBSET S -> Int] /\ sum[{}] = 0
  /\ \A T \in SUBSET S : \A x \in T : sum[T] = f[x] + sum[T \ {x}]

\* Every element may be the one that is added last.
LEMMA SumsOfSubsets ==
  ASSUME NEW S, IsFiniteSet(S), NEW f \in [S -> Int], NEW sum, SumsBy(sum, f, S)
  PROVE  Sums(sum, f, S)
<1>1. /\ DOMAIN sum = SUBSET S /\ sum = [T \in SUBSET S |-> sum[T]]
      /\ \A T \in SUBSET S :
           sum[T] = IF T = {} THEN 0 ELSE f[Chosen(T)] + sum[T \ {Chosen(T)}]
  BY DEF SumsBy
<1>2. \A T \in SUBSET S : T # {} => /\ Chosen(T) \in T /\ f[Chosen(T)] \in Int
                                    /\ T \ {Chosen(T)} \in SUBSET S /\ T \ {Chosen(T)} # T
  BY ChosenIsElement
<1>3. \A T \in SUBSET S : sum[T] \in Int
  <2> DEFINE B == {T \in SUBSET S : sum[T] \notin Int}
  <2> SUFFICES ASSUME B # {} PROVE FALSE
    OBVIOUS
  <2>1. PICK T \in B : \A U \in B : U \subseteq T => U = T
    <3>1. B \in SUBSET SUBSET S
      OBVIOUS
    <3> HIDE DEF B
    <3> QED
      BY <3>1, SmallestSubset
  <2>2. CASE T = {}
    <3>1. sum[T] = 0
      BY <1>1, <2>2
    <3> QED
      BY <3>1
  <2>3. CASE T # {}
    <3>1. T \ {Chosen(T)} \notin B
      BY <1>2, <2>1, <2>3
    <3>2. sum[T \ {Chosen(T)}] \in Int
      BY <1>2, <2>3, <3>1
    <3> QED
      BY <1>1, <1>2, <2>3, <3>2
  <2> QED
    BY <2>2, <2>3
<1>4. \A T \in SUBSET S : \A x \in T : sum[T] = f[x] + sum[T \ {x}]
  <2> DEFINE B == {T \in SUBSET S : \E x \in T : sum[T] # f[x] + sum[T \ {x}]}
  <2> SUFFICES ASSUME B # {} PROVE FALSE
    OBVIOUS
  <2>1. PICK T \in B : \A U \in B : U \subseteq T => U = T
    <3>1. B \in SUBSET SUBSET S
      OBVIOUS
    <3> HIDE DEF B
    <3> QED
      BY <3>1, SmallestSubset
  <2>2. PICK x \in T : sum[T] # f[x] + sum[T \ {x}]
    OBVIOUS
  <2>3. PICK c \in T : c = Chosen(T) /\ sum[T] = f[c] + sum[T \ {c}]
    BY <1>1, <1>2
  <2>4. x # c
    BY <2>2, <2>3
  <2>5. PICK U, V, W : U = T \ {c} /\ V = T \ {x} /\ W = (T \ {c}) \ {x} /\ W = (T \ {x}) \ {c}
    OBVIOUS
  <2>6. /\ U \in SUBSET S /\ V \in SUBSET S /\ W \in SUBSET S
        /\ U \notin B /\ V \notin B /\ x \in U /\ c \in V
    BY <2>1, <2>4, <2>5
  <2>7. sum[U] = f[x] + sum[W] /\ sum[V] = f[c] + sum[W]
    BY <2>5, <2>6
  <2>8. f[x] \in Int /\ f[c] \in Int /\ sum[W] \in Int
    BY <1>3, <2>6
  <2>9. sum[T] = f[c] + sum[U] /\ sum[T] # f[x] + sum[V]
    BY <2>2, <2>3, <2>5
  <2> HIDE DEF B
  <2> QED
    BY <2>7, <2>8, <2>9
<1> QED
  BY <1>1, <1>3, <1>4 DEF Sums

\* What no element adds anything to is 0.
LEMMA NothingAdded ==
  ASSUME NEW S, IsFiniteSet(S), NEW F, F[{}] = 0,
         \A T \in SUBSET S : \A x \in T : F[T] = F[T \ {x}]
  PROVE  F[S] = 0
<1> DEFINE B == {T \in SUBSET S : F[T] # 0}
<1> SUFFICES ASSUME B # {} PROVE FALSE
  OBVIOUS
<1>1. PICK T \in B : \A U \in B : U \subseteq T => U = T
  <2>1. B \in SUBSET SUBSET S
    OBVIOUS
  <2> HIDE DEF B
  <2> QED
    BY <2>1, SmallestSubset
<1>2. PICK x \in T : TRUE
  OBVIOUS
<1>3. T \ {x} \notin B
  BY <1>1, <1>2
<1> QED
  BY <1>2, <1>3

\* What TotalsAddUp and Gained add up.
RowTotal(row) == MapThenSumSet(LAMBDA t : row[t], Tasks)

LEMMA RowTotalIsSum ==
  ASSUME IsFiniteSet(Tasks), NEW row \in [Tasks -> Int]
  PROVE  \E sum : Sums(sum, row, Tasks) /\ RowTotal(row) = sum[Tasks]
<1>1. PICK sum : sum = CHOOSE h : SumsBy(h, row, Tasks)
  OBVIOUS
<1>2. SumsBy(sum, row, Tasks)
  BY <1>1, SumsExist, Zenon
<1>3. RowTotal(row) = sum[Tasks]
  BY <1>1 DEF RowTotal, MapThenSumSet, MapThenFoldSet, SumsBy, Chosen
<1>4. Sums(sum, row, Tasks)
  BY <1>2, SumsOfSubsets
<1> QED
  BY <1>3, <1>4

\* The submissions of a user, and what each adds.
ShownOf(shown, u) == {id \in shown : subs[id].user = u}
GainOf(scores, T) == [id \in T |-> id - Cell(scores, id)]

LEMMA GainedIsSum ==
  ASSUME NEW scores, NEW shown, NEW u, IsFiniteSet(ShownOf(shown, u)),
         GainOf(scores, ShownOf(shown, u)) \in [ShownOf(shown, u) -> Int]
  PROVE  \E sum : /\ Sums(sum, GainOf(scores, ShownOf(shown, u)), ShownOf(shown, u))
                  /\ Gained(scores, shown, u) = sum[ShownOf(shown, u)]
<1> PICK T, gain : T = ShownOf(shown, u) /\ gain = GainOf(scores, T)
  OBVIOUS
<1> DEFINE By(h) == h = [U \in SUBSET T |->
               IF U = {} THEN 0
               ELSE (CHOOSE x \in U : TRUE) - Cell(scores, CHOOSE x \in U : TRUE)
                    + h[U \ {CHOOSE x \in U : TRUE}]]
<1>1. ASSUME NEW h PROVE By(h) <=> SumsBy(h, gain, T)
  <2>1. \A U \in SUBSET T : U # {} =>
          gain[Chosen(U)] = Chosen(U) - Cell(scores, Chosen(U))
    BY ChosenIsElement DEF GainOf
  <2>2. \A U \in SUBSET T :
          (IF U = {} THEN 0 ELSE gain[Chosen(U)] + h[U \ {Chosen(U)}])
          = IF U = {} THEN 0 ELSE Chosen(U) - Cell(scores, Chosen(U)) + h[U \ {Chosen(U)}]
    BY <2>1
  <2>3. [U \in SUBSET T |-> IF U = {} THEN 0 ELSE gain[Chosen(U)] + h[U \ {Chosen(U)}]]
        = [U \in SUBSET T |-> IF U = {} THEN 0
                             ELSE Chosen(U) - Cell(scores, Chosen(U)) + h[U \ {Chosen(U)}]]
    BY <2>2
  <2> QED
    BY <2>3 DEF SumsBy, Chosen
<1>2. \E h : By(h)
  <2>1. \E h : SumsBy(h, gain, T)
    BY SumsExist
  <2> HIDE DEF By
  <2> QED
    BY <1>1, <2>1
<1>3. PICK sum : sum = CHOOSE h : By(h)
  OBVIOUS
<1>4. By(sum)
  <2> HIDE DEF By
  <2> QED
    BY <1>2, <1>3, Zenon
<1>5. Gained(scores, shown, u) = sum[T]
  BY <1>3 DEF Gained, ShownOf, MapThenSumSet, MapThenFoldSet
<1>6. SumsBy(sum, gain, T)
  <2> HIDE DEF By
  <2> QED
    BY <1>1, <1>4
<1>7. Sums(sum, gain, T)
  BY <1>6, SumsOfSubsets
<1> QED
  BY <1>5, <1>7

\* Showing submissions changes the total of a row by what it gains.
LEMMA ScoredAddsUp ==
  ASSUME SubsOK, IsFiniteSet(Tasks), NEW scores \in [Users -> [Tasks -> Int]],
         NEW shown \in SUBSET Ids, \A a, b \in shown : SameCell(subs, a, b) => a = b,
         NEW filled, filled = Fill(scores, shown), NEW u \in Users
  PROVE  /\ filled[u] \in [Tasks -> Int] /\ Gained(scores, shown, u) \in Int
         /\ RowTotal(scores[u]) \in Int
         /\ RowTotal(filled[u]) = RowTotal(scores[u]) + Gained(scores, shown, u)
<1> DEFINE Of(t) == {id \in shown : subs[id].user = u /\ subs[id].task = t}
<1>1. PICK T, old, new, gain :
        /\ T = ShownOf(shown, u) /\ gain = GainOf(scores, T)
        /\ old = scores[u] /\ new = filled[u]
  OBVIOUS
<1>2. \A id \in shown : id \in Int /\ subs[id].task \in Tasks /\ id \in Ids
  BY SubsFields
<1>3. IsFiniteSet(T)
  <2>1. Ids = 1..Len(subs) /\ Len(subs) \in Int
    BY SubsFields
  <2> QED
    <3>1. IsFiniteSet(Ids)
      BY <2>1, FS_Interval
    <3>2. T \in SUBSET Ids
      BY <1>1 DEF ShownOf
    <3> QED
      BY <3>1, <3>2, FS_Subset
<1>4. old \in [Tasks -> Int] /\ gain \in [T -> Int]
      /\ \A id \in T : gain[id] = id - old[subs[id].task]
  <2>1. old \in [Tasks -> Int]
    BY <1>1
  <2>2. \A id \in T : Cell(scores, id) = old[subs[id].task] /\ id \in Int /\ subs[id].task \in Tasks
    BY <1>1, <1>2 DEF Cell, ShownOf
  <2>3. \A id \in T : id - Cell(scores, id) \in Int
    BY <2>1, <2>2
  <2> QED
    BY <1>1, <2>1, <2>2, <2>3 DEF GainOf
<1>5. \A t \in Tasks : new[t] = IF Of(t) = {} THEN old[t] ELSE CHOOSE id \in Of(t) : TRUE
  BY <1>1 DEF Fill
<1>6. DOMAIN new = Tasks /\ new = [t \in Tasks |-> new[t]]
  BY <1>1 DEF Fill
<1>7. ASSUME NEW id \in T PROVE new[subs[id].task] = id
  <2>1. id \in shown /\ subs[id].user = u /\ subs[id].task \in Tasks
    BY <1>1, <1>2 DEF ShownOf
  <2>2. \A x \in Of(subs[id].task) : x = id
    BY <2>1 DEF SameCell
  <2>3. id \in Of(subs[id].task)
    BY <2>1
  <2> QED
    BY <1>5, <2>1, <2>2, <2>3
<1>8. ASSUME NEW t \in Tasks, \A id \in T : subs[id].task # t PROVE new[t] = old[t]
  <2>1. Of(t) = {}
    BY <1>1, <1>8 DEF ShownOf
  <2> QED
    BY <1>5, <2>1
<1>9. new \in [Tasks -> Int]
  <2>1. ASSUME NEW t \in Tasks PROVE new[t] \in Int
    <3>1. CASE \E id \in T : subs[id].task = t
      BY <1>1, <1>2, <1>7, <3>1 DEF ShownOf
    <3>2. CASE \A id \in T : subs[id].task # t
      BY <1>4, <1>8, <3>2
    <3> QED
      BY <3>1, <3>2
  <2> QED
    BY <1>6, <2>1
<1> HIDE DEF Of
<1>10. PICK before : Sums(before, old, Tasks) /\ RowTotal(old) = before[Tasks]
  BY <1>4, RowTotalIsSum
<1>11. PICK after : Sums(after, new, Tasks) /\ RowTotal(new) = after[Tasks]
  BY <1>9, RowTotalIsSum
<1>12. PICK gained : Sums(gained, gain, T) /\ Gained(scores, shown, u) = gained[T]
  BY <1>1, <1>3, <1>4, GainedIsSum
<1>13. /\ before \in [SUBSET Tasks -> Int] /\ after \in [SUBSET Tasks -> Int]
       /\ gained \in [SUBSET T -> Int]
       /\ before[{}] = 0 /\ after[{}] = 0 /\ gained[{}] = 0
  BY <1>10, <1>11, <1>12 DEF Sums
<1> DEFINE In(R) == {id \in T : subs[id].task \in R}
           left == [R \in SUBSET Tasks |-> after[R] - before[R] - gained[In(R)]]
<1>14. ASSUME NEW R \in SUBSET Tasks, NEW t \in R PROVE left[R] = left[R \ {t}]
  <2>1. PICK Q : Q = R \ {t} /\ Q \in SUBSET Tasks /\ t \in Tasks
    OBVIOUS
  <2>2. after[R] = new[t] + after[Q] /\ before[R] = old[t] + before[Q]
    BY <1>10, <1>11, <2>1 DEF Sums
  <2>3. In(R) \in SUBSET T /\ In(Q) \in SUBSET T
    OBVIOUS
  <2>4. gained[In(R)] = gained[In(Q)] + new[t] - old[t]
    <3>1. CASE \E id \in T : subs[id].task = t
      <4>1. PICK id \in T : subs[id].task = t
        BY <3>1
      <4>2. \A x \in T : subs[x].task = t => x = id
        BY <1>7, <4>1
      <4>3. id \in In(R) /\ In(Q) = In(R) \ {id}
        BY <2>1, <4>1, <4>2
      <4>4. gained[In(R)] = gain[id] + gained[In(Q)]
        <5> HIDE DEF In
        <5> QED
          BY <1>12, <2>3, <4>3 DEF Sums
      <4>5. gain[id] = new[t] - old[t]
        BY <1>4, <1>7, <4>1
      <4>6. gained[In(Q)] \in Int /\ new[t] \in Int /\ old[t] \in Int
        BY <1>4, <1>9, <1>13, <2>1, <2>3
      <4> HIDE DEF In
      <4> QED
        BY <4>4, <4>5, <4>6
    <3>2. CASE \A id \in T : subs[id].task # t
      <4>1. In(Q) = In(R) /\ new[t] = old[t]
        BY <1>8, <2>1, <3>2
      <4>2. gained[In(R)] \in Int /\ new[t] \in Int
        BY <1>9, <1>13, <2>1, <2>3
      <4> HIDE DEF In
      <4> QED
        BY <4>1, <4>2
    <3> QED
      BY <3>1, <3>2
  <2>5. /\ after[Q] \in Int /\ before[Q] \in Int /\ gained[In(Q)] \in Int
        /\ new[t] \in Int /\ old[t] \in Int
    BY <1>4, <1>9, <1>13, <2>1, <2>3
  <2>6. /\ left[R] = after[R] - before[R] - gained[In(R)]
        /\ left[Q] = after[Q] - before[Q] - gained[In(Q)]
    BY <2>1
  <2> HIDE DEF In, left
  <2> QED
    BY <2>1, <2>2, <2>4, <2>5, <2>6
<1>15. left[{}] = 0
  <2>1. In({}) = {}
    OBVIOUS
  <2>2. left[{}] = after[{}] - before[{}] - gained[In({})]
    OBVIOUS
  <2> HIDE DEF In, left
  <2>3. gained[In({})] = 0
    BY <1>13, <2>1
  <2> QED
    BY <1>13, <2>2, <2>3
<1>16. left[Tasks] = 0
  <2> HIDE DEF left
  <2> QED
    BY <1>14, <1>15, NothingAdded
<1>17. In(Tasks) = T
  BY <1>1, <1>2 DEF ShownOf
<1>18. after[Tasks] - before[Tasks] - gained[T] = 0
  <2>1. left[Tasks] = after[Tasks] - before[Tasks] - gained[In(Tasks)]
    OBVIOUS
  <2> HIDE DEF In, left
  <2> QED
    BY <1>16, <1>17, <2>1
<1>19. after[Tasks] \in Int /\ before[Tasks] \in Int /\ gained[T] \in Int
  BY <1>13
<1> HIDE DEF In, left
<1>20. /\ RowTotal(scores[u]) = before[Tasks] /\ RowTotal(filled[u]) = after[Tasks]
       /\ Gained(scores, shown, u) = gained[T]
  BY <1>1, <1>10, <1>11, <1>12
<1>21. filled[u] \in [Tasks -> Int]
  BY <1>1, <1>9
<1> QED
  BY <1>18, <1>19, <1>20, <1>21

-----------------------------------------------------------------------------
(***************************************************************************)
(* The totals                                                              *)
(***************************************************************************)

\* At most one submission for each user and task.
Apart(s, shown) == \A a, b \in shown : SameCell(s, a, b) => a = b

\* Submissions are told apart by their times: UserAnswers takes one of each cell.
TimesDiffer == \A a, b \in Ids : subs[a].time = subs[b].time => a = b

AnswersApart == \A i \in DOMAIN requests : Apart(subs, requests[i].response.subs)

\* Scores and totals of which only the latter are sums of the former.
AddsUp(scores, total) ==
  scores \in [Users -> [Tasks -> Int]] /\ total = [u \in Users |-> RowTotal(scores[u])]

SumInv == TimesDiffer /\ AnswersApart /\ AddsUp(table.scores, table.total)

LEMMA FiniteTasks == IsFiniteSet(Tasks)
BY StandingsAssumption DEF StandingsAssumption

LEMMA EmptyAddsUp == AddsUp(NoScores, [u \in Users |-> 0])
<1> DEFINE row == [t \in Tasks |-> 0]
<1>1. row \in [Tasks -> Int]
  OBVIOUS
<1>2. PICK sum : Sums(sum, row, Tasks) /\ RowTotal(row) = sum[Tasks]
  <2> HIDE DEF row
  <2> QED
    BY <1>1, FiniteTasks, RowTotalIsSum
<1>3. \A T \in SUBSET Tasks : \A t \in T : sum[T] = sum[T \ {t}]
  <2> TAKE T \in SUBSET Tasks
  <2> TAKE t \in T
  <2>1. sum[T] = row[t] + sum[T \ {t}] /\ row[t] = 0 /\ sum[T \ {t}] \in Int
    BY <1>2 DEF Sums
  <2> HIDE DEF row
  <2> QED
    BY <2>1
<1>4. RowTotal(row) = 0
  BY <1>2, <1>3, FiniteTasks, NothingAdded DEF Sums
<1>5. NoScores \in [Users -> [Tasks -> Int]] /\ \A u \in Users : NoScores[u] = row
  BY DEF NoScores
<1> HIDE DEF row
<1>6. [u \in Users |-> 0] = [u \in Users |-> RowTotal(NoScores[u])]
  BY <1>4, <1>5
<1> QED
  BY <1>5, <1>6 DEF AddsUp

\* Showing submissions of different cells keeps the totals.
LEMMA ShowingAddsUp ==
  ASSUME SubsOK, NEW scores, NEW total, AddsUp(scores, total),
         NEW shown \in SUBSET Ids, Apart(subs, shown)
  PROVE  AddsUp(Fill(scores, shown), [u \in Users |-> total[u] + Gained(scores, shown, u)])
<1>1. PICK filled, gained :
        filled = Fill(scores, shown) /\ gained = [u \in Users |-> Gained(scores, shown, u)]
  OBVIOUS
<1>2. scores \in [Users -> [Tasks -> Int]] /\ total = [u \in Users |-> RowTotal(scores[u])]
  BY DEF AddsUp
<1>3. \A a, b \in shown : SameCell(subs, a, b) => a = b
  BY DEF Apart
<1>4. \A u \in Users :
        /\ filled[u] \in [Tasks -> Int]
        /\ RowTotal(filled[u]) = RowTotal(scores[u]) + Gained(scores, shown, u)
  BY <1>1, <1>2, <1>3, FiniteTasks, ScoredAddsUp
<1>5. filled \in [Users -> [Tasks -> Int]]
  <2>1. DOMAIN filled = Users /\ filled = [u \in Users |-> filled[u]]
    BY <1>1 DEF Fill
  <2> QED
    BY <1>4, <2>1
<1>6. [u \in Users |-> total[u] + Gained(scores, shown, u)]
      = [u \in Users |-> RowTotal(filled[u])]
  BY <1>2, <1>4
<1> QED
  BY <1>1, <1>5, <1>6 DEF AddsUp

LEMMA SubsStepSumInv ==
  ASSUME IInv, SumInv, SubsOK', SubsGrow, TimesDiffer', UNCHANGED <<requests, table>>
  PROVE  SumInv'
<1>1. SubsOK /\ RequestsOK
  BY DEF IInv, TypeOK
<1>2. ASSUME NEW i \in DOMAIN requests'
      PROVE  Apart(subs', requests'[i].response.subs)
  <2>1. requests' = requests /\ AnswerOK(subs, requests[i])
        /\ Apart(subs, requests[i].response.subs)
    BY <1>1, <1>2, RequestFields DEF SumInv, AnswersApart
  <2>2. \A id \in requests[i].response.subs : id \in Ids
    BY <2>1 DEF AnswerOK, Visible, Ids
  <2> QED
    BY <2>1, <2>2 DEF Apart, SameCell, SubsGrow
<1> QED
  BY <1>2 DEF SumInv, AnswersApart

LEMMA InsertSumInv ==
  ASSUME IInv, SumInv, NEW kim \in Kims, NEW task \in Tasks, NEW user \in Users,
         NEW time \in 1..MaxSubs, Insert(kim, task, user, time)
  PROVE  SumInv'
<1>1. SubsOK /\ SubsOK' /\ SubsGrow
  BY InsertGrows DEF IInv, TypeOK
<1>2. PICK new : /\ new = [kim |-> kim, task |-> task, user |-> user, time |-> time,
                           committed |-> FALSE]
  OBVIOUS
<1>3. /\ subs' = Append(subs, new) /\ \A id \in Ids : subs[id].time # time
      /\ UNCHANGED <<requests, table>>
  BY <1>2 DEF Insert
<1>4. subs \in Seq(Submission) /\ Ids = 1..Len(subs) /\ Len(subs) \in Nat
  BY <1>1, SubsFields DEF SubsOK
<1>5. new \in Submission /\ new.time = time
  BY <1>2, StandingsAssumption DEF Submission, StandingsAssumption
<1>6. /\ Len(subs') = Len(subs) + 1
      /\ \A id \in 1..Len(subs) : subs'[id] = subs[id]
      /\ subs'[Len(subs) + 1] = new
  BY <1>3, <1>4, <1>5, AppendProperties
<1>7. \A id \in Ids' : id \in Ids \/ id = Len(subs) + 1
  BY <1>4, <1>6 DEF Ids
<1>8. TimesDiffer'
  <2> SUFFICES ASSUME NEW a \in Ids', NEW b \in Ids', subs'[a].time = subs'[b].time
               PROVE  a = b
    BY DEF TimesDiffer
  <2>1. \A id \in Ids : subs'[id].time = subs[id].time /\ subs[id].time # time
    BY <1>3, <1>4, <1>6
  <2>2. subs'[Len(subs) + 1].time = time
    BY <1>5, <1>6
  <2> QED
    BY <1>7, <2>1, <2>2 DEF SumInv, TimesDiffer
<1> QED
  BY <1>1, <1>3, <1>8, SubsStepSumInv

LEMMA CommitSumInv ==
  ASSUME IInv, SumInv, NEW id \in Ids, CommitInsert(id)
  PROVE  SumInv'
<1>1. SubsOK /\ SubsOK' /\ SubsGrow
  BY CommitGrows DEF IInv, TypeOK
<1>2. subs' = [subs EXCEPT ![id].committed = TRUE] /\ UNCHANGED <<requests, table>>
  BY DEF CommitInsert
<1>3. Ids' = Ids
  <2>1. subs \in Seq(Submission) /\ Ids = 1..Len(subs) /\ DOMAIN subs = 1..Len(subs)
        /\ Len(subs) \in Nat
    BY <1>1, SubsFields, LenProperties DEF SubsOK
  <2>2. [subs[id] EXCEPT !.committed = TRUE] \in Submission
    <3>1. subs[id] \in Submission
      BY <1>1, SubsFields
    <3> QED
      BY <3>1 DEF Submission
  <2>3. Len(subs') = Len(subs)
    BY <1>2, <2>1, <2>2, ExceptSeq
  <2> QED
    BY <2>3 DEF Ids
<1>4. TimesDiffer'
  BY <1>1, <1>3 DEF TimesDiffer, SumInv, SubsGrow
<1> QED
  BY <1>1, <1>2, <1>4, SubsStepSumInv

LEMMA SendSumInv ==
  ASSUME IInv, SumInv, NEW kim \in Kims \cup {NoKim}, NEW tag \in Nat, ReallyUpdate(kim, tag),
         UNCHANGED <<subs, table>>
  PROVE  SumInv'
<1>1. requests \in Seq(Request) /\ DOMAIN requests = 1..Len(requests) /\ Len(requests) \in Nat
  BY RequestFields DEF IInv, TypeOK, RequestsOK
<1>2. AnswersApart'
  <2>1. CASE requests' = requests
    BY <2>1 DEF SumInv, AnswersApart
  <2>2. CASE kim # NoKim
    <3>1. PICK new : new = [kim |-> kim, tag |-> tag, response |-> NoResponse]
      OBVIOUS
    <3>2. new \in Request /\ new.response.subs = {}
      BY <2>2, <3>1 DEF Request, NoResponse
    <3>3. requests' = Append(requests, new)
      BY <2>2, <3>1 DEF ReallyUpdate
    <3>4. /\ requests' \in Seq(Request) /\ Len(requests') = Len(requests) + 1
          /\ \A j \in 1..Len(requests) : requests'[j] = requests[j]
          /\ requests'[Len(requests) + 1] = new
      BY <1>1, <3>2, <3>3, AppendProperties
    <3>5. DOMAIN requests' = 1..(Len(requests) + 1)
      BY <3>4, LenProperties
    <3>6. \A j \in DOMAIN requests' :
            \/ j \in DOMAIN requests /\ requests'[j] = requests[j]
            \/ requests'[j] = new
      BY <1>1, <3>4, <3>5
    <3> QED
      BY <3>2, <3>6 DEF SumInv, AnswersApart, Apart
  <2> QED
    BY <2>1, <2>2 DEF ReallyUpdate
<1> QED
  BY <1>2 DEF SumInv, TimesDiffer, Ids

LEMMA ServeSumInv ==
  ASSUME IInv, SumInv, NEW i \in DOMAIN requests, Serve(i)
  PROVE  SumInv'
<1>1. SubsOK /\ requests[i].kim \in Kims /\ requests[i].tag \in Nat /\ requests[i] \in Request
      /\ \A j \in DOMAIN requests : requests[j] \in Request
  BY RequestFields DEF IInv, TypeOK
<1>2. PICK found : found = UserAnswers(requests[i].kim, requests[i].tag)
  OBVIOUS
<1>3. PICK tag : requests' = [requests EXCEPT ![i].response = [subs |-> found, tag |-> tag]]
  BY <1>2 DEF Serve
<1>4. Apart(subs, found)
  <2> SUFFICES ASSUME NEW a \in found, NEW b \in found, SameCell(subs, a, b) PROVE a = b
    BY DEF Apart
  <2>1. a \in Ids /\ b \in Ids
    BY <1>2 DEF UserAnswers, Committed
  <2>2. subs[a].time <= subs[b].time /\ subs[b].time <= subs[a].time
    BY <1>2 DEF UserAnswers, SameCell
  <2>3. subs[a].time = subs[b].time
    <3>1. subs[a].time \in Nat /\ subs[b].time \in Nat
      BY <1>1, <2>1, SubsFields
    <3> QED
      BY <2>2, <3>1
  <2> QED
    BY <2>1, <2>3 DEF SumInv, TimesDiffer
<1>5. AnswersApart'
  <2>1. subs' = subs /\ DOMAIN requests' = DOMAIN requests
    BY <1>3 DEF Serve
  <2>2. \A j \in DOMAIN requests : j # i => requests'[j] = requests[j]
    BY <1>3
  <2>3. requests'[i].response.subs = found
    BY <1>1, <1>3 DEF Request
  <2> QED
    BY <1>4, <2>1, <2>2, <2>3 DEF SumInv, AnswersApart
<1> QED
  BY <1>5 DEF SumInv, TimesDiffer, Ids, Serve

LEMMA RemovalApart ==
  ASSUME IInv, SumInv, NEW i \in DOMAIN requests, requests' = RemoveAt(requests, i),
         subs' = subs
  PROVE  AnswersApart' /\ TimesDiffer'
<1>1. requests \in Seq(Request)
  BY DEF IInv, TypeOK, RequestsOK
<1>2. \A j \in DOMAIN requests' :
        Before(i, j) \in DOMAIN requests /\ requests'[j] = requests[Before(i, j)]
  BY <1>1, RemoveAtElements
<1> QED
  BY <1>2 DEF SumInv, AnswersApart, TimesDiffer, Ids

LEMMA ReceiveSumInv ==
  ASSUME IInv, SumInv, NEW i \in DOMAIN requests, Receive(i)
  PROVE  SumInv'
<1>1. SubsOK /\ TableOK /\ RequestsOK
  BY DEF IInv, TypeOK
<1> DEFINE request == requests[i]
           found == request.response.subs
           known == IF request.tag = 0 THEN Empty(request.kim) ELSE table
           fits == {id \in found : known.of # NoKim /\ subs[id].task \in TasksOf[known.of]}
<1>2. found \in SUBSET Ids /\ Apart(subs, found)
  BY <1>1, RequestFields DEF AnswerOK, Visible, Ids, SumInv, AnswersApart
<1>3. /\ DOMAIN known = {"of", "scores", "cells", "total"}
      /\ AddsUp(known.scores, known.total)
  <2>1. CASE request.tag = 0
    <3>1. known = Empty(request.kim)
      BY <2>1
    <3> HIDE DEF known
    <3>2. /\ DOMAIN known = {"of", "scores", "cells", "total"}
          /\ known.scores = NoScores /\ known.total = [u \in Users |-> 0]
      BY <3>1 DEF Empty
    <3> QED
      BY <3>2, EmptyAddsUp
  <2>2. CASE request.tag # 0
    <3>1. known = table
      BY <2>2
    <3> HIDE DEF known
    <3> QED
      BY <1>1, <3>1 DEF TableOK, SumInv
  <2> QED
    BY <2>1, <2>2
<1>4. /\ requests' = RemoveAt(requests, i) /\ subs' = subs
      /\ \/ table' = table
         \/ table' = [Scored(known, found) EXCEPT !.cells = Fill(@, found)]
         \/ \E before \in SUBSET fits : table' = Scored(known, before)
  BY DEF Receive
<1>5. fits \subseteq found
  OBVIOUS
<1> HIDE DEF known, found, fits
<1>6. ASSUME NEW shown \in SUBSET found, NEW scored, scored = Scored(known, shown)
      PROVE  /\ DOMAIN scored = {"of", "scores", "cells", "total"}
             /\ AddsUp(scored.scores, scored.total)
  <2> DEFINE scores == Fill(known.scores, shown)
             total == [u \in Users |-> known.total[u] + Gained(known.scores, shown, u)]
  <2>1. scored = [known EXCEPT !.scores = scores, !.total = total]
    BY <1>6 DEF Scored
  <2>2. AddsUp(scores, total)
    <3>1. shown \in SUBSET Ids /\ Apart(subs, shown)
      BY <1>2 DEF Apart
    <3> QED
      BY <1>1, <1>3, <3>1, ShowingAddsUp
  <2> HIDE DEF scores, total
  <2>3. /\ DOMAIN scored = {"of", "scores", "cells", "total"}
        /\ scored.scores = scores /\ scored.total = total
    BY <1>3, <2>1
  <2> QED
    BY <2>2, <2>3
<1>7. AddsUp(table'.scores, table'.total)
  <2>1. CASE table' = table
    BY <2>1 DEF SumInv
  <2>2. CASE table' = [Scored(known, found) EXCEPT !.cells = Fill(@, found)]
    <3>1. PICK scored, cells : /\ scored = Scored(known, found)
                               /\ table' = [scored EXCEPT !.cells = cells]
      BY <2>2
    <3>2. /\ DOMAIN scored = {"of", "scores", "cells", "total"}
          /\ AddsUp(scored.scores, scored.total)
      BY <1>6, <3>1
    <3>3. table'.scores = scored.scores /\ table'.total = scored.total
      BY <3>1, <3>2
    <3> QED
      BY <3>2, <3>3
  <2>3. ASSUME NEW before \in SUBSET fits, table' = Scored(known, before)
        PROVE  AddsUp(table'.scores, table'.total)
    BY <1>5, <1>6, <2>3
  <2> QED
    BY <1>4, <2>1, <2>2, <2>3
<1> QED
  BY <1>4, <1>7, RemovalApart DEF SumInv

LEMMA InitSumInv == Init => SumInv
<1> SUFFICES ASSUME Init PROVE SumInv
  OBVIOUS
<1>1. Len(subs) = 1
  BY DEF Init
<1>2. TimesDiffer
  BY <1>1 DEF TimesDiffer, Ids
<1>3. AnswersApart
  BY DEF Init, AnswersApart
<1>4. table.scores = NoScores /\ table.total = [u \in Users |-> 0]
  BY DEF Init, Empty
<1> QED
  BY <1>2, <1>3, <1>4, EmptyAddsUp DEF SumInv

LEMMA NextSumInv == IInv /\ SumInv /\ [Next]_vars => SumInv'
<1> SUFFICES ASSUME IInv, SumInv, [Next]_vars PROVE SumInv'
  OBVIOUS
<1>1. ASSUME NEW kim \in Kims, NEW task \in Tasks, NEW user \in Users,
             NEW time \in 1..MaxSubs, Insert(kim, task, user, time)
      PROVE  SumInv'
  BY <1>1, InsertSumInv
<1>2. ASSUME NEW id \in Ids, CommitInsert(id) PROVE SumInv'
  BY <1>2, CommitSumInv
<1>3. ASSUME NEW kim \in Kims \cup {NoKim}, Change(kim) PROVE SumInv'
  BY <1>3, SendSumInv DEF Change
<1>4. CASE AutomaticUpdate
  <2>1. selected \in Kims \cup {NoKim} /\ syncTag \in Nat
    BY DEF IInv, TypeOK
  <2> QED
    BY <1>4, <2>1, SendSumInv DEF AutomaticUpdate
<1>5. ASSUME NEW i \in DOMAIN requests, Serve(i) \/ Fail(i) \/ Receive(i) PROVE SumInv'
  <2>1. CASE Fail(i)
    BY <2>1, RemovalApart DEF Fail, SumInv
  <2> QED
    BY <1>5, <2>1, ServeSumInv, ReceiveSumInv
<1>6. CASE UNCHANGED vars
  BY <1>6 DEF vars, SumInv, TimesDiffer, AnswersApart, Ids
<1> QED
  BY <1>1, <1>2, <1>3, <1>4, <1>5, <1>6 DEF Next

\* However answers were shown, in part, twice or over each other, the total that
\* reallyUpdateStandings keeps by differences is the sum of the row.
THEOREM TotalsStayExact == Spec => []TotalsAddUp
<1>1. SumInv => TotalsAddUp
  BY DEF SumInv, AddsUp, TotalsAddUp, RowTotal
<1>2. Spec => []SumInv
  BY InitSumInv, NextSumInv, Invariance, PTL DEF Spec
<1> QED
  BY <1>1, <1>2, PTL
=============================================================================
