------------------------------ MODULE IdRanges ------------------------------
(***************************************************************************)
(* The ids an administrator's session may create objects with:             *)
(* handle_request_id_range (api/routes/user.cc) and session::is_owner_of   *)
(* (api/routes/session.cc).                                                *)
(*                                                                         *)
(* A session has a linked list of ranges.  Handlers of one session run on  *)
(* several worker threads and share the list without a lock, and a handler *)
(* is suspended while the database advances the sequence; each atomic      *)
(* operation is a step.  Every range begins at another value of the        *)
(* sequence, which names it here; `next` of a session is its id_ranges.    *)
(***************************************************************************)
EXTENDS Integers, FiniteSets

CONSTANTS Sessions,
          Handlers,
          MAX_IDS,    \* ids in one answer, at most
          MaxSeq,     \* bound of the model: last value of the sequence
          null

ASSUME IdAssumption ==
  /\ MAX_IDS \in Nat \ {0} /\ MaxSeq \in Nat
  /\ null \notin Nat /\ Sessions \cap Nat = {}

VARIABLES
  seq,         \* api_id_sequence.value
  end, ptr,    \* the fields of each range
  next,
  pc,          \* where a handler is
  who,         \* its session
  where,       \* whose `next` it is at
  current,     \* the range it has loaded or created
  block_len,
  created,     \* current is the range the handler has stored itself
  given        \* history: ids sent to the pages of a session

heap == <<end, ptr, next>>
local == <<pc, who, where, current, block_len, created>>
vars == <<seq, heap, local, given>>

-----------------------------------------------------------------------------
Starts == 0..MaxSeq - 1
Links == Sessions \cup Starts
Least(a, b) == IF a < b THEN a ELSE b

\* The ranges the list of s leads to; a range has at least two ids.
Chain(s) ==
  LET reach[k \in 0..MaxSeq \div 2] ==
        IF k = 0 THEN {s}
        ELSE LET closer == reach[k - 1]
             IN closer \cup ({next[n] : n \in closer} \ {null})
  IN reach[MaxSeq \div 2] \ {s}

\* The ids for which is_owner_of returns true.
Owned(s) == UNION {n..Least(ptr[n], end[n]) - 1 : n \in Chain(s)}

Init ==
  /\ seq = 0
  /\ end = [n \in Starts |-> 0] /\ ptr = [n \in Starts |-> 0]
  /\ next = [l \in Links |-> null]
  /\ pc = [h \in Handlers |-> "idle"]
  /\ who = [h \in Handlers |-> null] /\ where = [h \in Handlers |-> null]
  /\ current = [h \in Handlers |-> null]
  /\ block_len = [h \in Handlers |-> 2]
  /\ created = [h \in Handlers |-> FALSE]
  /\ given = [s \in Sessions |-> {}]

\* The handler has a connection and its session; the walk begins.
Request(h, s) ==
  /\ pc[h] = "idle"
  /\ pc' = [pc EXCEPT ![h] = "load"]
  /\ who' = [who EXCEPT ![h] = s]
  /\ where' = [where EXCEPT ![h] = s]
  /\ block_len' = [block_len EXCEPT ![h] = 2]
  /\ created' = [created EXCEPT ![h] = FALSE]
  /\ UNCHANGED <<seq, heap, current, given>>

\* where->load()
Load(h) ==
  /\ pc[h] = "load"
  /\ current' = [current EXCEPT ![h] = next[where[h]]]
  /\ pc' = [pc EXCEPT ![h] = IF next[where[h]] = null THEN "query" ELSE "test"]
  /\ UNCHANGED <<seq, heap, who, where, block_len, created, given>>

\* try_reserve has failed: on to the next range, or EXTREMELY_SORRY for the one
\* the handler created itself.
MoveOn(h) ==
  IF created[h]
    THEN /\ pc' = [pc EXCEPT ![h] = "idle"]
         /\ UNCHANGED <<where, block_len>>
    ELSE /\ pc' = [pc EXCEPT ![h] = "load"]
         /\ where' = [where EXCEPT ![h] = current[h]]
         /\ block_len' = [block_len EXCEPT ![h] = 2 * (end[current[h]] - current[h])]

\* try_reserve: range->ptr < range->end
Test(h) ==
  /\ pc[h] = "test"
  /\ IF ptr[current[h]] < end[current[h]]
       THEN pc' = [pc EXCEPT ![h] = "add"] /\ UNCHANGED <<where, block_len>>
       ELSE MoveOn(h)
  /\ UNCHANGED <<seq, heap, who, current, created, given>>

\* The answer with the ids from result on.
Answer(h, result, last) ==
  /\ pc' = [pc EXCEPT ![h] = "idle"]
  /\ given' = [given EXCEPT ![who[h]] = @ \cup result..last - 1]
  /\ UNCHANGED <<where, block_len>>

\* try_reserve: fetch_add, and the test of what it returned.
Reserve(h) ==
  LET n == current[h]
      result == ptr[n]
  IN
  /\ pc[h] = "add"
  /\ ptr' = [ptr EXCEPT ![n] = result + MAX_IDS]
  /\ IF result < end[n]
       THEN Answer(h, result, Least(result + MAX_IDS, end[n]))
       ELSE MoveOn(h) /\ UNCHANGED given
  /\ UNCHANGED <<seq, end, next, who, current, created>>

\* Fault: the sequence advances by one less than the block.
QueryOffByOne(h) ==
  /\ pc[h] = "query" /\ seq + block_len[h] <= MaxSeq
  /\ seq' = seq + block_len[h] - 1
  /\ LET start == seq IN
       /\ current' = [current EXCEPT ![h] = start]
       /\ end' = [end EXCEPT ![start] = seq + block_len[h]]
       /\ ptr' = [ptr EXCEPT ![start] = start]
  /\ pc' = [pc EXCEPT ![h] = "store"]
  /\ UNCHANGED <<next, who, where, block_len, created, given>>

\* UPDATE api_id_sequence: a new range, nobody's yet.
Query(h) ==
  /\ pc[h] = "query" /\ seq + block_len[h] <= MaxSeq
  /\ seq' = seq + block_len[h]
  /\ LET start == seq IN
       /\ current' = [current EXCEPT ![h] = start]
       /\ end' = [end EXCEPT ![start] = seq + block_len[h]]
       /\ ptr' = [ptr EXCEPT ![start] = start]
  /\ pc' = [pc EXCEPT ![h] = "store"]
  /\ UNCHANGED <<next, who, where, block_len, created, given>>

\* The query throws: the request fails.
QueryFails(h) ==
  /\ pc[h] = "query"
  /\ pc' = [pc EXCEPT ![h] = "idle"]
  /\ UNCHANGED <<seq, heap, who, where, current, block_len, created, given>>

\* where->store(owned), whatever is there now.
Store(h) ==
  /\ pc[h] = "store"
  /\ next' = [next EXCEPT ![where[h]] = current[h]]
  /\ created' = [created EXCEPT ![h] = TRUE]
  /\ pc' = [pc EXCEPT ![h] = "test"]
  /\ UNCHANGED <<seq, end, ptr, who, where, current, block_len, given>>

Next ==
  \E h \in Handlers :
    \/ \E s \in Sessions : Request(h, s)
    \/ Load(h) \/ Test(h) \/ Reserve(h)
    \/ Query(h) \/ QueryFails(h) \/ Store(h)

Spec == Init /\ [][Next]_vars

-----------------------------------------------------------------------------
(***************************************************************************)
(* Properties                                                              *)
(***************************************************************************)

\* Types and ranges.
TypeOK ==
  /\ seq \in 0..MaxSeq
  /\ end \in [Starts -> 0..MaxSeq] /\ ptr \in [Starts -> Nat]
  /\ next \in [Links -> Starts \cup {null}]
  /\ pc \in [Handlers -> {"idle", "load", "test", "add", "query", "store"}]
  /\ who \in [Handlers -> Sessions \cup {null}]
  /\ where \in [Handlers -> Links \cup {null}]
  /\ current \in [Handlers -> Starts \cup {null}]
  /\ block_len \in [Handlers -> Nat] /\ created \in [Handlers -> BOOLEAN]
  /\ given \in [Sessions -> SUBSET Starts]

\* No id is ever given twice, to one session or to two.
Allocator == INSTANCE IdAllocator WITH Owners <- Sessions

IdsAreFresh == Allocator!AllocSpec

\* A page is refused its own ids only if "Either we are f*cked up or somebody is
\* trying to fool us" (tasks.cc:265): whatever the server gave it, it owns.
GivenIsOwned ==
  \A s \in Sessions : given[s] \subseteq Owned(s)
=============================================================================
