---------------------------- MODULE ContestProofs ----------------------------
(***************************************************************************)
(* Theorems about Contest, for any number of devices, any times of the     *)
(* contest and any bounds.  The invariants are about answers; what makes   *)
(* them inductive is what every token that a device or a request carries   *)
(* has in common (TokenOK).  The last sections are about ContestPages.     *)
(***************************************************************************)
EXTENDS Contest, FiniteSetTheorems, SequenceTheorems, TLAPS

\* The row and the times: an end that was recorded is in the past, a start is that
\* of a virtual participation, and limit is no less than the end that is in force.
RowOK ==
  /\ end_time <= latest_end
  /\ users_kims.end = Null => users_kims = NoRow
  /\ users_kims.end # Null => users_kims.end <= latest_end \/ users_kims.end <= now
  /\ ended => users_kims.end # Null /\ users_kims.end <= now
  /\ users_kims.start # Null =>
       /\ is_virtual /\ Start <= users_kims.start
       /\ ended \/ users_kims.end <= users_kims.start + Duration
  /\ RowEnd(users_kims, end_time) <= limit

\* What holds of every token that get_write_token made.
TokenOK(token) == token # NoToken =>
  /\ token.version <= token_version
  /\ token.version = token_version => token.end <= limit
  /\ token.after_end => token.end <= now
  /\ token.end <= latest_end \/ token.end <= now
  /\ Start <= token.start
  /\ is_virtual =>
       /\ users_kims.start = token.start
       /\ \/ token.end <= token.start + Duration
          \/ ended /\ token.end <= users_kims.end

\* What holds of the token of a participation that is to begin.
StartingOK(r) == r.at = "start" =>
  /\ is_virtual /\ Start <= r.time
  /\ r.token.start = r.time /\ r.token.version <= token_version
  /\ r.token.end <= r.time + Duration /\ r.token.end <= latest_end
  /\ r.token.after_end = r.after_end

\* What holds of an answer that will be written.
AnswerOK(r) == r.at = "write" =>
  /\ Start <= r.time /\ r.time < latest_end
  /\ is_virtual =>
       /\ users_kims.start # Null /\ users_kims.start <= r.time
       /\ \/ r.time < users_kims.start + Duration
          \/ ended /\ r.time < users_kims.end
  /\ r.at_version = token_version => r.time < limit

RequestOK(r) ==
  /\ r # Idle => r.time <= now /\ r.at_version <= token_version /\ (r.after_end => ended)
  /\ r.at \in {"start", "respond", "answer", "recheck", "write"} => r.token # NoToken
  /\ r.at \in {"respond", "answer", "recheck", "write"} => TokenOK(r.token)
  /\ r.at = "answer" => r.token.end <= latest_end \/ r.token.end <= r.time
  /\ StartingOK(r)
  /\ AnswerOK(r)

IInv ==
  /\ TypeOK
  /\ RowOK
  /\ \A d \in Devices : TokenOK(write_token[d])
  /\ \A d \in Devices : RequestOK(request[d])

-----------------------------------------------------------------------------
\* What every step keeps: nothing that a token was judged by gets smaller, but for
\* limit when the tokens are revoked.
Grows ==
  /\ now <= now' /\ token_version <= token_version' /\ latest_end <= latest_end'
  /\ is_virtual' = is_virtual
  /\ token_version' = token_version => limit <= limit'
  /\ ended => ended' /\ users_kims.end <= users_kims'.end
  /\ users_kims.start # Null => users_kims'.start = users_kims.start

\* The facts about the constants and the types that the arithmetic below needs.
LEMMA Numbers ==
  ASSUME TypeOK
  PROVE  /\ now \in Nat /\ end_time \in Nat /\ token_version \in Nat
         /\ latest_end \in Nat /\ limit \in Nat /\ Start \in Nat /\ Duration \in Nat
         /\ Null \notin Int /\ Start < end_time
         /\ users_kims.start \in Nat \cup {Null} /\ users_kims.end \in Nat \cup {Null}
  BY ContestAssumption DEF TypeOK

LEMMA TokenTypes ==
  ASSUME NEW token \in Tokens, token # NoToken
  PROVE  /\ token.version \in Nat /\ token.start \in Nat /\ token.end \in Nat
         /\ token.after_end \in BOOLEAN
  BY DEF Tokens

LEMMA RequestTypes ==
  ASSUME NEW r \in Requests
  PROVE  /\ r.token \in Tokens
         /\ r.at # "idle" <=> r # Idle
         /\ r # Idle => r.time \in Nat /\ r.at_version \in Nat /\ r.after_end \in BOOLEAN
  BY ContestAssumption DEF Requests, Idle, Tokens

\* A token that was right stays right.
LEMMA TokensStayRight ==
  ASSUME TypeOK, TypeOK', RowOK, RowOK', Grows, NEW token \in Tokens, TokenOK(token)
  PROVE  TokenOK(token)'
<1>1. SUFFICES ASSUME token # NoToken PROVE TokenOK(token)'
  BY DEF TokenOK
<1>2. /\ token.version \in Nat /\ token.start \in Nat /\ token.end \in Nat
  BY <1>1, TokenTypes
<1>3. /\ now \in Nat /\ token_version \in Nat /\ latest_end \in Nat /\ limit \in Nat
      /\ Duration \in Nat /\ Null \notin Int
      /\ users_kims.start \in Nat \cup {Null} /\ users_kims.end \in Nat \cup {Null}
  BY Numbers
<1>4. /\ now' \in Nat /\ token_version' \in Nat /\ latest_end' \in Nat /\ limit' \in Nat
      /\ users_kims'.start \in Nat \cup {Null} /\ users_kims'.end \in Nat \cup {Null}
  BY ContestAssumption DEF TypeOK
<1>5. token.version <= token_version' /\ Start <= token.start
  BY <1>1, <1>2, <1>3, <1>4 DEF TokenOK, Grows
<1>6. token.version = token_version' => token.end <= limit'
  BY <1>1, <1>2, <1>3, <1>4 DEF TokenOK, Grows
<1>7. /\ token.after_end => token.end <= now'
      /\ token.end <= latest_end' \/ token.end <= now'
  BY <1>1, <1>2, <1>3, <1>4 DEF TokenOK, Grows
<1>8. ASSUME is_virtual'
      PROVE  /\ users_kims'.start = token.start
             /\ \/ token.end <= token.start + Duration
                \/ ended' /\ token.end <= users_kims'.end
  <2>1. is_virtual /\ users_kims.start = token.start
    BY <1>1, <1>8 DEF TokenOK, Grows
  <2>2. users_kims'.start = token.start
    BY <2>1, <1>2, <1>3 DEF Grows
  <2>3. CASE token.end <= token.start + Duration
    BY <2>2, <2>3
  <2>4. CASE ended /\ token.end <= users_kims.end
    <3>1. users_kims.end \in Nat /\ users_kims'.end \in Nat
      <4>1. users_kims.end # Null
        BY <2>4 DEF RowOK
      <4>2. users_kims'.end # Null
        BY <2>4 DEF Grows, RowOK
      <4>3. QED
        BY <4>1, <4>2, <1>3, <1>4
    <3>2. QED
      BY <2>2, <2>4, <3>1, <1>2 DEF Grows
  <2>5. QED
    BY <1>1, <2>1, <2>3, <2>4 DEF TokenOK
<1>9. QED
  BY <1>5, <1>6, <1>7, <1>8 DEF TokenOK

\* A request that was in order stays so.
LEMMA RequestsStayRight ==
  ASSUME TypeOK, TypeOK', RowOK, RowOK', Grows, NEW r \in Requests, RequestOK(r)
  PROVE  RequestOK(r)'
<1>1. /\ r.token \in Tokens
      /\ r.at # "idle" <=> r # Idle
      /\ r # Idle => r.time \in Nat /\ r.at_version \in Nat
  BY RequestTypes
<1>2. /\ now \in Nat /\ token_version \in Nat /\ latest_end \in Nat /\ limit \in Nat
      /\ Start \in Nat /\ Duration \in Nat /\ Null \notin Int
      /\ users_kims.start \in Nat \cup {Null} /\ users_kims.end \in Nat \cup {Null}
  BY Numbers
<1>3. /\ now' \in Nat /\ token_version' \in Nat /\ latest_end' \in Nat /\ limit' \in Nat
      /\ users_kims'.start \in Nat \cup {Null} /\ users_kims'.end \in Nat \cup {Null}
  BY ContestAssumption DEF TypeOK
<1>4. r # Idle => r.time <= now' /\ r.at_version <= token_version' /\ (r.after_end => ended')
  BY <1>1, <1>2, <1>3 DEF RequestOK, Grows
<1>5. r.at \in {"respond", "answer", "recheck", "write"} => TokenOK(r.token)'
  <2>1. ASSUME TokenOK(r.token) PROVE TokenOK(r.token)'
    BY <1>1, <2>1, TokensStayRight
  <2>2. QED
    BY <2>1 DEF RequestOK
<1>6. ASSUME r.at \in {"start", "answer"}, r.token # NoToken
      PROVE  /\ r.at = "answer" => r.token.end <= latest_end' \/ r.token.end <= r.time
             /\ StartingOK(r)'
  <2>1. r.token.end \in Nat /\ r.token.version \in Nat /\ r.time \in Nat
    BY <1>1, <1>6, TokenTypes
  <2>2. r.at = "answer" => r.token.end <= latest_end' \/ r.token.end <= r.time
    BY <1>2, <1>3, <2>1 DEF RequestOK, Grows
  <2>3. StartingOK(r)'
    BY <1>2, <1>3, <2>1 DEF RequestOK, StartingOK, Grows
  <2>4. QED
    BY <2>2, <2>3
<1>7. ASSUME r.at = "write" PROVE AnswerOK(r)'
  <2>1. r.time \in Nat /\ r.at_version \in Nat /\ r.at_version <= token_version
    BY <1>1, <1>7 DEF RequestOK
  <2>2. Start <= r.time /\ r.time < latest_end'
    BY <1>2, <1>3, <1>7, <2>1 DEF RequestOK, AnswerOK, Grows
  <2>3. r.at_version = token_version' => r.time < limit'
    BY <1>2, <1>3, <1>7, <2>1 DEF RequestOK, AnswerOK, Grows
  <2>4. ASSUME is_virtual'
        PROVE  /\ users_kims'.start # Null /\ users_kims'.start <= r.time
               /\ \/ r.time < users_kims'.start + Duration
                  \/ ended' /\ r.time < users_kims'.end
    <3>1. users_kims.start # Null /\ users_kims.start <= r.time
      BY <1>7, <2>4 DEF RequestOK, AnswerOK, Grows
    <3>2. users_kims'.start = users_kims.start
      BY <3>1 DEF Grows
    <3>3. CASE r.time < users_kims.start + Duration
      BY <3>1, <3>2, <3>3
    <3>4. CASE ended /\ r.time < users_kims.end
      <4>1. users_kims.end \in Nat /\ users_kims'.end \in Nat
        BY <1>2, <1>3, <3>4 DEF RowOK, Grows
      <4>2. QED
        BY <2>1, <3>1, <3>2, <3>4, <4>1 DEF Grows
    <3>5. QED
      BY <1>7, <2>4, <3>3, <3>4 DEF RequestOK, AnswerOK, Grows
  <2>5. QED
    BY <2>2, <2>3, <2>4 DEF AnswerOK
<1>8. r.at \in {"start", "respond", "answer", "recheck", "write"} => r.token # NoToken
  BY DEF RequestOK
<1>9. QED
  BY <1>4, <1>5, <1>6, <1>7, <1>8 DEF RequestOK, StartingOK, AnswerOK

-----------------------------------------------------------------------------
\* The token of a participation that is in progress is right.
LEMMA TokenOfIsRight ==
  ASSUME TypeOK, RowOK, NEW r \in Requests, r # Idle, r.after_end => ended,
         Status(r.time) = "IN_PROGRESS"
  PROVE  /\ TokenOf(r) \in Tokens /\ TokenOf(r) # NoToken /\ TokenOK(TokenOf(r))
         /\ r.time < latest_end
<1> DEFINE token == TokenOf(r)
<1>1. r.time \in Nat /\ r.after_end \in BOOLEAN
  BY RequestTypes
<1>2. /\ now \in Nat /\ end_time \in Nat /\ token_version \in Nat
      /\ latest_end \in Nat /\ limit \in Nat /\ Start \in Nat /\ Duration \in Nat
      /\ Null \notin Int /\ Start < end_time
      /\ users_kims.start \in Nat \cup {Null} /\ users_kims.end \in Nat \cup {Null}
  BY Numbers
<1>3. /\ token.version = token_version /\ token.after_end = r.after_end
      /\ token.start = IF users_kims.start = Null THEN Start ELSE users_kims.start
      /\ token.end = IF users_kims.end = Null THEN end_time ELSE users_kims.end
  BY DEF TokenOf
<1>4. token.start \in Nat /\ token.end \in Nat
  BY <1>2, <1>3
<1>5. token \in Tokens /\ token # NoToken
  <2>1. token_version \in 0..MaxVersion
    BY DEF TypeOK
  <2>2. token \in [version : 0..MaxVersion, start : Nat, end : Nat, after_end : BOOLEAN]
    BY <1>1, <1>3, <1>4, <2>1 DEF TokenOf
  <2>3. NoToken.end = Null
    BY DEF NoToken
  <2>4. QED
    BY <1>2, <1>4, <2>2, <2>3 DEF Tokens
<1>6. /\ Start <= r.time /\ r.time < end_time
      /\ is_virtual => users_kims.start # Null /\ users_kims.end # Null
  BY <1>1, <1>2 DEF Status
<1>7. token.end <= limit
  <2>1. token.end = RowEnd(users_kims, end_time)
    BY <1>2, <1>3 DEF RowEnd, RowOK, NoRow
  <2>2. QED
    BY <2>1 DEF RowOK
<1>8. token.after_end => token.end <= now
  BY <1>1, <1>3 DEF RowOK
<1>9. token.end <= latest_end \/ token.end <= now
  BY <1>2, <1>3 DEF RowOK
<1>10. Start <= token.start
  BY <1>2, <1>3 DEF RowOK
<1>11. is_virtual =>
         /\ users_kims.start = token.start
         /\ \/ token.end <= token.start + Duration
            \/ ended /\ token.end <= users_kims.end
  BY <1>2, <1>3, <1>6 DEF RowOK
<1>12. TokenOK(token)
  BY <1>2, <1>3, <1>7, <1>8, <1>9, <1>10, <1>11 DEF TokenOK
<1>13. QED
  BY <1>1, <1>2, <1>5, <1>6, <1>12 DEF RowOK

\* An answer whose time is within a right token may be written.
LEMMA InTimeIsRight ==
  ASSUME TypeOK, RowOK, NEW r \in Requests, r # Idle, NEW token \in Tokens,
         token # NoToken, TokenOK(token), InTime(r, token),
         token.version = token_version, r.time < latest_end
  PROVE  /\ Start <= r.time
         /\ is_virtual =>
              /\ users_kims.start # Null /\ users_kims.start <= r.time
              /\ \/ r.time < users_kims.start + Duration
                 \/ ended /\ r.time < users_kims.end
         /\ r.time < limit
<1>1. /\ r.time \in Nat /\ token.start \in Nat /\ token.end \in Nat
  BY RequestTypes, TokenTypes
<1>2. /\ now \in Nat /\ latest_end \in Nat /\ limit \in Nat
      /\ Start \in Nat /\ Duration \in Nat /\ Null \notin Int
      /\ users_kims.start \in Nat \cup {Null} /\ users_kims.end \in Nat \cup {Null}
  BY Numbers
<1>3. token.start <= r.time /\ r.time < token.end
  BY DEF InTime
<1>4. Start <= r.time /\ r.time < limit
  BY <1>1, <1>2, <1>3 DEF TokenOK
<1>5. ASSUME is_virtual
      PROVE  /\ users_kims.start # Null /\ users_kims.start <= r.time
             /\ \/ r.time < users_kims.start + Duration
                \/ ended /\ r.time < users_kims.end
  <2>1. users_kims.start = token.start
    BY <1>5 DEF TokenOK
  <2>2. CASE token.end <= token.start + Duration
    BY <1>1, <1>2, <1>3, <2>1, <2>2
  <2>3. CASE ended /\ token.end <= users_kims.end
    <3>1. users_kims.end \in Nat
      BY <1>2, <2>3 DEF RowOK
    <3>2. QED
      BY <1>1, <1>2, <1>3, <2>1, <2>3, <3>1
  <2>4. QED
    BY <1>5, <2>2, <2>3 DEF TokenOK
<1>6. QED
  BY <1>4, <1>5

-----------------------------------------------------------------------------
\* A step of a request of d leads to IInv if the rest only grows, the new request of
\* d is in order and so is the token d gets.
LEMMA RequestSteps ==
  ASSUME IInv, NEW d \in Devices, NEW r \in Requests, NEW token \in Tokens,
         request' = [request EXCEPT ![d] = r],
         write_token' = [write_token EXCEPT ![d] = token],
         TypeOK', RowOK', Grows, RequestOK(r)', TokenOK(token)'
  PROVE  IInv'
<1>1. ASSUME NEW e \in Devices PROVE TokenOK(write_token[e])' /\ RequestOK(request[e])'
  <2>1. CASE e = d
    <3>1. request'[e] = r /\ write_token'[e] = token
      BY <2>1 DEF IInv, TypeOK
    <3>2. QED
      BY <3>1 DEF TokenOK, RequestOK, StartingOK, AnswerOK
  <2>2. CASE e # d
    <3>1. /\ request'[e] = request[e] /\ write_token'[e] = write_token[e]
          /\ request[e] \in Requests /\ write_token[e] \in Tokens
          /\ TokenOK(write_token[e]) /\ RequestOK(request[e])
      BY <2>2 DEF IInv, TypeOK
    <3>2. ASSUME NEW t \in Tokens, TokenOK(t) PROVE TokenOK(t)'
      BY <3>2, TokensStayRight DEF IInv
    <3>3. ASSUME NEW q \in Requests, RequestOK(q) PROVE RequestOK(q)'
      BY <3>3, RequestsStayRight DEF IInv
    <3>4. ASSUME NEW t \in Tokens, t = write_token'[e], TokenOK(t)' PROVE TokenOK(write_token[e])'
      BY <3>4 DEF TokenOK
    <3>5. ASSUME NEW q \in Requests, q = request'[e], RequestOK(q)' PROVE RequestOK(request[e])'
      BY <3>5 DEF TokenOK, RequestOK, StartingOK, AnswerOK
    <3>6. QED
      BY <3>1, <3>2, <3>3, <3>4, <3>5
  <2>3. QED
    BY <2>1, <2>2
<1>2. QED
  BY <1>1 DEF IInv

\* A step of none of the devices leads to IInv if the rest only grows.
LEMMA OtherSteps ==
  ASSUME IInv, UNCHANGED <<request, write_token>>, TypeOK', RowOK', Grows
  PROVE  IInv'
<1>1. ASSUME NEW t \in Tokens, TokenOK(t) PROVE TokenOK(t)'
  BY <1>1, TokensStayRight DEF IInv
<1>2. ASSUME NEW q \in Requests, RequestOK(q) PROVE RequestOK(q)'
  BY <1>2, RequestsStayRight DEF IInv
<1>3. ASSUME NEW e \in Devices PROVE TokenOK(write_token[e])' /\ RequestOK(request[e])'
  <2>1. /\ request[e] \in Requests /\ write_token[e] \in Tokens
        /\ TokenOK(write_token[e]) /\ RequestOK(request[e])
    BY DEF IInv, TypeOK
  <2>2. ASSUME NEW t \in Tokens, t = write_token'[e], TokenOK(t)' PROVE TokenOK(write_token[e])'
    BY <2>2 DEF TokenOK
  <2>3. ASSUME NEW q \in Requests, q = request'[e], RequestOK(q)' PROVE RequestOK(request[e])'
    BY <2>3 DEF TokenOK, RequestOK, StartingOK, AnswerOK
  <2>4. QED
    BY <1>1, <1>2, <2>1, <2>2, <2>3
<1>4. QED
  BY <1>3 DEF IInv

\* A step that leaves the row and the times alone keeps RowOK and Grows.
LEMMA UntouchedGrows ==
  ASSUME TypeOK, RowOK, Untouched
  PROVE  RowOK' /\ Grows
<1>1. RowOK'
  BY DEF RowOK, Untouched, contestVars, RowEnd, NoRow
<1>2. Grows
  <2>1. now <= now /\ token_version <= token_version /\ latest_end <= latest_end /\ limit <= limit
    BY Numbers
  <2>2. ended => users_kims.end <= users_kims.end
    BY Numbers DEF RowOK
  <2>3. QED
    BY <2>1, <2>2 DEF Grows, Untouched, contestVars
<1>3. QED
  BY <1>1, <1>2

\* A step of a request that leaves the row and the times alone.
LEMMA UntouchedSteps ==
  ASSUME IInv, NEW d \in Devices, Untouched,
         NEW r \in Requests, request' = [request EXCEPT ![d] = r], RequestOK(r),
         NEW token \in Tokens, write_token' = [write_token EXCEPT ![d] = token], TokenOK(token)
  PROVE  IInv'
<1>1. TypeOK'
  BY DEF IInv, TypeOK, Untouched, contestVars
<1>2. RowOK' /\ Grows
  BY UntouchedGrows DEF IInv
<1>3. RequestOK(r)'
  BY <1>1, <1>2, RequestsStayRight DEF IInv
<1>4. TokenOK(token)'
  BY <1>1, <1>2, TokensStayRight DEF IInv
<1>5. QED
  BY <1>1, <1>2, <1>3, <1>4, RequestSteps

-----------------------------------------------------------------------------
\* No request, and no token, are in order.
LEMMA IdleIsRight == Idle \in Requests /\ RequestOK(Idle) /\ NoToken \in Tokens /\ TokenOK(NoToken)
  BY DEF Idle, Requests, RequestOK, StartingOK, AnswerOK, Tokens, TokenOK

\* What IInv says of one device.
LEMMA OfDevice ==
  ASSUME IInv, NEW d \in Devices
  PROVE  /\ request[d] \in Requests /\ RequestOK(request[d])
         /\ write_token[d] \in Tokens /\ TokenOK(write_token[d])
         /\ write_token = [write_token EXCEPT ![d] = write_token[d]]
  BY DEF IInv, TypeOK

LEMMA InitIInv == Init => IInv
<1>1. SUFFICES ASSUME Init PROVE IInv
  OBVIOUS
<1>2. TypeOK
  <2>1. /\ now \in 0..MaxTime /\ token_version \in 0..MaxVersion
        /\ end_time \in Nat /\ limit \in Nat
    BY <1>1, ContestAssumption DEF Init
  <2>2. users_kims \in [start : Nat \cup {Null}, end : Nat \cup {Null}]
    BY <1>1 DEF Init, NoRow
  <2>3. request \in [Devices -> Requests] /\ write_token \in [Devices -> Tokens]
    BY <1>1, IdleIsRight DEF Init
  <2>4. QED
    BY <1>1, <2>1, <2>2, <2>3 DEF Init, TypeOK
<1>3. RowOK
  BY <1>1, ContestAssumption DEF Init, RowOK, NoRow, RowEnd
<1>4. ASSUME NEW d \in Devices PROVE TokenOK(write_token[d]) /\ RequestOK(request[d])
  BY <1>1, IdleIsRight DEF Init
<1>5. QED
  BY <1>2, <1>3, <1>4 DEF IInv

\* A request that ends.
LEMMA FinishSteps ==
  ASSUME IInv, NEW d \in Devices, Finish(d), Untouched,
         NEW token \in Tokens, write_token' = [write_token EXCEPT ![d] = token], TokenOK(token)
  PROVE  IInv'
  BY IdleIsRight, UntouchedSteps DEF Finish

\* GetTasks and Answer.
LEMMA ArriveSteps ==
  ASSUME IInv, NEW d \in Devices, NEW at, NEW token,
         \/ at = "tasks" /\ token = NoToken
         \/ at = "answer" /\ token # NoToken /\ token = write_token[d],
         Arrive(d, at, token)
  PROVE  IInv'
<1> DEFINE r == [at |-> at, time |-> now, token |-> token, after_end |-> ended,
                 at_version |-> token_version]
<1>1. Untouched /\ request' = [request EXCEPT ![d] = r]
      /\ write_token' = [write_token EXCEPT ![d] = write_token[d]]
  BY OfDevice DEF Arrive, Untouched
<1>2. token \in Tokens /\ TokenOK(token)
  BY OfDevice, IdleIsRight
<1>3. r \in Requests
  BY <1>2 DEF Requests, IInv, TypeOK
<1>4. at = "answer" => token.end <= latest_end \/ token.end <= now
  BY <1>2 DEF TokenOK
<1>5. RequestOK(r)
  BY <1>2, <1>4, Numbers DEF RequestOK, StartingOK, AnswerOK, IInv
<1>6. QED
  BY <1>1, <1>3, <1>5, UntouchedSteps, OfDevice

\* A request that goes on, with a token that is right, to respond, recheck or write.
LEMMA GoesSteps ==
  ASSUME IInv, NEW d \in Devices, NEW at \in {"respond", "recheck", "write"},
         request[d] # Idle, NEW token \in Tokens, token # NoToken, TokenOK(token),
         Goes(d, at, token), Untouched, write_token' = write_token,
         at = "write" => AnswerOK([request[d] EXCEPT !.at = at, !.token = token])
  PROVE  IInv'
<1> DEFINE r == [request[d] EXCEPT !.at = at, !.token = token]
<1>1. request' = [request EXCEPT ![d] = r]
  BY DEF Goes, IInv, TypeOK
<1>2. request[d] \in Requests /\ RequestOK(request[d])
  BY OfDevice
<1>3. r \in Requests /\ r.at = at /\ r.token = token /\ r.time = request[d].time
      /\ r.after_end = request[d].after_end /\ r.at_version = request[d].at_version
  BY <1>2 DEF Requests
<1>4. RequestOK(r)
  BY <1>2, <1>3 DEF RequestOK, StartingOK, AnswerOK
<1>5. QED
  BY <1>1, <1>3, <1>4, UntouchedSteps, OfDevice

LEMMA ReadKimSteps == ASSUME IInv, NEW d \in Devices, ReadKim(d) PROVE IInv'
<1> DEFINE r == request[d]
<1>1. r.at = "tasks" /\ r # Idle /\ Untouched
  BY DEF ReadKim, Idle
<1>2. r \in Requests /\ RequestOK(r) /\ r.time \in Nat /\ r.time <= now
  BY <1>1, OfDevice, RequestTypes DEF RequestOK
<1>3. CASE Status(r.time) = "NOT_STARTED" /\ Finish(d) /\ UNCHANGED write_token
  BY <1>1, <1>3, OfDevice, FinishSteps
<1>4. CASE Finish(d) /\ write_token' = [write_token EXCEPT ![d] = NoToken]
  BY <1>1, <1>4, IdleIsRight, FinishSteps
<1>5. CASE Status(r.time) = "VIRTUAL_STARTABLE" /\ Goes(d, "start", StartingToken(r))
           /\ UNCHANGED write_token
  <2> DEFINE token == StartingToken(r)
             q == [r EXCEPT !.at = "start", !.token = token]
  <2>1. /\ now \in Nat /\ end_time \in Nat /\ token_version \in Nat /\ latest_end \in Nat
        /\ Start \in Nat /\ Duration \in Nat /\ Null \notin Int /\ Start < end_time
    BY Numbers DEF IInv
  <2>2. Start <= r.time /\ r.time < end_time /\ is_virtual
    BY <1>2, <1>5, <2>1 DEF Status
  <2>3. /\ token.version = token_version /\ token.start = r.time
        /\ token.after_end = r.after_end /\ token.end \in Nat
        /\ token.end <= r.time + Duration /\ token.end <= end_time
    BY <1>2, <2>1 DEF StartingToken, Earlier
  <2>4. token \in Tokens /\ token # NoToken
    <3>1. token_version \in 0..MaxVersion /\ r.after_end \in BOOLEAN
      BY <1>1, <1>2, RequestTypes DEF IInv, TypeOK
    <3>2. token \in [version : 0..MaxVersion, start : Nat, end : Nat, after_end : BOOLEAN]
      BY <1>2, <2>3, <3>1 DEF StartingToken
    <3>3. NoToken.start = Null
      BY DEF NoToken
    <3>4. QED
      BY <1>2, <2>1, <2>3, <3>2, <3>3 DEF Tokens
  <2>5. q \in Requests /\ q.at = "start" /\ q.token = token /\ q.time = r.time
        /\ q.after_end = r.after_end /\ q.at_version = r.at_version
    BY <1>1, <1>2, <2>4 DEF Requests
  <2>6. token.end <= latest_end
    BY <2>1, <2>3 DEF IInv, RowOK
  <2>7. StartingOK(q)
    BY <2>1, <2>2, <2>3, <2>5, <2>6 DEF StartingOK
  <2>8. RequestOK(q)
    BY <1>1, <1>2, <2>4, <2>5, <2>7 DEF RequestOK, AnswerOK
  <2>9. request' = [request EXCEPT ![d] = q]
    BY <1>5 DEF Goes, IInv, TypeOK
  <2>10. QED
    BY <1>1, <1>5, <2>5, <2>8, <2>9, OfDevice, UntouchedSteps
<1>6. CASE Status(r.time) = "IN_PROGRESS" /\ Goes(d, "respond", TokenOf(r))
           /\ UNCHANGED write_token
  BY <1>1, <1>2, <1>6, TokenOfIsRight, GoesSteps DEF IInv, RequestOK
<1>7. QED
  BY <1>3, <1>4, <1>5, <1>6 DEF ReadKim

LEMMA RespondSteps == ASSUME IInv, NEW d \in Devices, Respond(d) \/ Write(d) PROVE IInv'
<1>1. TokenOK(request[d].token) /\ request[d].token \in Tokens
  BY OfDevice, RequestTypes DEF Respond, Write, RequestOK
<1>2. QED
  BY <1>1, FinishSteps DEF Respond, Write

\* An answer whose token is right and of the version that is in force.
LEMMA CheckTimeSteps ==
  ASSUME IInv, NEW d \in Devices, request[d] # Idle,
         NEW token \in Tokens, token # NoToken, TokenOK(token),
         token.version = token_version,
         InTime(request[d], token) => request[d].time < latest_end,
         CheckTime(d, token), Untouched, UNCHANGED write_token
  PROVE  IInv'
<1> DEFINE r == request[d]
           q == [r EXCEPT !.at = "write", !.token = token]
<1>1. r \in Requests /\ RequestOK(r)
  BY OfDevice
<1>2. CASE Finish(d)
  BY <1>2, OfDevice, FinishSteps
<1>3. CASE InTime(r, token) /\ Goes(d, "write", token)
  <2>1. q.at = "write" /\ q.time = r.time /\ q.at_version = r.at_version
    BY <1>1 DEF Requests
  <2>2. AnswerOK(q)
    BY <1>1, <1>3, <2>1, InTimeIsRight DEF AnswerOK, IInv
  <2>3. QED
    BY <1>3, <2>2, GoesSteps
<1>4. QED
  BY <1>2, <1>3 DEF CheckTime

LEMMA ReadVersionSteps == ASSUME IInv, NEW d \in Devices, ReadVersion(d) PROVE IInv'
<1> DEFINE r == request[d]
<1>1. r.at = "answer" /\ r # Idle /\ Untouched /\ UNCHANGED write_token
  BY DEF ReadVersion, Idle
<1>2. /\ r \in Requests /\ RequestOK(r) /\ r.token \in Tokens /\ r.token # NoToken
      /\ TokenOK(r.token) /\ r.time \in Nat
  BY <1>1, OfDevice, RequestTypes DEF RequestOK
<1>3. CASE Goes(d, "recheck", r.token)
  BY <1>1, <1>2, <1>3, GoesSteps
<1>4. CASE r.token.version = token_version /\ CheckTime(d, r.token)
  <2>1. InTime(r, r.token) => r.time < latest_end
    BY <1>1, <1>2, TokenTypes, Numbers DEF InTime, RequestOK, IInv
  <2>2. QED
    BY <1>1, <1>2, <1>4, <2>1, CheckTimeSteps
<1>5. QED
  BY <1>3, <1>4 DEF ReadVersion

LEMMA RecheckSteps == ASSUME IInv, NEW d \in Devices, Recheck(d) PROVE IInv'
<1> DEFINE r == request[d]
<1>1. r # Idle /\ Untouched /\ UNCHANGED write_token
  BY DEF Recheck, Idle
<1>2. r \in Requests /\ RequestOK(r) /\ (r.after_end => ended)
  BY <1>1, OfDevice DEF RequestOK
<1>3. CASE Status(r.time) = "IN_PROGRESS" /\ CheckTime(d, TokenOf(r))
  <2>1. TokenOf(r).version = token_version
    BY DEF TokenOf
  <2>2. QED
    BY <1>1, <1>2, <1>3, <2>1, TokenOfIsRight, CheckTimeSteps DEF IInv
<1>4. CASE Finish(d)
  BY <1>1, <1>4, OfDevice, FinishSteps
<1>5. QED
  BY <1>3, <1>4 DEF Recheck

\* A request that may respond with a token.
LEMMA WithToken ==
  ASSUME NEW r \in Requests, r # Idle, NEW token \in Tokens
  PROVE  \E q \in Requests :
           /\ q = [r EXCEPT !.at = "respond", !.token = token]
           /\ q.at = "respond" /\ q.token = token /\ q.time = r.time
           /\ q.after_end = r.after_end /\ q.at_version = r.at_version
<1> DEFINE q == [r EXCEPT !.at = "respond", !.token = token]
<1>1. /\ q \in Requests /\ q.at = "respond" /\ q.token = token /\ q.time = r.time
      /\ q.after_end = r.after_end /\ q.at_version = r.at_version
  BY DEF Requests
<1>2. QED
  BY <1>1

\* The row is made with the token's times; a request that came after the end of the
\* participation finds a row and fails.
LEMMA StartVirtualSteps == ASSUME IInv, NEW d \in Devices, StartVirtual(d) PROVE IInv'
<1> DEFINE r == request[d]
<1>1. /\ r.at = "start" /\ r # Idle
      /\ UNCHANGED <<now, contestVars, write_token, ended, latest_end>>
  BY DEF StartVirtual, Idle
<1>2. PICK token \in Tokens : /\ token = r.token /\ token # NoToken
                             /\ r \in Requests /\ RequestOK(r)
                             /\ r.time \in Nat /\ r.time <= now
  BY <1>1, OfDevice, RequestTypes DEF RequestOK
<1> HIDE DEF r
<1>3. /\ token.start \in Nat /\ token.end \in Nat /\ token.version \in Nat
  BY <1>2, TokenTypes
<1>4. /\ now \in Nat /\ end_time \in Nat /\ token_version \in Nat /\ latest_end \in Nat
      /\ limit \in Nat /\ Start \in Nat /\ Duration \in Nat /\ Null \notin Int
  BY Numbers DEF IInv
<1>5. CASE users_kims = NoRow
  <2>1. /\ users_kims' = [start |-> token.start, end |-> token.end]
        /\ Goes(d, "respond", token) /\ limit' = Later(limit, token.end)
    BY <1>2, <1>5 DEF StartVirtual, r
  <2>2. /\ users_kims'.start = token.start /\ users_kims'.end = token.end
        /\ users_kims.start = Null /\ users_kims.end = Null
    BY <1>5, <2>1 DEF NoRow
  <2>3. limit' \in Nat /\ limit <= limit' /\ token.end <= limit'
    BY <1>4, <1>3, <2>1 DEF Later
  <2>4. ~ended
    BY <2>2 DEF IInv, RowOK
  <2>5. /\ is_virtual /\ Start <= r.time /\ token.start = r.time
        /\ token.version <= token_version /\ token.end <= r.time + Duration
        /\ token.end <= latest_end /\ token.after_end = r.after_end /\ ~r.after_end
    BY <1>1, <1>2, <2>4 DEF RequestOK, StartingOK
  <2>6. PICK q \in Requests :
          /\ q = [r EXCEPT !.at = "respond", !.token = token]
          /\ q.at = "respond" /\ q.token = token /\ q.time = r.time
          /\ q.after_end = r.after_end /\ q.at_version = r.at_version
    BY <1>1, <1>2, WithToken
  <2>7. request' = [request EXCEPT ![d] = q]
    BY <2>1, <2>6 DEF Goes, IInv, TypeOK, r
  <2>8. TypeOK'
    <3>1. request' \in [Devices -> Requests]
      BY <2>6, <2>7 DEF IInv, TypeOK
    <3>2. users_kims' \in [start : Nat \cup {Null}, end : Nat \cup {Null}]
      BY <1>3, <2>1
    <3>3. QED
      BY <1>1, <2>3, <3>1, <3>2 DEF IInv, TypeOK, contestVars
  <2>9. RowOK'
    BY <1>1, <1>4, <1>3, <2>2, <2>3, <2>4, <2>5 DEF IInv, RowOK, contestVars, RowEnd, NoRow
  <2>10. Grows
    BY <1>1, <1>4, <2>2, <2>3, <2>4 DEF Grows, contestVars
  <2>11. TokenOK(token)'
    BY <1>1, <1>4, <1>3, <2>2, <2>3, <2>5 DEF TokenOK, contestVars
  <2>12. RequestOK(q)'
    <3>1. r.at_version <= token_version
      BY <1>1, <1>2 DEF RequestOK
    <3>2. QED
      BY <1>1, <1>2, <2>5, <2>6, <2>11, <3>1
      DEF RequestOK, StartingOK, AnswerOK, contestVars
  <2>13. PICK held \in Tokens : held = write_token[d] /\ TokenOK(held)
    BY OfDevice
  <2>14. TokenOK(held)'
    BY <2>8, <2>9, <2>10, <2>13, TokensStayRight DEF IInv
  <2>15. write_token' = [write_token EXCEPT ![d] = held]
    BY <1>1, <2>13, OfDevice
  <2>16. QED
    BY <2>7, <2>8, <2>9, <2>10, <2>12, <2>14, <2>15, RequestSteps
<1>6. CASE Finish(d) /\ UNCHANGED <<users_kims, limit>>
  BY <1>1, <1>6, OfDevice, FinishSteps DEF Untouched
<1>7. QED
  BY <1>5, <1>6 DEF StartVirtual

\* The end that is recorded is now: of no use to anybody who answers later.
LEMMA EndParticipationSteps == ASSUME IInv, EndParticipation PROVE IInv'
<1>1. /\ users_kims' = [users_kims EXCEPT !.end = now] /\ ended' /\ limit' = Later(limit, now)
      /\ UNCHANGED <<now, contestVars, request, write_token, latest_end>>
  BY DEF EndParticipation
<1>2. users_kims'.end = now /\ users_kims'.start = users_kims.start
  BY <1>1 DEF IInv, TypeOK
<1>3. /\ now \in Nat /\ token_version \in Nat /\ latest_end \in Nat /\ limit \in Nat
      /\ Null \notin Int
  BY Numbers DEF IInv
<1>4. limit' \in Nat /\ limit <= limit' /\ now <= limit'
  BY <1>1, <1>3 DEF Later
<1>5. TypeOK'
  <2>1. users_kims' \in [start : Nat \cup {Null}, end : Nat \cup {Null}]
    BY <1>1, <1>3 DEF IInv, TypeOK
  <2>2. ended' = TRUE
    BY DEF EndParticipation
  <2>3. QED
    BY <1>1, <1>4, <2>1, <2>2 DEF IInv, TypeOK, contestVars
<1>6. RowOK'
  BY <1>1, <1>2, <1>3, <1>4 DEF IInv, RowOK, contestVars, RowEnd, NoRow
<1>7. Grows
  BY <1>1, <1>2, <1>3, <1>4 DEF IInv, RowOK, Grows, contestVars
<1>8. QED
  BY <1>1, <1>5, <1>6, <1>7, OtherSteps

\* No token is of the new version yet.
LEMMA RevokeSteps == ASSUME IInv, Revoke PROVE IInv'
<1>1. /\ token_version' = token_version + 1 /\ token_version < MaxVersion
      /\ limit' = RowEnd(users_kims, end_time)
      /\ UNCHANGED <<now, is_virtual, end_time, users_kims, request, write_token, ended,
                     latest_end>>
  BY DEF Revoke
<1>2. /\ now \in Nat /\ end_time \in Nat /\ token_version \in Nat /\ latest_end \in Nat
      /\ Null \notin Int /\ users_kims.end \in Nat \cup {Null}
  BY Numbers DEF IInv
<1>3. limit' \in Nat
  BY <1>1, <1>2 DEF RowEnd, IInv, RowOK
<1>4. TypeOK'
  BY <1>1, <1>2, <1>3, ContestAssumption DEF IInv, TypeOK
<1>5. RowOK'
  BY <1>1, <1>3, <1>2 DEF IInv, RowOK, RowEnd, NoRow
<1>6. Grows
  BY <1>1, <1>2 DEF IInv, RowOK, Grows
<1>7. QED
  BY <1>1, <1>4, <1>5, <1>6, OtherSteps

LEMMA RescheduleSteps == ASSUME IInv, NEW end \in Ends, Reschedule(end) PROVE IInv'
<1>1. /\ end_time' = end /\ latest_end' = Later(latest_end, end)
      /\ limit' = Later(limit, RowEnd(users_kims, end))
      /\ UNCHANGED <<now, is_virtual, token_version, users_kims, request, write_token, ended>>
  BY DEF Reschedule
<1>2. /\ now \in Nat /\ end \in Nat /\ token_version \in Nat /\ latest_end \in Nat
      /\ limit \in Nat /\ Null \notin Int /\ users_kims.end \in Nat \cup {Null}
  BY Numbers, ContestAssumption DEF IInv
<1>3. RowEnd(users_kims, end) \in Nat
  BY <1>2 DEF RowEnd, IInv, RowOK
<1>4. /\ latest_end' \in Ends /\ latest_end <= latest_end' /\ end <= latest_end'
      /\ latest_end' \in Nat /\ limit' \in Nat
      /\ limit <= limit' /\ RowEnd(users_kims, end) <= limit'
  BY <1>1, <1>2, <1>3 DEF Later, IInv, TypeOK
<1>5. TypeOK'
  BY <1>1, <1>4 DEF IInv, TypeOK
<1>6. RowOK'
  BY <1>1, <1>2, <1>4 DEF IInv, RowOK, RowEnd, NoRow
<1>7. Grows
  BY <1>1, <1>2, <1>4 DEF IInv, RowOK, Grows
<1>8. QED
  BY <1>1, <1>5, <1>6, <1>7, OtherSteps

LEMMA TickSteps == ASSUME IInv, Tick PROVE IInv'
<1>1. /\ now < MaxTime /\ now' = now + 1
      /\ UNCHANGED <<contestVars, users_kims, request, write_token, ended, latest_end, limit>>
  BY DEF Tick
<1>2. /\ now \in Nat /\ token_version \in Nat /\ latest_end \in Nat /\ limit \in Nat
      /\ users_kims.end \in Nat \cup {Null}
  BY Numbers DEF IInv
<1>3. TypeOK'
  BY <1>1, <1>2, ContestAssumption DEF IInv, TypeOK, contestVars
<1>4. RowOK'
  BY <1>1, <1>2 DEF IInv, RowOK, RowEnd, NoRow, contestVars
<1>5. Grows
  BY <1>1, <1>2 DEF IInv, RowOK, Grows, contestVars
<1>6. QED
  BY <1>1, <1>3, <1>4, <1>5, OtherSteps

-----------------------------------------------------------------------------
\* IInv is inductive.
LEMMA NextIInv == IInv /\ [Next]_vars => IInv'
<1>1. SUFFICES ASSUME IInv, [Next]_vars PROVE IInv'
  OBVIOUS
<1>2. ASSUME NEW d \in Devices, GetTasks(d) PROVE IInv'
  BY <1>1, <1>2, ArriveSteps DEF GetTasks
<1>3. ASSUME NEW d \in Devices, Answer(d) PROVE IInv'
  BY <1>1, <1>3, ArriveSteps DEF Answer
<1>4. ASSUME NEW d \in Devices, ReadKim(d) PROVE IInv'
  BY <1>1, <1>4, ReadKimSteps
<1>5. ASSUME NEW d \in Devices, StartVirtual(d) PROVE IInv'
  BY <1>1, <1>5, StartVirtualSteps
<1>6. ASSUME NEW d \in Devices, Respond(d) \/ Write(d) PROVE IInv'
  BY <1>1, <1>6, RespondSteps
<1>7. ASSUME NEW d \in Devices, ReadVersion(d) PROVE IInv'
  BY <1>1, <1>7, ReadVersionSteps
<1>8. ASSUME NEW d \in Devices, Recheck(d) PROVE IInv'
  BY <1>1, <1>8, RecheckSteps
<1>9. ASSUME NEW d \in Devices, RequestFails(d) PROVE IInv'
  BY <1>1, <1>9, OfDevice, FinishSteps DEF RequestFails
<1>10. CASE EndParticipation
  BY <1>1, <1>10, EndParticipationSteps
<1>11. CASE Revoke
  BY <1>1, <1>11, RevokeSteps
<1>12. ASSUME NEW end \in Ends, Reschedule(end) PROVE IInv'
  BY <1>1, <1>12, RescheduleSteps
<1>13. CASE Tick
  BY <1>1, <1>13, TickSteps
<1>14. CASE UNCHANGED vars
  <2>1. Untouched /\ UNCHANGED <<request, write_token>>
    BY <1>14 DEF vars, Untouched
  <2>2. RowOK' /\ Grows
    BY <1>1, <2>1, UntouchedGrows DEF IInv
  <2>3. TypeOK'
    BY <1>1, <2>1 DEF IInv, TypeOK, Untouched, contestVars
  <2>4. QED
    BY <1>1, <2>1, <2>2, <2>3, OtherSteps
<1>15. QED
  BY <1>1, <1>2, <1>3, <1>4, <1>5, <1>6, <1>7, <1>8, <1>9, <1>10, <1>11, <1>12, <1>13, <1>14
  DEF Next

LEMMA Invariance == Spec => []IInv
  BY InitIInv, NextIInv, PTL DEF Spec

-----------------------------------------------------------------------------
\* For any devices, times and bounds, every variable has its type.
THEOREM TypeCorrect == Spec => []TypeOK
<1>1. IInv => TypeOK
  BY DEF IInv
<1>2. QED
  BY Invariance, <1>1, PTL

\* Whatever order requests, rescheduling and revocations come in, an answer is written
\* only if handle_answer took its time within the participation.
THEOREM AnswersAreInTime == Spec => []AnswersInTime
<1>1. ASSUME IInv PROVE AnswersInTime
  BY <1>1 DEF IInv, RequestOK, AnswerOK, AnswersInTime
<1>2. QED
  BY Invariance, <1>1, PTL

\* END_PARTICIPATION_REQUEST ends the participation for good: what get_write_token
\* makes for a later request has expired.
THEOREM EndsBind == Spec => []EndBinds
<1>1. ASSUME IInv PROVE EndBinds
  BY <1>1 DEF IInv, RequestOK, TokenOK, EndBinds, Given
<1>2. QED
  BY Invariance, <1>1, PTL

\* revoke_access_keys makes handle_answer look at the row again: no answer that came
\* after it is written past the end that was recorded before it.
THEOREM RevocationBinds == Spec => []RevokedAreRechecked
<1>1. ASSUME IInv PROVE RevokedAreRechecked
  BY <1>1 DEF IInv, RequestOK, AnswerOK, RevokedAreRechecked
<1>2. QED
  BY Invariance, <1>1, PTL

-----------------------------------------------------------------------------
(***************************************************************************)
(* The pages of the contestant, of ContestPages: its variables are those   *)
(* of a browser, of which Contest knows nothing.                           *)
(***************************************************************************)
CONSTANTS Characters, Tasks, Cells, Typed, Juries, Budgets

VARIABLES role, time, clock, kim_ended, jury, answers, tab, sends, budget, typed

Pages == INSTANCE ContestPages WITH ended <- kim_ended

\* A page whose mount waits, or has its answer and goes on.
Pending == {"asked", "served", "refused"}

IsSequence(s) == \E S : s \in Seq(S)

\* Where a redirect may lead, and what is shown in the address bar.
Urls == {"", "solve", "#logout", "#update-header"} \cup Pages!LoginUrls

\* A tab and its pages have their parts.
Formed(b) ==
  /\ {"pages", "current", "main", "timers", "address", "back", "overtaken"} \subseteq DOMAIN b
  /\ IsSequence(b.pages)
  /\ \A i \in DOMAIN b.pages : {"at", "interval"} \subseteq DOMAIN b.pages[i]
  /\ b.current \in {Pages!Nothing} \cup DOMAIN b.pages
  /\ b.timers \in Seq(Urls) /\ b.address \in Urls /\ b.back \in Urls

\* A mount that is not done is that of the current page, or of one that was overtaken.
Followed(b) ==
  \A i \in DOMAIN b.pages : b.pages[i].at \in Pending => i = b.current \/ i \in b.overtaken

Owned(b) ==
  b.overtaken = {} =>
    /\ b.main \in {Pages!Nothing, Pages!LoginForm, b.current}
    /\ b.main = Pages!LoginForm => b.current = Pages!Nothing
    /\ \A i \in DOMAIN b.pages : b.pages[i].interval => i = b.current

TabOK(b) == Formed(b) /\ Followed(b) /\ Owned(b)

LEMMA AppendSequence ==
  ASSUME NEW s, IsSequence(s), NEW p
  PROVE  /\ IsSequence(Append(s, p)) /\ Len(s) \in Nat
         /\ DOMAIN s = 1..Len(s) /\ DOMAIN Append(s, p) = DOMAIN s \cup {Len(s) + 1}
         /\ Append(s, p)[Len(s) + 1] = p
         /\ \A i \in DOMAIN s : Append(s, p)[i] = s[i]
<1> DEFINE t == Append(s, p)
<1>1. PICK S : s \in Seq(S)
  BY DEF IsSequence
<1>2. s \in Seq(S \cup {p})
  <2>1. /\ Len(s) \in Nat /\ DOMAIN s = 1..Len(s)
        /\ \A i \in 1..Len(s) : s[i] \in S
    BY <1>1, LenProperties, ElementOfSeq
  <2>2. s = [i \in 1..Len(s) |-> s[i]]
    BY <1>1, SeqDef, <2>1
  <2> QED
    BY <2>1, <2>2, SeqDef
<1>3. /\ t \in Seq(S \cup {p}) /\ Len(t) = Len(s) + 1
      /\ \A i \in 1..Len(s) : t[i] = s[i]
      /\ t[Len(s) + 1] = p
  BY <1>2, AppendProperties
<1> HIDE DEF t
<1>4. Len(s) \in Nat /\ DOMAIN s = 1..Len(s) /\ DOMAIN t = 1..(Len(s) + 1)
  BY <1>2, <1>3, LenProperties
<1>5. IsSequence(t)
  BY <1>3 DEF IsSequence
<1> QED
  BY <1>3, <1>4, <1>5 DEF t

\* What has the domain of a sequence is one.
LEMMA SameDomain ==
  ASSUME NEW s, IsSequence(s), NEW t, DOMAIN t = DOMAIN s, t = [i \in DOMAIN t |-> t[i]]
  PROVE  IsSequence(t)
<1> DEFINE T == {t[i] : i \in DOMAIN t}
<1>1. PICK S : s \in Seq(S)
  BY DEF IsSequence
<1>2. Len(s) \in Nat /\ DOMAIN s = 1..Len(s)
  BY <1>1, LenProperties
<1>3. t \in [1..Len(s) -> T]
  BY <1>2
<1>4. t \in Seq(T)
  BY <1>2, <1>3, SeqDef
<1> QED
  BY <1>4 DEF IsSequence

\* The pages of a tab are numbered from 1.
LEMMA Numbered ==
  ASSUME NEW b, Formed(b)
  PROVE  /\ Pages!Nothing \notin DOMAIN b.pages
         /\ b.pages = [i \in DOMAIN b.pages |-> b.pages[i]]
<1>1. PICK S : b.pages \in Seq(S)
  BY DEF Formed, IsSequence
<1>2. Len(b.pages) \in Nat /\ DOMAIN b.pages = 1..Len(b.pages)
  BY <1>1, LenProperties
<1>3. b.pages = [i \in DOMAIN b.pages |-> b.pages[i]]
  BY <1>1, SeqDef
<1> QED
  BY <1>2, <1>3 DEF Pages!Nothing

\* Timers are added, pages are changed but not the part of them the invariant is about.
LEMMA Kept ==
  ASSUME NEW b, TabOK(b), NEW c,
         {"pages", "current", "main", "timers", "address", "back", "overtaken"} \subseteq DOMAIN c,
         DOMAIN c.pages = DOMAIN b.pages, c.pages = [i \in DOMAIN c.pages |-> c.pages[i]],
         \A i \in DOMAIN b.pages : /\ {"at", "interval"} \subseteq DOMAIN c.pages[i]
                                   /\ c.pages[i].at \in Pending => b.pages[i].at \in Pending
                                   /\ c.pages[i].interval = b.pages[i].interval,
         c.current = b.current, c.main = b.main, c.overtaken = b.overtaken,
         c.timers \in Seq(Urls), c.address \in Urls, c.back \in Urls
  PROVE  TabOK(c)
<1>1. Formed(b) /\ Followed(b) /\ Owned(b)
  BY DEF TabOK
<1>2. IsSequence(c.pages)
  BY <1>1, SameDomain DEF Formed
<1>3. Formed(c)
  BY <1>1, <1>2 DEF Formed
<1>4. Followed(c)
  BY <1>1 DEF Followed
<1>5. Owned(c)
  BY <1>1 DEF Owned
<1> QED
  BY <1>3, <1>4, <1>5 DEF TabOK

LEMMA RedirectKeeps ==
  ASSUME NEW b, TabOK(b), NEW url \in Urls
  PROVE  /\ TabOK(Pages!Redirect(b, url)) /\ Pages!Redirect(b, url).overtaken = b.overtaken
         /\ Pages!Redirect(b, url).pages = b.pages /\ Pages!Redirect(b, url).current = b.current
<1> DEFINE c == Pages!Redirect(b, url)
<1>1. Formed(b)
  BY DEF TabOK
<1>2. /\ DOMAIN c = DOMAIN b
      /\ \A f \in DOMAIN b : f # "timers" => c[f] = b[f]
      /\ c.timers = Append(b.timers, url)
  BY <1>1 DEF Formed, Pages!Redirect
<1>3. c.timers \in Seq(Urls)
  BY <1>1, <1>2, AppendProperties DEF Formed
<1>4. /\ c.pages = b.pages /\ c.current = b.current /\ c.main = b.main
      /\ c.overtaken = b.overtaken /\ c.address = b.address /\ c.back = b.back
  BY <1>1, <1>2 DEF Formed
<1>5. c.pages = [i \in DOMAIN c.pages |-> c.pages[i]]
  BY <1>1, <1>4, Numbered
<1> HIDE DEF c
<1>6. TabOK(c)
  BY <1>1, <1>2, <1>3, <1>4, <1>5, Kept DEF Formed
<1> QED
  BY <1>4, <1>6 DEF c

\* What a page leaves behind: no page is current, the interval is stopped, and a mount
\* that was not done is one that was overtaken.
LEMMA UnmountedTab ==
  ASSUME NEW b, TabOK(b), NEW u, u = Pages!Unmounted(b)
  PROVE  /\ TabOK([u EXCEPT !.main = Pages!Nothing, !.shade = TRUE])
         /\ u.current = Pages!Nothing /\ b.overtaken \subseteq u.overtaken
         /\ DOMAIN u.pages = DOMAIN b.pages
         /\ b.current # Pages!Nothing /\ b.pages[b.current].at \in Pending =>
              b.current \in u.overtaken
<1>1. Formed(b) /\ Followed(b) /\ Owned(b)
  BY DEF TabOK
<1>2. Pages!Nothing \notin DOMAIN b.pages /\ b.pages = [i \in DOMAIN b.pages |-> b.pages[i]]
  BY <1>1, Numbered
<1>3. /\ DOMAIN u = DOMAIN b
      /\ u.main = b.main /\ u.timers = b.timers /\ u.address = b.address /\ u.back = b.back
      /\ u.current = Pages!Nothing
      /\ DOMAIN u.pages = DOMAIN b.pages
      /\ u.pages = [i \in DOMAIN u.pages |-> u.pages[i]]
  BY <1>1, <1>2 DEF Formed, Pages!Unmounted, Pages!Nothing
<1>4. ASSUME NEW i \in DOMAIN b.pages
      PROVE  /\ {"at", "interval"} \subseteq DOMAIN u.pages[i]
             /\ u.pages[i].at = b.pages[i].at
             /\ i # b.current => u.pages[i].interval = b.pages[i].interval
             /\ i = b.current => u.pages[i].interval = FALSE
  <2>1. CASE b.current = Pages!Nothing
    <3>1. u = b
      BY <2>1 DEF Pages!Unmounted
    <3>2. i # b.current
      BY <1>2, <2>1
    <3> QED
      BY <1>1, <3>1, <3>2 DEF Formed
  <2>2. CASE b.current # Pages!Nothing
    <3> DEFINE q == [b.pages[b.current] EXCEPT !.interval = FALSE]
    <3>1. /\ "pages" \in DOMAIN b /\ b.current \in DOMAIN b.pages
          /\ {"at", "interval"} \subseteq DOMAIN b.pages[b.current]
          /\ {"at", "interval"} \subseteq DOMAIN b.pages[i]
      BY <1>1, <2>2 DEF Formed
    <3>2. u.pages = [b.pages EXCEPT ![b.current] = q]
      BY <2>2, <3>1 DEF Pages!Unmounted
    <3>3. /\ {"at", "interval"} \subseteq DOMAIN q
          /\ q.at = b.pages[b.current].at /\ q.interval = FALSE
      BY <3>1
    <3> HIDE DEF q
    <3>4. CASE i = b.current
      BY <3>1, <3>2, <3>3, <3>4
    <3>5. CASE i # b.current
      BY <3>1, <3>2, <3>5
    <3> QED
      BY <3>4, <3>5
  <2> QED
    BY <2>1, <2>2
<1>5. /\ b.overtaken \subseteq u.overtaken
      /\ b.current # Pages!Nothing /\ b.pages[b.current].at \in Pending => b.current \in u.overtaken
  BY <1>1 DEF Pages!Unmounted, Formed, Pending
<1> DEFINE c == [u EXCEPT !.main = Pages!Nothing, !.shade = TRUE]
<1>6. /\ DOMAIN c = DOMAIN u /\ c.main = Pages!Nothing
      /\ c.pages = u.pages /\ c.current = u.current /\ c.timers = u.timers
      /\ c.address = u.address /\ c.back = u.back /\ c.overtaken = u.overtaken
  BY <1>1, <1>3 DEF Formed
<1> HIDE DEF c
<1>10. ASSUME NEW i \in DOMAIN c.pages
       PROVE  /\ i \in DOMAIN b.pages /\ c.pages[i].at = b.pages[i].at
              /\ i # b.current => c.pages[i].interval = b.pages[i].interval
              /\ i = b.current => c.pages[i].interval = FALSE
  <2>1. i \in DOMAIN b.pages /\ c.pages[i] = u.pages[i]
    BY <1>3, <1>6
  <2> QED
    BY <1>4, <2>1
<1>7. Formed(c)
  <2>1. IsSequence(c.pages)
    BY <1>1, <1>3, <1>6, SameDomain DEF Formed
  <2> QED
    BY <1>1, <1>3, <1>4, <1>6, <2>1 DEF Formed
<1>8. Followed(c)
  <2>1. ASSUME NEW i \in DOMAIN c.pages, c.pages[i].at \in Pending PROVE i \in c.overtaken
    <3>1. i \in DOMAIN b.pages /\ b.pages[i].at \in Pending
      BY <1>10, <2>1
    <3>2. i = b.current \/ i \in b.overtaken
      BY <1>1, <3>1 DEF Followed
    <3> QED
      BY <1>2, <1>5, <1>6, <3>1, <3>2
  <2> QED
    BY <2>1 DEF Followed
<1>9. Owned(c)
  <2> SUFFICES ASSUME c.overtaken = {} PROVE Owned(c)
    BY DEF Owned
  <2>1. b.overtaken = {}
    BY <1>5, <1>6
  <2>2. ASSUME NEW i \in DOMAIN c.pages PROVE ~c.pages[i].interval
    <3>1. i \in DOMAIN b.pages /\ (b.pages[i].interval => i = b.current)
      BY <1>1, <1>10, <2>1 DEF Owned
    <3> QED
      BY <1>10, <3>1
  <2> QED
    BY <1>6, <2>2 DEF Owned, Pages!Nothing, Pages!LoginForm
<1> QED
  BY <1>3, <1>5, <1>7, <1>8, <1>9 DEF TabOK, c

\* What is kept when a page is entered or left: the pages that were there keep their
\* places, and what was overtaken stays so.
Extends(c, b) == DOMAIN b.pages \subseteq DOMAIN c.pages /\ b.overtaken \subseteq c.overtaken

LEMMA OpenedTab ==
  ASSUME NEW b, TabOK(b), b.current = Pages!Nothing, b.main = Pages!Nothing, NEW url \in Urls,
         NEW p, {"at", "interval"} \subseteq DOMAIN p, p.interval = FALSE,
         NEW c, c = [b EXCEPT !.pages = Append(b.pages, p), !.current = Len(b.pages) + 1,
                              !.address = url]
  PROVE  TabOK(c) /\ Extends(c, b) /\ DOMAIN c = DOMAIN b
<1>1. Formed(b) /\ Followed(b) /\ Owned(b)
  BY DEF TabOK
<1>2. /\ DOMAIN c = DOMAIN b
      /\ c.pages = Append(b.pages, p) /\ c.current = Len(b.pages) + 1 /\ c.address = url
      /\ c.main = b.main /\ c.overtaken = b.overtaken /\ c.timers = b.timers
      /\ c.back = b.back
  BY <1>1 DEF Formed
<1>3. /\ IsSequence(c.pages) /\ Len(b.pages) \in Nat /\ c.current \in DOMAIN c.pages
      /\ DOMAIN b.pages = 1..Len(b.pages)
      /\ DOMAIN c.pages = DOMAIN b.pages \cup {c.current}
      /\ c.pages[c.current] = p
      /\ \A i \in DOMAIN b.pages : c.pages[i] = b.pages[i]
  <2>1. IsSequence(b.pages)
    BY <1>1 DEF Formed
  <2>2. /\ IsSequence(Append(b.pages, p)) /\ Len(b.pages) \in Nat
        /\ DOMAIN b.pages = 1..Len(b.pages)
        /\ DOMAIN Append(b.pages, p) = DOMAIN b.pages \cup {Len(b.pages) + 1}
        /\ Append(b.pages, p)[Len(b.pages) + 1] = p
        /\ \A i \in DOMAIN b.pages : Append(b.pages, p)[i] = b.pages[i]
    BY <2>1, AppendSequence
  <2> QED
    BY <1>2, <2>2
<1>4. Formed(c)
  BY <1>1, <1>2, <1>3 DEF Formed
<1>5. \A i \in DOMAIN b.pages : i # Pages!Nothing
  BY <1>3 DEF Pages!Nothing
<1>6. Followed(c)
  BY <1>1, <1>2, <1>3, <1>5 DEF Followed
<1>7. Owned(c)
  BY <1>1, <1>2, <1>3, <1>5 DEF Owned, Pages!Nothing, Pages!LoginForm
<1> QED
  BY <1>2, <1>3, <1>4, <1>6, <1>7 DEF TabOK, Extends

LEMMA EnterKeeps ==
  ASSUME NEW b, TabOK(b), b.current = Pages!Nothing, b.main = Pages!Nothing, NEW url \in Urls
  PROVE  TabOK(Pages!Enter(b, url)) /\ Extends(Pages!Enter(b, url), b)
<1>1. Formed(b) /\ Followed(b) /\ Owned(b)
  BY DEF TabOK
<1>2. Pages!Nothing \notin DOMAIN b.pages /\ b.pages = [i \in DOMAIN b.pages |-> b.pages[i]]
  BY <1>1, Numbered
<1>3. CASE url = "#update-header"
  BY <1>3 DEF Pages!Enter, Pages!LoginUrls, Extends
<1>4. CASE url = "#logout"
  <2> DEFINE c == [b EXCEPT !.loggingOut = TRUE]
  <2>1. c = Pages!Enter(b, url)
    BY <1>4 DEF Pages!Enter, Pages!LoginUrls
  <2>2. /\ DOMAIN c = DOMAIN b /\ c.pages = b.pages /\ c.current = b.current /\ c.main = b.main
        /\ c.overtaken = b.overtaken /\ c.timers = b.timers /\ c.address = b.address
        /\ c.back = b.back
    BY <1>1 DEF Formed
  <2> HIDE DEF c
  <2> QED
    BY <1>1, <1>2, <2>1, <2>2, Kept DEF Formed, Extends
<1>5. CASE url \in Pages!LoginUrls /\ b.user # "none"
  <2> DEFINE c == [b EXCEPT !.address = url]
  <2>1. Pages!Enter(b, url) = Pages!Redirect(c, "")
    BY <1>5 DEF Pages!Enter, Pages!LoginUrls
  <2>2. /\ DOMAIN c = DOMAIN b /\ c.pages = b.pages /\ c.current = b.current /\ c.main = b.main
        /\ c.overtaken = b.overtaken /\ c.timers = b.timers /\ c.address = url
        /\ c.back = b.back
    BY <1>1 DEF Formed
  <2> HIDE DEF c
  <2>3. TabOK(c)
    BY <1>1, <1>2, <2>2, Kept DEF Formed
  <2>4. /\ TabOK(Pages!Redirect(c, "")) /\ Pages!Redirect(c, "").overtaken = c.overtaken
        /\ Pages!Redirect(c, "").pages = c.pages
    BY <2>3, RedirectKeeps DEF Urls
  <2> QED
    BY <2>1, <2>2, <2>4 DEF Extends
<1>6. CASE url \in Pages!LoginUrls /\ b.user = "none"
  <2> DEFINE c == [b EXCEPT !.address = url, !.main = Pages!LoginForm, !.shade = FALSE]
  <2>1. Pages!Enter(b, url) = c
    BY <1>6 DEF Pages!Enter, Pages!LoginUrls
  <2>2. /\ DOMAIN c = DOMAIN b /\ c.pages = b.pages /\ c.current = b.current
        /\ c.main = Pages!LoginForm
        /\ c.overtaken = b.overtaken /\ c.timers = b.timers /\ c.address = url
        /\ c.back = b.back
    BY <1>1 DEF Formed
  <2> HIDE DEF c
  <2>3. Formed(c) /\ Followed(c) /\ Owned(c)
    BY <1>1, <2>2 DEF Formed, Followed, Owned
  <2> QED
    BY <2>1, <2>2, <2>3 DEF TabOK, Extends
<1>7. CASE url \in {"", "solve"} /\ b.user = "none"
  <2> DEFINE p == Pages!NewPage(url, "failed", TRUE)
             c == [b EXCEPT !.pages = Append(b.pages, p), !.current = Len(b.pages) + 1,
                            !.address = url]
             sent == Pages!Redirect(c, Pages!LoginFor(url))
  <2>1. Pages!Enter(b, url) = sent
    BY <1>7 DEF Pages!Enter, Pages!LoginUrls
  <2>2. {"at", "interval"} \subseteq DOMAIN p /\ p.interval = FALSE
    BY DEF Pages!NewPage
  <2> HIDE DEF p
  <2>3. TabOK(c) /\ Extends(c, b)
    BY <2>2, OpenedTab
  <2> HIDE DEF c
  <2>4. Pages!LoginFor(url) \in Urls
    BY DEF Pages!LoginFor, Pages!LoginUrls, Urls
  <2>5. TabOK(sent) /\ sent.overtaken = c.overtaken /\ sent.pages = c.pages
    BY <2>3, <2>4, RedirectKeeps
  <2> QED
    BY <2>1, <2>3, <2>5 DEF Extends
<1>8. CASE url \in {"", "solve"} /\ b.user # "none"
  <2> DEFINE p == Pages!NewPage(url, "asked", url = "" \/ b.user = "admin")
             c == [b EXCEPT !.pages = Append(b.pages, p), !.current = Len(b.pages) + 1,
                            !.address = url]
  <2>1. Pages!Enter(b, url) = c
    BY <1>8 DEF Pages!Enter, Pages!LoginUrls
  <2>2. {"at", "interval"} \subseteq DOMAIN p /\ p.interval = FALSE
    BY DEF Pages!NewPage
  <2> HIDE DEF p
  <2> QED
    BY <2>1, <2>2, OpenedTab
<1> QED
  BY <1>3, <1>4, <1>5, <1>6, <1>7, <1>8 DEF Urls

\* A navigation keeps the invariant; one that leaves a page whose mount is not done
\* overtakes it, and one that is refused changes nothing of the pages.
LEMMA goToKeeps ==
  ASSUME NEW b, TabOK(b), NEW url \in Urls
  PROVE  /\ TabOK(Pages!goTo(b, url)) /\ Extends(Pages!goTo(b, url), b)
         /\ \/ Pages!goTo(b, url) = [b EXCEPT !.shade = FALSE]
            \/ /\ b.current # Pages!Nothing /\ b.pages[b.current].at \in Pending
               => Pages!goTo(b, url).overtaken # {}
<1>1. Formed(b)
  BY DEF TabOK
<1>2. CASE Pages!Leaves(b)
  <2> DEFINE u == Pages!Unmounted(b)
             c == [u EXCEPT !.main = Pages!Nothing, !.shade = TRUE]
  <2>1. Pages!goTo(b, url) = Pages!Enter(c, url)
    BY <1>2 DEF Pages!goTo
  <2>2. /\ TabOK(c) /\ u.current = Pages!Nothing /\ b.overtaken \subseteq u.overtaken
        /\ DOMAIN u.pages = DOMAIN b.pages
        /\ b.current # Pages!Nothing /\ b.pages[b.current].at \in Pending =>
             b.current \in u.overtaken
    BY UnmountedTab
  <2>3. DOMAIN c = DOMAIN u
    OBVIOUS
  <2>4. /\ c.current = u.current /\ c.main = Pages!Nothing
        /\ c.pages = u.pages /\ c.overtaken = u.overtaken
    <3>1. {"pages", "current", "main", "overtaken"} \subseteq DOMAIN u
      BY <2>2, <2>3 DEF TabOK, Formed
    <3> QED
      BY <3>1
  <2> HIDE DEF u, c
  <2>5. TabOK(Pages!Enter(c, url)) /\ Extends(Pages!Enter(c, url), c)
    BY <2>2, <2>4, EnterKeeps
  <2> QED
    BY <2>1, <2>2, <2>4, <2>5 DEF Extends
<1>3. CASE ~Pages!Leaves(b)
  <2> DEFINE c == [b EXCEPT !.shade = FALSE]
  <2>1. Pages!goTo(b, url) = c
    BY <1>3 DEF Pages!goTo
  <2>2. /\ DOMAIN c = DOMAIN b /\ c.pages = b.pages /\ c.current = b.current /\ c.main = b.main
        /\ c.overtaken = b.overtaken /\ c.timers = b.timers /\ c.address = b.address
        /\ c.back = b.back
    BY <1>1 DEF Formed
  <2>3. b.pages = [i \in DOMAIN b.pages |-> b.pages[i]]
    BY <1>1, Numbered
  <2> HIDE DEF c
  <2>4. TabOK(c)
    BY <1>1, <2>2, <2>3, Kept DEF Formed
  <2> QED
    BY <2>1, <2>2, <2>4 DEF Extends, c
<1> QED
  BY <1>2, <1>3

\* All but the pages of a tab is as it was, as far as the invariant goes.
SameRouter(c, b) ==
  /\ DOMAIN c = DOMAIN b /\ c.current = b.current /\ c.main = b.main
  /\ c.overtaken = b.overtaken /\ c.timers = b.timers /\ c.address = b.address
  /\ c.back = b.back

\* Of the pages, one is changed.
Replaces(c, b, i, q) == SameRouter(c, b) /\ c.pages = [b.pages EXCEPT ![i] = q]

\* What may become of a page at any time: its interval is as it was, and its mount is
\* not begun again.
Quieter(q, p) ==
  /\ {"at", "interval"} \subseteq DOMAIN q /\ q.interval = p.interval
  /\ q.at \in Pending => p.at \in Pending

LEMMA PageChanged ==
  ASSUME NEW b, TabOK(b), NEW c, NEW i, NEW q, Replaces(c, b, i, q),
         i \in DOMAIN b.pages => Quieter(q, b.pages[i])
  PROVE  TabOK(c)
<1>1. Formed(b)
  BY DEF TabOK
<1>2. /\ DOMAIN c.pages = DOMAIN b.pages /\ c.pages = [j \in DOMAIN c.pages |-> c.pages[j]]
      /\ SameRouter(c, b)
      /\ \A j \in DOMAIN b.pages : c.pages[j] = IF j = i THEN q ELSE b.pages[j]
  BY DEF Replaces
<1>3. ASSUME NEW j \in DOMAIN b.pages
      PROVE  /\ {"at", "interval"} \subseteq DOMAIN c.pages[j]
             /\ c.pages[j].at \in Pending => b.pages[j].at \in Pending
             /\ c.pages[j].interval = b.pages[j].interval
  <2>1. CASE j = i
    BY <1>2, <2>1 DEF Quieter
  <2>2. CASE j # i
    BY <1>1, <1>2, <2>2 DEF Formed
  <2> QED
    BY <2>1, <2>2
<1>4. /\ {"pages", "current", "main", "timers", "address", "back", "overtaken"} \subseteq DOMAIN c
      /\ c.timers \in Seq(Urls) /\ c.address \in Urls /\ c.back \in Urls
  BY <1>1, <1>2 DEF Formed, SameRouter
<1> QED
  BY <1>2, <1>3, <1>4, Kept DEF SameRouter

\* A part of a page is changed that the invariant is not about.
LEMMA PartChanged ==
  ASSUME NEW b, TabOK(b), NEW c, NEW i, NEW f, f \notin {"at", "interval"}, NEW v,
         c = [b EXCEPT !.pages[i][f] = v]
  PROVE  TabOK(c) /\ SameRouter(c, b) /\ DOMAIN c.pages = DOMAIN b.pages
<1> DEFINE q == [b.pages[i] EXCEPT ![f] = v]
<1>1. Formed(b)
  BY DEF TabOK
<1>2. SameRouter(c, b)
  BY <1>1 DEF Formed, SameRouter
<1>3. c.pages = [b.pages EXCEPT ![i] = q]
  BY <1>1 DEF Formed
<1>4. i \in DOMAIN b.pages => Quieter(q, b.pages[i])
  BY <1>1 DEF Formed, Quieter
<1>5. Replaces(c, b, i, q)
  BY <1>2, <1>3 DEF Replaces
<1> HIDE DEF q
<1>6. TabOK(c)
  BY <1>4, <1>5, PageChanged
<1> QED
  BY <1>2, <1>3, <1>6

\* Nothing the invariant is about is changed.
LEMMA RouterOnly ==
  ASSUME NEW b, TabOK(b), NEW c, SameRouter(c, b), c.pages = b.pages
  PROVE  TabOK(c)
<1>1. Formed(b)
  BY DEF TabOK
<1>2. c.pages = [j \in DOMAIN c.pages |-> c.pages[j]]
  BY <1>1, Numbered
<1>3. /\ {"pages", "current", "main", "timers", "address", "back", "overtaken"} \subseteq DOMAIN c
      /\ c.timers \in Seq(Urls) /\ c.address \in Urls /\ c.back \in Urls
      /\ \A i \in DOMAIN b.pages : {"at", "interval"} \subseteq DOMAIN b.pages[i]
  BY <1>1 DEF Formed, SameRouter
<1> QED
  BY <1>2, <1>3, Kept DEF SameRouter

LEMMA NewTabOK == ASSUME NEW user PROVE TabOK(Pages!NewTab(user))
<1> DEFINE b == Pages!NewTab(user)
<1>1. /\ DOMAIN b = {"user", "pages", "current", "main", "shade", "timers", "address", "back",
                     "loggingIn", "loggingOut", "ending", "overtaken"}
      /\ b.pages = <<>> /\ b.current = Pages!Nothing /\ b.main = Pages!Nothing /\ b.timers = <<>>
      /\ b.address = "" /\ b.back = "" /\ b.overtaken = {}
  BY DEF Pages!NewTab
<1> HIDE DEF b
<1>2. b.pages \in Seq({}) /\ b.timers \in Seq(Urls) /\ DOMAIN b.pages = {}
  <2>1. <<>> \in Seq({}) /\ <<>> \in Seq(Urls) /\ Len(<<>>) = 0
    BY EmptySeq
  <2>2. DOMAIN <<>> = {}
    OBVIOUS
  <2> QED
    BY <1>1, <2>1, <2>2
<1>3. Formed(b)
  BY <1>1, <1>2 DEF Formed, IsSequence, Urls
<1>4. Followed(b) /\ Owned(b)
  BY <1>1, <1>2 DEF Followed, Owned
<1> QED
  BY <1>3, <1>4 DEF TabOK, b

LEMMA Loaded == ASSUME NEW user, NEW url \in Urls PROVE TabOK(Pages!goTo(Pages!NewTab(user), url))
BY NewTabOK, goToKeeps

LEMMA InitTab == Pages!Init => TabOK(tab)
<1> SUFFICES ASSUME Pages!Init PROVE TabOK(tab)
  OBVIOUS
<1>1. \/ tab = Pages!goTo(Pages!NewTab("none"), "")
      \/ tab = Pages!goTo(Pages!NewTab(role), "")
  BY DEF Pages!Init
<1> QED
  BY <1>1, Loaded DEF Urls

-----------------------------------------------------------------------------
\* The steps, each by what it does to the tab.
LEMMA TimerSteps == ASSUME TabOK(tab), Pages!Timer PROVE TabOK(tab')
<1> DEFINE c == [tab EXCEPT !.timers = Tail(@)]
<1>1. tab.timers # <<>> /\ tab' = Pages!goTo(c, Head(tab.timers))
  BY DEF Pages!Timer, Pages!Step
<1>2. Formed(tab)
  BY DEF TabOK
<1>3. /\ DOMAIN c = DOMAIN tab /\ c.pages = tab.pages /\ c.current = tab.current
      /\ c.main = tab.main /\ c.overtaken = tab.overtaken /\ c.timers = Tail(tab.timers)
      /\ c.address = tab.address /\ c.back = tab.back
  BY <1>2 DEF Formed
<1> HIDE DEF c
<1>4. Head(tab.timers) \in Urls /\ Tail(tab.timers) \in Seq(Urls)
  BY <1>1, <1>2, HeadTailProperties DEF Formed
<1>5. c.pages = [j \in DOMAIN c.pages |-> c.pages[j]]
  BY <1>2, <1>3, Numbered
<1>6. TabOK(c)
  BY <1>2, <1>3, <1>4, <1>5, Kept DEF Formed
<1> QED
  BY <1>1, <1>4, <1>6, goToKeeps

LEMMA GoSteps ==
  ASSUME TabOK(tab), NEW url \in {"", "solve", "login", "#logout"}, Pages!Go(url) PROVE TabOK(tab')
BY RedirectKeeps DEF Pages!Go, Pages!Step, Urls, Pages!LoginUrls

LEMMA ReloadSteps == ASSUME TabOK(tab), Pages!Reload PROVE TabOK(tab')
<1>1. tab.address \in Urls
  BY DEF TabOK, Formed
<1> QED
  BY <1>1, Loaded DEF Pages!Reload

LEMMA ServeSteps ==
  ASSUME TabOK(tab), NEW i \in DOMAIN tab.pages, Pages!Serve(i) PROVE TabOK(tab')
<1>1. Formed(tab)
  BY DEF TabOK
<1>2. tab.pages[i].at \in Pending
  BY DEF Pages!Serve, Pending
<1>3. PICK given, troubled :
        \/ tab' = [tab EXCEPT !.pages[i].at = "served", !.pages[i].given = given,
                              !.pages[i].troubled = troubled]
        \/ tab' = [tab EXCEPT !.pages[i].at = "refused"]
  BY DEF Pages!Serve, Pages!Step
<1>4. CASE tab' = [tab EXCEPT !.pages[i].at = "refused"]
  <2> DEFINE q == [tab.pages[i] EXCEPT !.at = "refused"]
  <2>1. Replaces(tab', tab, i, q)
    BY <1>1, <1>4 DEF Formed, SameRouter, Replaces
  <2>2. Quieter(q, tab.pages[i])
    BY <1>1, <1>2 DEF Formed, Quieter
  <2> QED
    BY <2>1, <2>2, PageChanged
<1>5. CASE tab' = [tab EXCEPT !.pages[i].at = "served", !.pages[i].given = given,
                              !.pages[i].troubled = troubled]
  <2> DEFINE q == [tab.pages[i] EXCEPT !.at = "served"]
             b == [tab EXCEPT !.pages[i].at = "served"]
             c == [b EXCEPT !.pages[i].given = given]
  <2>1. tab' = [c EXCEPT !.pages[i].troubled = troubled]
    BY <1>5
  <2>2. Replaces(b, tab, i, q) /\ DOMAIN b.pages = DOMAIN tab.pages
    BY <1>1 DEF Formed, SameRouter, Replaces
  <2>3. Quieter(q, tab.pages[i])
    BY <1>1, <1>2 DEF Formed, Quieter
  <2>4. c = [b EXCEPT !.pages[i].given = given]
    OBVIOUS
  <2> HIDE DEF b, c, q
  <2>5. TabOK(b) /\ i \in DOMAIN b.pages
    BY <2>2, <2>3, PageChanged
  <2>6. TabOK(c) /\ i \in DOMAIN c.pages
    BY <2>4, <2>5, PartChanged
  <2> QED
    BY <2>1, <2>6, PartChanged
<1> QED
  BY <1>3, <1>4, <1>5

\* updateCountdown of an entry, with the navigation it may begin: one that leaves a page
\* whose mount goes on overtakes it.
LEMMA CountMainKeeps ==
  ASSUME NEW b, TabOK(b), NEW i \in DOMAIN b.pages
  PROVE  /\ TabOK(Pages!CountMain(b, i)) /\ Extends(Pages!CountMain(b, i), b)
         /\ \/ SameRouter(Pages!CountMain(b, i), b)
            \/ i = b.current /\ b.pages[i].at \in Pending => Pages!CountMain(b, i).overtaken # {}
<1> DEFINE status == CASE time = "before" -> 0 [] time = "running" -> 1 [] OTHER -> 2
           gone == IF status = 1 /\ b.pages[i].lastStatus = 0 THEN Pages!goTo(b, "solve") ELSE b
<1>1. Pages!CountMain(b, i) = [gone EXCEPT !.pages[i].lastStatus = status]
  BY DEF Pages!CountMain
<1>2. Formed(b) /\ i # Pages!Nothing
  BY Numbered DEF TabOK
<1>3. /\ TabOK(gone) /\ Extends(gone, b)
      /\ \/ SameRouter(gone, b)
         \/ i = b.current /\ b.pages[i].at \in Pending => gone.overtaken # {}
  <2>1. CASE gone = b
    BY <2>1 DEF Extends, SameRouter
  <2>2. CASE gone = Pages!goTo(b, "solve")
    <3>1. /\ TabOK(gone) /\ Extends(gone, b)
          /\ \/ gone = [b EXCEPT !.shade = FALSE]
             \/ /\ b.current # Pages!Nothing /\ b.pages[b.current].at \in Pending
                => gone.overtaken # {}
      BY <2>2, goToKeeps DEF Urls
    <3>2. ASSUME gone = [b EXCEPT !.shade = FALSE] PROVE SameRouter(gone, b)
      BY <1>2, <3>2 DEF SameRouter, Formed
    <3> QED
      BY <1>2, <3>1, <3>2
  <2> QED
    BY <2>1, <2>2
<1> HIDE DEF status, gone
<1>4. i \in DOMAIN gone.pages
  BY <1>3 DEF Extends
<1> DEFINE c == [gone EXCEPT !.pages[i].lastStatus = status]
<1>5. TabOK(c) /\ SameRouter(c, gone) /\ DOMAIN c.pages = DOMAIN gone.pages
  BY <1>3, <1>4, PartChanged
<1> HIDE DEF c
<1>6. Pages!CountMain(b, i) = c
  BY <1>1 DEF c
<1>7. Extends(c, b)
  BY <1>3, <1>5 DEF Extends, SameRouter
<1>8. \/ SameRouter(c, b)
      \/ i = b.current /\ b.pages[i].at \in Pending => c.overtaken # {}
  BY <1>3, <1>5 DEF SameRouter
<1> QED
  BY <1>5, <1>6, <1>7, <1>8

LEMMA CountSolveKeeps ==
  ASSUME NEW b, TabOK(b), NEW i \in DOMAIN b.pages
  PROVE  TabOK(Pages!CountSolve(b, i))
<1> DEFINE c == [b EXCEPT !.pages[i].unloadable = TRUE]
<1>1. TabOK(c)
  BY PartChanged
<1> HIDE DEF c
<1>2. TabOK(Pages!Redirect(c, ""))
  BY <1>1, RedirectKeeps DEF Urls
<1> QED
  BY <1>2 DEF Pages!CountSolve, c

LEMMA IntervalSteps ==
  ASSUME TabOK(tab), NEW i \in DOMAIN tab.pages, Pages!Interval(i) PROVE TabOK(tab')
BY CountMainKeeps, CountSolveKeeps DEF Pages!Interval, Pages!Step

\* The page whose mount goes on is shown, and its interval runs: it is the current one,
\* or one that was overtaken.
LEMMA ShownKeeps ==
  ASSUME NEW b, TabOK(b), NEW i \in DOMAIN b.pages, i = b.current \/ b.overtaken # {},
         NEW p, p.at = "shown", {"at", "interval"} \subseteq DOMAIN p,
         NEW c, c = [b EXCEPT !.pages[i] = p, !.main = i, !.shade = FALSE]
  PROVE  TabOK(c)
<1>1. Formed(b) /\ Followed(b) /\ Owned(b)
  BY DEF TabOK
<1>2. /\ DOMAIN c = DOMAIN b /\ c.current = b.current /\ c.main = i
      /\ c.overtaken = b.overtaken /\ c.timers = b.timers /\ c.address = b.address
      /\ c.back = b.back /\ c.pages = [b.pages EXCEPT ![i] = p]
  BY <1>1 DEF Formed
<1>3. IsSequence(c.pages)
  <2>1. DOMAIN c.pages = DOMAIN b.pages /\ c.pages = [j \in DOMAIN c.pages |-> c.pages[j]]
    BY <1>2
  <2> QED
    BY <1>1, <2>1, SameDomain DEF Formed
<1>4. /\ DOMAIN c.pages = DOMAIN b.pages /\ c.pages[i] = p
      /\ \A j \in DOMAIN b.pages : j # i => c.pages[j] = b.pages[j]
  BY <1>2
<1>5. Formed(c)
  BY <1>1, <1>2, <1>3, <1>4 DEF Formed
<1>6. Followed(c)
  BY <1>1, <1>2, <1>4 DEF Followed, Pending
<1>7. i # Pages!Nothing /\ i # Pages!LoginForm
  <2>1. PICK S : b.pages \in Seq(S)
    BY <1>1 DEF Formed, IsSequence
  <2> QED
    BY <2>1, LenProperties DEF Pages!Nothing, Pages!LoginForm
<1>8. Owned(c)
  BY <1>1, <1>2, <1>4, <1>7 DEF Owned
<1> QED
  BY <1>5, <1>6, <1>8 DEF TabOK

LEMMA MountMainKeeps ==
  ASSUME NEW b, TabOK(b), NEW i \in DOMAIN b.pages, b.pages[i].at \in {"served", "refused"}
  PROVE  TabOK(Pages!MountMain(b, i))
<1>1. Formed(b) /\ Followed(b)
  BY DEF TabOK
<1>2. CASE b.pages[i].at = "refused"
  <2> DEFINE c == [Pages!Failed(b, i) EXCEPT !.shade = FALSE]
             q == [b.pages[i] EXCEPT !.at = "failed"]
  <2>1. Replaces(c, b, i, q) /\ DOMAIN c.pages = DOMAIN b.pages
    BY <1>1 DEF Formed, SameRouter, Pages!Failed, Replaces
  <2>2. Quieter(q, b.pages[i])
    BY <1>1 DEF Formed, Pending, Quieter
  <2> HIDE DEF c, q
  <2>3. TabOK(c)
    BY <2>1, <2>2, PageChanged
  <2> QED
    BY <1>2, <2>3 DEF Pages!MountMain, c
<1>3. CASE b.pages[i].at = "served"
  <2> DEFINE d == Pages!CountMain(b, i)
             p == [[d.pages[i] EXCEPT !.at = "shown"] EXCEPT !.interval = TRUE]
             c == [d EXCEPT !.pages[i] = p, !.main = i, !.shade = FALSE]
  <2>1. /\ TabOK(d) /\ i \in DOMAIN d.pages
        /\ i = d.current \/ d.overtaken # {}
    <3>1. /\ TabOK(d) /\ Extends(d, b)
          /\ \/ SameRouter(d, b)
             \/ i = b.current /\ b.pages[i].at \in Pending => d.overtaken # {}
      BY CountMainKeeps
    <3>2. i = b.current \/ i \in b.overtaken
      BY <1>1, <1>3 DEF Followed, Pending
    <3> QED
      BY <1>3, <3>1, <3>2 DEF Extends, SameRouter, Pending
  <2>2. Pages!MountMain(b, i) = [d EXCEPT !.pages[i].at = "shown", !.pages[i].interval = TRUE,
                                    !.main = i, !.shade = FALSE]
    BY <1>3 DEF Pages!MountMain
  <2> HIDE DEF d
  <2>3. Formed(d)
    BY <2>1 DEF TabOK
  <2>4. p.at = "shown" /\ {"at", "interval"} \subseteq DOMAIN p
    BY <2>1, <2>3 DEF Formed
  <2>5. Pages!MountMain(b, i) = c
    <3>1. [[d EXCEPT !.pages[i].at = "shown"] EXCEPT !.pages[i].interval = TRUE]
            = [d EXCEPT !.pages[i] = p]
      BY <2>1, <2>3 DEF Formed
    <3> QED
      BY <2>2, <3>1
  <2> HIDE DEF p, c
  <2>6. c = [d EXCEPT !.pages[i] = p, !.main = i, !.shade = FALSE]
    BY DEF c
  <2>7. TabOK(c)
    BY <2>1, <2>4, <2>6, ShownKeeps
  <2> QED
    BY <2>5, <2>7
<1> QED
  BY <1>2, <1>3

LEMMA FailedKeeps ==
  ASSUME NEW b, TabOK(b), NEW i \in DOMAIN b.pages
  PROVE  TabOK(Pages!Failed(b, i)) /\ i \in DOMAIN Pages!Failed(b, i).pages
<1> DEFINE c == Pages!Failed(b, i)
           q == [b.pages[i] EXCEPT !.at = "failed"]
<1>1. Formed(b)
  BY DEF TabOK
<1>2. Replaces(c, b, i, q) /\ DOMAIN c.pages = DOMAIN b.pages
  BY <1>1 DEF Formed, SameRouter, Pages!Failed, Replaces
<1>3. Quieter(q, b.pages[i])
  BY <1>1 DEF Formed, Pending, Quieter
<1> HIDE DEF c, q
<1>4. TabOK(c) /\ i \in DOMAIN c.pages
  BY <1>2, <1>3, PageChanged
<1> QED
  BY <1>4 DEF c

LEMMA MountSolveKeeps ==
  ASSUME NEW b, TabOK(b), NEW i \in DOMAIN b.pages, b.pages[i].at \in {"served", "refused"}
  PROVE  TabOK(Pages!MountSolve(b, i))
<1>1. Formed(b) /\ Followed(b)
  BY DEF TabOK
<1>2. TabOK(Pages!Failed(b, i)) /\ i \in DOMAIN Pages!Failed(b, i).pages
  BY FailedKeeps
<1>3. TabOK(Pages!CountSolve(Pages!Failed(b, i), i))
  BY <1>2, CountSolveKeeps
<1> DEFINE has == [t \in Tasks |-> b.pages[i].given[t] # <<>>]
           made == [b.pages[i] EXCEPT
                      !.at = "shown", !.interval = TRUE, !.hasAnswers = has,
                      !.answerCount = Pages!Cardinality({t \in Tasks : has[t]}),
                      !.inputs =
                        [t \in Tasks |-> Pages!Flushed(Pages!Blank(t), b.pages[i].given[t])]]
           p == Pages!ShowTask(made, 1)
           c == [b EXCEPT !.pages[i] = p, !.main = i, !.shade = FALSE]
<1>4. Pages!MountSolve(b, i) \in {Pages!Failed(b, i), Pages!CountSolve(Pages!Failed(b, i), i), c}
  BY DEF Pages!MountSolve
<1>5. p.at = "shown" /\ {"at", "interval"} \subseteq DOMAIN p
  <2>1. {"at", "interval"} \subseteq DOMAIN b.pages[i]
    BY <1>1 DEF Formed
  <2>2. made.at = "shown" /\ {"at", "interval"} \subseteq DOMAIN made
    BY <2>1
  <2> HIDE DEF made
  <2> QED
    BY <2>2 DEF Pages!ShowTask
<1>6. i = b.current \/ b.overtaken # {}
  BY <1>1 DEF Followed, Pending
<1> HIDE DEF p
<1>7. TabOK(c)
  BY <1>5, <1>6, ShownKeeps
<1> QED
  BY <1>2, <1>3, <1>4, <1>7

LEMMA MountSteps ==
  ASSUME TabOK(tab), NEW i \in DOMAIN tab.pages, Pages!Mount(i) PROVE TabOK(tab')
BY MountMainKeeps, MountSolveKeeps DEF Pages!Mount, Pages!Step

\* The requests of the header and of the login: a navigation, and a redirect.
LEMMA LoginSteps == ASSUME TabOK(tab), Pages!Login PROVE TabOK(tab')
<1>1. Formed(tab)
  BY DEF TabOK
<1>2. /\ DOMAIN tab' = DOMAIN tab /\ tab'.pages = tab.pages /\ tab'.main = tab.main
      /\ tab'.current = tab.current /\ tab'.overtaken = tab.overtaken
      /\ tab'.timers = tab.timers /\ tab'.address = tab.address
      /\ tab'.back = Pages!BackOf(tab.address)
  BY <1>1 DEF Formed, Pages!Login, Pages!Step
<1>3. tab'.pages = [j \in DOMAIN tab'.pages |-> tab'.pages[j]]
  BY <1>1, <1>2, Numbered
<1>4. tab'.back \in Urls
  BY <1>2 DEF Pages!BackOf, Urls
<1> QED
  BY <1>1, <1>2, <1>3, <1>4, Kept DEF Formed

LEMMA LoggedInSteps == ASSUME TabOK(tab), Pages!LoggedIn PROVE TabOK(tab')
<1> DEFINE over == [tab EXCEPT !.loggingIn = FALSE]
           user == [over EXCEPT !.user = role]
           shown == [over EXCEPT !.shade = FALSE]
<1>1. Formed(tab)
  BY DEF TabOK
<1>2. \/ tab' = Pages!Redirect(Pages!goTo(user, "#update-header"), tab.back)
      \/ tab' = shown
  BY DEF Pages!LoggedIn, Pages!Step
<1>3. SameRouter(user, tab) /\ user.pages = tab.pages
  BY <1>1 DEF Formed, SameRouter
<1>4. SameRouter(shown, tab) /\ shown.pages = tab.pages
  BY <1>1 DEF Formed, SameRouter
<1> HIDE DEF user, shown
<1>5. TabOK(user) /\ TabOK(shown)
  BY <1>3, <1>4, RouterOnly
<1>6. TabOK(Pages!goTo(user, "#update-header"))
  BY <1>5, goToKeeps DEF Urls
<1>7. TabOK(Pages!Redirect(Pages!goTo(user, "#update-header"), tab.back))
  BY <1>1, <1>6, RedirectKeeps DEF Formed
<1> QED
  BY <1>2, <1>5, <1>7

LEMMA LoggedOutSteps == ASSUME TabOK(tab), Pages!LoggedOut PROVE TabOK(tab')
<1> DEFINE over == [tab EXCEPT !.loggingOut = FALSE]
           user == [over EXCEPT !.user = "none"]
           gone == Pages!goTo(user, "#update-header")
<1>1. Formed(tab)
  BY DEF TabOK
<1>2. tab' = Pages!Redirect(gone, "login") \/ tab' = over
  BY DEF Pages!LoggedOut, Pages!Step
<1>3. SameRouter(over, tab) /\ over.pages = tab.pages
  BY <1>1 DEF Formed, SameRouter
<1>4. SameRouter(user, tab) /\ user.pages = tab.pages
  BY <1>1 DEF Formed, SameRouter
<1> HIDE DEF over, user
<1>5. TabOK(over) /\ TabOK(user)
  BY <1>3, <1>4, RouterOnly
<1>6. TabOK(gone)
  BY <1>5, goToKeeps DEF Urls
<1> HIDE DEF gone
<1>7. TabOK(Pages!Redirect(gone, "login"))
  BY <1>6, RedirectKeeps DEF Urls, Pages!LoginUrls
<1> QED
  BY <1>2, <1>5, <1>7

\* The button that ends the participation.
LEMMA EndSteps == ASSUME TabOK(tab), Pages!End PROVE TabOK(tab')
<1>1. Formed(tab)
  BY DEF TabOK
<1>2. SameRouter(tab', tab) /\ tab'.pages = tab.pages
  BY <1>1 DEF Formed, SameRouter, Pages!End, Pages!Step
<1> QED
  BY <1>2, RouterOnly

LEMMA EndedSteps == ASSUME TabOK(tab), Pages!Ended PROVE TabOK(tab')
<1> DEFINE over == [tab EXCEPT !.ending = Pages!Nothing]
           free == [over EXCEPT !.pages[tab.ending].unloadable = TRUE]
<1>1. Formed(tab)
  BY DEF TabOK
<1>2. tab' = Pages!goTo(free, "") \/ tab' = over
  BY DEF Pages!Ended
<1>3. SameRouter(over, tab) /\ over.pages = tab.pages
  BY <1>1 DEF Formed, SameRouter
<1> HIDE DEF over
<1>4. TabOK(over)
  BY <1>3, RouterOnly
<1>5. TabOK(free)
  BY <1>4, PartChanged
<1> HIDE DEF free
<1> QED
  BY <1>2, <1>4, <1>5, goToKeeps DEF Urls

-----------------------------------------------------------------------------
\* A step in the contest changes the page that is shown, and neither its mount nor its
\* interval.
LEMMA InContestKeeps ==
  ASSUME TabOK(tab), NEW p,
         tab.main \in DOMAIN tab.pages => Quieter(p, tab.pages[tab.main]),
         Pages!InContest(p)
  PROVE  TabOK(tab')
<1>1. Formed(tab)
  BY DEF TabOK
<1>2. tab' = [tab EXCEPT !.pages[tab.main] = p]
  BY DEF Pages!InContest, Pages!Step
<1>3. SameRouter(tab', tab)
  BY <1>1, <1>2 DEF Formed, SameRouter
<1>4. tab'.pages = [tab.pages EXCEPT ![tab.main] = p]
  BY <1>1, <1>2 DEF Formed
<1>5. Replaces(tab', tab, tab.main, p)
  BY <1>3, <1>4 DEF Replaces
<1> QED
  BY <1>5, PageChanged

LEMMA ChooseSteps ==
  ASSUME TabOK(tab), NEW t \in Tasks, Pages!Choose(t) PROVE TabOK(tab')
<1> DEFINE p == Pages!ShowTask(tab.pages[tab.main], t)
<1>1. Pages!InContest(p)
  BY DEF Pages!Choose
<1>2. tab.main \in DOMAIN tab.pages => {"at", "interval"} \subseteq DOMAIN tab.pages[tab.main]
  BY DEF TabOK, Formed
<1>3. tab.main \in DOMAIN tab.pages => Quieter(p, tab.pages[tab.main])
  BY <1>2 DEF Pages!ShowTask, Quieter
<1> HIDE DEF p
<1> QED
  BY <1>1, <1>3, InContestKeeps

LEMMA TypeCellsSteps ==
  ASSUME TabOK(tab), NEW cells \in Typed, Pages!TypeCells(cells) PROVE TabOK(tab')
<1> DEFINE page == tab.pages[tab.main]
           p == [page EXCEPT !.inputs[page.currentPos] = cells, !.fresh = FALSE]
<1>1. Pages!InContest(p)
  BY DEF Pages!TypeCells
<1>2. tab.main \in DOMAIN tab.pages => {"at", "interval"} \subseteq DOMAIN page
  BY DEF TabOK, Formed
<1>3. tab.main \in DOMAIN tab.pages => Quieter(p, page)
  BY <1>2 DEF Quieter
<1> HIDE DEF p
<1> QED
  BY <1>1, <1>3, InContestKeeps

LEMMA SendSteps == ASSUME TabOK(tab), Pages!Send PROVE TabOK(tab')
<1> DEFINE page == tab.pages[tab.main]
           bytes == Pages!Encoded(page.inputs[page.currentPos])
<1>1. PICK overlaps :
        tab' = [tab EXCEPT !.shade = TRUE,
                  !.pages[tab.main] = [Pages!Counted(page, bytes) EXCEPT
                                         !.given[page.currentPos] = bytes,
                                         !.troubled = @ \/ overlaps]]
  BY DEF Pages!Send
<1> DEFINE counted == Pages!Counted(page, bytes)
           given == [counted EXCEPT !.given[page.currentPos] = bytes]
           p == [given EXCEPT !.troubled = @ \/ overlaps]
<1>2. Formed(tab)
  BY DEF TabOK
<1>3. tab.main \in DOMAIN tab.pages => {"at", "interval"} \subseteq DOMAIN page
  BY <1>2 DEF Formed
<1>4. tab.main \in DOMAIN tab.pages =>
        /\ {"at", "interval"} \subseteq DOMAIN counted
        /\ counted.at = page.at /\ counted.interval = page.interval
  BY <1>3 DEF Pages!Counted
<1>5. tab' = [[tab EXCEPT !.shade = TRUE] EXCEPT !.pages[tab.main] = p]
  BY <1>1
<1>6. tab.main \in DOMAIN tab.pages => Quieter(p, page)
  <2> HIDE DEF counted
  <2> QED
    BY <1>4 DEF Quieter
<1> HIDE DEF p
<1>7. SameRouter(tab', tab)
  BY <1>2, <1>5 DEF Formed, SameRouter
<1>8. tab'.pages = [tab.pages EXCEPT ![tab.main] = p]
  BY <1>2, <1>5 DEF Formed
<1>9. Replaces(tab', tab, tab.main, p)
  BY <1>7, <1>8 DEF Replaces
<1> QED
  BY <1>6, <1>9, PageChanged

\* An answer that is stored troubles the pages of others.
LEMMA ServeAnswerSteps ==
  ASSUME TabOK(tab), NEW s \in sends, Pages!ServeAnswer(s) PROVE TabOK(tab')
<1> DEFINE pages == [j \in DOMAIN tab.pages |->
                       [tab.pages[j] EXCEPT !.troubled = @ \/ j # s.page]]
<1>1. tab' = tab \/ tab' = [tab EXCEPT !.pages = pages]
  BY DEF Pages!ServeAnswer
<1>2. Formed(tab)
  BY DEF TabOK
<1>3. /\ DOMAIN pages = DOMAIN tab.pages /\ pages = [i \in DOMAIN pages |-> pages[i]]
      /\ \A i \in DOMAIN tab.pages :
           /\ {"at", "interval"} \subseteq DOMAIN pages[i]
           /\ pages[i].at = tab.pages[i].at
           /\ pages[i].interval = tab.pages[i].interval
  BY <1>2 DEF Formed
<1> HIDE DEF pages
<1>4. CASE tab' = tab
  BY <1>4
<1>5. CASE tab' = [tab EXCEPT !.pages = pages]
  <2>1. SameRouter(tab', tab) /\ tab'.pages = pages
    BY <1>2, <1>5 DEF Formed, SameRouter
  <2>2. /\ {"pages", "current", "main", "timers", "address", "back", "overtaken"}
             \subseteq DOMAIN tab'
        /\ tab'.timers \in Seq(Urls) /\ tab'.address \in Urls /\ tab'.back \in Urls
    BY <1>2, <2>1 DEF Formed, SameRouter
  <2> QED
    BY <1>3, <2>1, <2>2, Kept DEF SameRouter
<1> QED
  BY <1>1, <1>4, <1>5

LEMMA SentSteps == ASSUME TabOK(tab), NEW s \in sends, Pages!Sent(s) PROVE TabOK(tab')
<1> DEFINE told == [tab EXCEPT !.shade = FALSE]
<1>1. PICK troubled : \/ tab' = tab
                      \/ tab' = [told EXCEPT !.pages[s.page].troubled = troubled]
  BY DEF Pages!Sent
<1>2. Formed(tab)
  BY DEF TabOK
<1>3. SameRouter(told, tab) /\ told.pages = tab.pages
  BY <1>2 DEF Formed, SameRouter
<1> HIDE DEF told
<1>4. TabOK(told)
  BY <1>3, RouterOnly
<1> QED
  BY <1>1, <1>4, PartChanged

-----------------------------------------------------------------------------
\* The tab of a contestant is in order.
TabInv == TabOK(tab)

LEMMA NextTab == TabInv /\ [Pages!Next]_(Pages!vars) => TabInv'
<1>1. SUFFICES ASSUME TabOK(tab), [Pages!Next]_(Pages!vars) PROVE TabOK(tab')
  BY DEF TabInv
<1>2. CASE Pages!ServerClock \/ Pages!Clock \/ UNCHANGED Pages!vars
  BY <1>1, <1>2 DEF Pages!ServerClock, Pages!Clock, Pages!vars
<1>3. CASE Pages!Timer \/ Pages!Reload
  BY <1>1, <1>3, TimerSteps, ReloadSteps
<1>4. ASSUME NEW url \in {"", "solve", "login", "#logout"}, Pages!Go(url) PROVE TabOK(tab')
  BY <1>1, <1>4, GoSteps
<1>5. ASSUME NEW i \in DOMAIN tab.pages, Pages!Serve(i) \/ Pages!Mount(i) \/ Pages!Interval(i)
      PROVE  TabOK(tab')
  BY <1>1, <1>5, ServeSteps, MountSteps, IntervalSteps
<1>6. CASE Pages!Login \/ Pages!LoggedIn \/ Pages!LoggedOut
  BY <1>1, <1>6, LoginSteps, LoggedInSteps, LoggedOutSteps
<1>7. CASE Pages!End \/ Pages!Ended
  BY <1>1, <1>7, EndSteps, EndedSteps
<1>8. ASSUME NEW t \in Tasks, Pages!Choose(t) PROVE TabOK(tab')
  BY <1>1, <1>8, ChooseSteps
<1>9. ASSUME NEW cells \in Typed, Pages!TypeCells(cells) PROVE TabOK(tab')
  BY <1>1, <1>9, TypeCellsSteps
<1>10. CASE Pages!Send
  BY <1>1, <1>10, SendSteps
<1>11. ASSUME NEW s \in sends, Pages!ServeAnswer(s) \/ Pages!Sent(s) PROVE TabOK(tab')
  BY <1>1, <1>11, ServeAnswerSteps, SentSteps
<1> QED
  BY <1>1, <1>2, <1>3, <1>4, <1>5, <1>6, <1>7, <1>8, <1>9, <1>10, <1>11 DEF Pages!Next

\* For any tasks, answers and budgets: while no navigation has overtaken the mount of the
\* page before it, the page in the document is the one the router would unmount, and no
\* interval of another one runs.
THEOREM PagesStayOwned == Pages!Spec => []Pages!PagesAreOwned
<1>1. TabInv => Pages!PagesAreOwned
  BY DEF TabInv, TabOK, Owned, Pages!PagesAreOwned
<1>2. Pages!Init => TabInv
  BY InitTab DEF TabInv
<1> QED
  BY <1>1, <1>2, NextTab, PTL DEF Pages!Spec

-----------------------------------------------------------------------------
(***************************************************************************)
(* What a page of the contest marks.  A page that was given the answers    *)
(* has those of the server, or has a request under way that will make them *)
(* so; a page that may know less is troubled.                              *)
(***************************************************************************)
LEMMA SameCardinality ==
  \A S : Pages!Cardinality(S) = Cardinality(S) /\ Pages!IsFiniteSet(S) = IsFiniteSet(S)
<1>1. ASSUME NEW S PROVE Pages!Cardinality(S) = Cardinality(S)
  BY DEF Pages!Cardinality, Cardinality
<1>2. ASSUME NEW S PROVE Pages!IsFiniteSet(S) = IsFiniteSet(S)
  BY DEF Pages!IsFiniteSet, IsFiniteSet
<1> QED
  BY <1>1, <1>2

\* What a page marks, and what it was given.
MarkParts(p) ==
  /\ {"url", "at", "given", "hasAnswers", "answerCount", "troubled", "currentPos"} \subseteq DOMAIN p
  /\ DOMAIN p.given = Tasks /\ p.hasAnswers \in [Tasks -> BOOLEAN]
  /\ p.troubled \in BOOLEAN /\ p.currentPos \in Tasks

\* The page of a contest that was given the answers, and did not fail.
InGame(p) == p.url = "solve" /\ p.at \in {"served", "shown"}

\* A page of the contest is in the document only when its mount is done.
Whole(b) ==
  /\ \A i \in DOMAIN b.pages : MarkParts(b.pages[i])
  /\ b.main \in {Pages!Nothing, Pages!LoginForm} \cup DOMAIN b.pages
  /\ b.main \in DOMAIN b.pages /\ b.pages[b.main].url = "solve" => b.pages[b.main].at = "shown"

\* The marks and their number are those of the answers in the page.
Tallied(p) ==
  p.at = "shown" =>
    /\ p.answerCount = Cardinality({t \in Tasks : p.hasAnswers[t]})
    /\ \A t \in Tasks : p.hasAnswers[t] = (p.given[t] # <<>>)

\* The answers in page i are the server's, or will be when the page's own arrive.
Known(i, p, stored, S) ==
  ~p.troubled =>
    /\ \A t \in Tasks : \/ p.given[t] = stored[t].bytes
                        \/ \E s \in S : s.page = i /\ s.task = t /\ s.outcome # "ok"
    /\ \A s \in S : s.page = i => p.given[s.task] = s.bytes

Marked(b, stored, S) ==
  \A i \in DOMAIN b.pages :
    InGame(b.pages[i]) => Tallied(b.pages[i]) /\ Known(i, b.pages[i], stored, S)

\* What most steps do to a tab: the pages in the game are among those that were, with
\* the same answers and marks.
SameMarks(q, p) ==
  /\ q.at = p.at /\ q.given = p.given /\ q.hasAnswers = p.hasAnswers
  /\ q.answerCount = p.answerCount /\ q.troubled = p.troubled

Carries(c, b) ==
  /\ Whole(c)
  /\ \A i \in DOMAIN b.pages : i \in DOMAIN c.pages /\ c.pages[i].url = b.pages[i].url
  /\ \A i \in DOMAIN c.pages :
       InGame(c.pages[i]) =>
         i \in DOMAIN b.pages /\ InGame(b.pages[i]) /\ SameMarks(c.pages[i], b.pages[i])

LEMMA CarriedMarks ==
  ASSUME NEW b, NEW c, Carries(c, b), NEW stored, NEW S, Marked(b, stored, S)
  PROVE  Marked(c, stored, S)
<1> SUFFICES ASSUME NEW i \in DOMAIN c.pages, InGame(c.pages[i])
             PROVE  Tallied(c.pages[i]) /\ Known(i, c.pages[i], stored, S)
  BY DEF Marked
<1>1. /\ Tallied(b.pages[i]) /\ Known(i, b.pages[i], stored, S)
      /\ SameMarks(c.pages[i], b.pages[i])
  BY DEF Carries, Marked
<1>2. Tallied(c.pages[i])
  BY <1>1 DEF Tallied, SameMarks
<1>3. Known(i, c.pages[i], stored, S)
  BY <1>1 DEF Known, SameMarks
<1> QED
  BY <1>2, <1>3

LEMMA CarriesOn ==
  ASSUME NEW b, NEW c, NEW d, Carries(c, b), Carries(d, c) PROVE Carries(d, b)
BY DEF Carries, SameMarks

\* No page is touched; another, or none, may be in the document.
LEMMA RouterCarries ==
  ASSUME NEW b, Whole(b), NEW c, c.pages = b.pages,
         c.main \in {b.main, Pages!Nothing, Pages!LoginForm}, Formed(b)
  PROVE  Carries(c, b)
<1>1. Pages!Nothing \notin DOMAIN b.pages /\ Pages!LoginForm \notin DOMAIN b.pages
  <2>1. PICK S : b.pages \in Seq(S)
    BY DEF Formed, IsSequence
  <2> QED
    BY <2>1, LenProperties DEF Pages!Nothing, Pages!LoginForm
<1> QED
  BY <1>1 DEF Whole, Carries, SameMarks

\* Pages are changed in other parts than these, or their mount fails.
LEMMA PagesCarry ==
  ASSUME NEW b, Whole(b), NEW c, DOMAIN c.pages = DOMAIN b.pages,
         c.main = b.main,
         \A i \in DOMAIN b.pages :
           /\ MarkParts(c.pages[i]) /\ c.pages[i].url = b.pages[i].url
           /\ b.pages[i].at = "shown" => c.pages[i].at = "shown"
           /\ InGame(c.pages[i]) => SameMarks(c.pages[i], b.pages[i])
  PROVE  Carries(c, b)
<1>1. Whole(c)
  BY DEF Whole
<1>2. ASSUME NEW i \in DOMAIN c.pages, InGame(c.pages[i])
      PROVE  i \in DOMAIN b.pages /\ InGame(b.pages[i]) /\ SameMarks(c.pages[i], b.pages[i])
  BY <1>2 DEF InGame, SameMarks
<1> QED
  BY <1>1, <1>2 DEF Carries

\* One page is changed.
LEMMA PageCarries ==
  ASSUME NEW b, Whole(b), NEW i, NEW q, NEW c, c.pages = [b.pages EXCEPT ![i] = q],
         c.main = b.main,
         i \in DOMAIN b.pages =>
           /\ MarkParts(q) /\ q.url = b.pages[i].url
           /\ b.pages[i].at = "shown" => q.at = "shown"
           /\ InGame(q) => SameMarks(q, b.pages[i])
  PROVE  Carries(c, b)
<1>1. DOMAIN c.pages = DOMAIN b.pages
  OBVIOUS
<1>2. ASSUME NEW j \in DOMAIN b.pages
      PROVE  /\ MarkParts(c.pages[j]) /\ c.pages[j].url = b.pages[j].url
             /\ b.pages[j].at = "shown" => c.pages[j].at = "shown"
             /\ InGame(c.pages[j]) => SameMarks(c.pages[j], b.pages[j])
  <2>1. CASE j = i
    BY <2>1
  <2>2. CASE j # i
    <3>1. c.pages[j] = b.pages[j] /\ MarkParts(b.pages[j])
      BY <2>2 DEF Whole
    <3> QED
      BY <3>1 DEF SameMarks
  <2> QED
    BY <2>1, <2>2
<1> QED
  BY <1>1, <1>2, PagesCarry

\* A part is changed that has nothing to do with the marks.
LEMMA PartCarries ==
  ASSUME NEW b, Formed(b), Whole(b), NEW i, NEW f, NEW v,
         f \notin {"url", "at", "given", "hasAnswers", "answerCount", "troubled", "currentPos"},
         NEW c, c = [b EXCEPT !.pages[i][f] = v]
  PROVE  Carries(c, b)
<1> DEFINE q == [b.pages[i] EXCEPT ![f] = v]
           d == [b EXCEPT !.pages[i][f] = v]
<1>1. d.pages = [b.pages EXCEPT ![i] = q] /\ d.main = b.main
  BY DEF Formed
<1>2. i \in DOMAIN b.pages =>
        /\ MarkParts(q) /\ q.url = b.pages[i].url /\ q.at = b.pages[i].at
        /\ SameMarks(q, b.pages[i])
  <2> SUFFICES ASSUME i \in DOMAIN b.pages
               PROVE  /\ MarkParts(q) /\ q.url = b.pages[i].url /\ q.at = b.pages[i].at
                      /\ SameMarks(q, b.pages[i])
    OBVIOUS
  <2>1. MarkParts(b.pages[i])
    BY DEF Whole
  <2>2. DOMAIN q = DOMAIN b.pages[i] /\ \A g \in DOMAIN q \ {f} : q[g] = b.pages[i][g]
    OBVIOUS
  <2>3. /\ q.url = b.pages[i].url /\ q.at = b.pages[i].at /\ q.given = b.pages[i].given
        /\ q.hasAnswers = b.pages[i].hasAnswers /\ q.answerCount = b.pages[i].answerCount
        /\ q.troubled = b.pages[i].troubled /\ q.currentPos = b.pages[i].currentPos
    BY <2>1, <2>2 DEF MarkParts
  <2> HIDE DEF q
  <2>4. SameMarks(q, b.pages[i])
    BY <2>3 DEF SameMarks
  <2>5. MarkParts(q)
    <3>1. MarkParts(b.pages[i])
      BY <2>1
    <3> QED
      BY <2>2, <2>3, <3>1 DEF MarkParts
  <2> QED
    BY <2>3, <2>4, <2>5
<1> HIDE DEF q
<1>3. i \in DOMAIN b.pages =>
        /\ MarkParts(q) /\ q.url = b.pages[i].url
        /\ b.pages[i].at = "shown" => q.at = "shown"
        /\ InGame(q) => SameMarks(q, b.pages[i])
  BY <1>2
<1> HIDE DEF d
<1>4. Carries(d, b)
  BY <1>1, <1>3, PageCarries
<1> QED
  BY <1>4 DEF d

\* The mount of a page fails, or is refused.
LEMMA FailedCarries ==
  ASSUME NEW b, Formed(b), Whole(b), NEW i, NEW at \in {"failed", "refused"},
         i \in DOMAIN b.pages => b.pages[i].at # "shown",
         NEW c, c = [b EXCEPT !.pages[i].at = at]
  PROVE  Carries(c, b)
<1> DEFINE q == [b.pages[i] EXCEPT !.at = at]
           d == [b EXCEPT !.pages[i].at = at]
<1>1. d.pages = [b.pages EXCEPT ![i] = q] /\ d.main = b.main
  BY DEF Formed
<1>2. i \in DOMAIN b.pages => MarkParts(q) /\ q.url = b.pages[i].url /\ ~InGame(q)
  <2> SUFFICES ASSUME i \in DOMAIN b.pages
               PROVE  MarkParts(q) /\ q.url = b.pages[i].url /\ ~InGame(q)
    OBVIOUS
  <2>1. MarkParts(b.pages[i])
    BY DEF Whole
  <2> QED
    BY <2>1 DEF MarkParts, InGame
<1> HIDE DEF q, d
<1>3. Carries(d, b)
  BY <1>1, <1>2, PageCarries
<1> QED
  BY <1>3 DEF d

\* A new page is not in the game, and no page is in the document.
LEMMA OpenedCarries ==
  ASSUME NEW b, Formed(b), Whole(b), b.main = Pages!Nothing, NEW p, MarkParts(p), ~InGame(p),
         NEW c, c.pages = Append(b.pages, p), c.main = b.main
  PROVE  Carries(c, b)
<1>1. /\ DOMAIN c.pages = DOMAIN b.pages \cup {Len(b.pages) + 1}
      /\ c.pages[Len(b.pages) + 1] = p
      /\ \A i \in DOMAIN b.pages : c.pages[i] = b.pages[i]
      /\ DOMAIN b.pages = 1..Len(b.pages) /\ Len(b.pages) \in Nat
  BY AppendSequence DEF Formed
<1>2. Whole(c)
  <2>1. \A i \in DOMAIN c.pages : MarkParts(c.pages[i])
    BY <1>1 DEF Whole
  <2>2. Pages!Nothing \notin DOMAIN c.pages
    BY <1>1 DEF Pages!Nothing
  <2> QED
    BY <2>1, <2>2 DEF Whole
<1>3. ASSUME NEW i \in DOMAIN c.pages, InGame(c.pages[i])
      PROVE  i \in DOMAIN b.pages /\ InGame(b.pages[i]) /\ SameMarks(c.pages[i], b.pages[i])
  BY <1>1, <1>3 DEF SameMarks
<1> QED
  BY <1>2, <1>3 DEF Carries

LEMMA NewPageOK ==
  ASSUME Pages!SomeTasks, NEW url, NEW at \in {"asked", "failed"}, NEW unloadable
  PROVE  MarkParts(Pages!NewPage(url, at, unloadable)) /\ ~InGame(Pages!NewPage(url, at, unloadable))
<1>1. 1 \in Tasks
  BY DEF Pages!SomeTasks
<1> DEFINE p == Pages!NewPage(url, at, unloadable)
<1>2. /\ {"url", "at", "given", "hasAnswers", "answerCount", "troubled", "currentPos"}
            \subseteq DOMAIN p
      /\ p.at = at /\ p.currentPos = 1 /\ p.troubled = FALSE
      /\ p.given = [t \in Tasks |-> <<>>] /\ p.hasAnswers = [t \in Tasks |-> FALSE]
  BY DEF Pages!NewPage
<1> HIDE DEF p
<1>3. DOMAIN p.given = Tasks /\ p.hasAnswers \in [Tasks -> BOOLEAN]
  BY <1>2
<1>4. MarkParts(p)
  BY <1>1, <1>2, <1>3 DEF MarkParts
<1>5. ~InGame(p)
  BY <1>2 DEF InGame
<1> QED
  BY <1>4, <1>5 DEF p

LEMMA UnmountedCarries ==
  ASSUME NEW b, TabOK(b), Whole(b),
         NEW c, c = [Pages!Unmounted(b) EXCEPT !.main = Pages!Nothing, !.shade = TRUE]
  PROVE  Carries(c, b)
<1>1. Formed(b)
  BY DEF TabOK
<1> DEFINE u == Pages!Unmounted(b)
           d == [b EXCEPT !.pages[b.current].interval = FALSE]
<1>2. c.main = Pages!Nothing /\ c.pages = u.pages
  <2>1. {"pages", "main"} \subseteq DOMAIN u
    BY <1>1 DEF Formed, Pages!Unmounted
  <2> QED
    BY <2>1
<1>3. u.pages = b.pages \/ u.pages = d.pages
  BY <1>1 DEF Formed, Pages!Unmounted
<1>4. CASE u.pages = b.pages
  BY <1>1, <1>2, <1>4, RouterCarries
<1>5. CASE u.pages = d.pages
  <2>1. d = [b EXCEPT !.pages[b.current]["interval"] = FALSE]
    OBVIOUS
  <2>2. Carries(d, b)
    BY <1>1, <2>1, PartCarries
  <2>3. Formed(d)
    <3>1. DOMAIN d = DOMAIN b /\ d.pages = [b.pages EXCEPT ![b.current] = [@ EXCEPT !.interval = FALSE]]
          /\ d.current = b.current /\ d.timers = b.timers /\ d.address = b.address /\ d.back = b.back
      BY <1>1 DEF Formed
    <3>2. IsSequence(d.pages) /\ DOMAIN d.pages = DOMAIN b.pages
      BY <1>1, <3>1, SameDomain DEF Formed
    <3>3. ASSUME NEW i \in DOMAIN d.pages PROVE {"at", "interval"} \subseteq DOMAIN d.pages[i]
      BY <1>1, <3>1 DEF Formed
    <3> HIDE DEF d
    <3> QED
      BY <1>1, <3>1, <3>2, <3>3 DEF Formed
  <2> HIDE DEF d
  <2>4. Carries(c, d)
    BY <1>2, <1>5, <2>2, <2>3, RouterCarries DEF Carries
  <2> QED
    BY <2>2, <2>4, CarriesOn
<1> QED
  BY <1>3, <1>4, <1>5

LEMMA EnterCarries ==
  ASSUME Pages!SomeTasks, NEW b, TabOK(b), Whole(b), b.main = Pages!Nothing,
         b.current = Pages!Nothing, NEW url \in Urls
  PROVE  Carries(Pages!Enter(b, url), b)
<1>1. Formed(b)
  BY DEF TabOK
<1> DEFINE c == Pages!Enter(b, url)
           Opens(d, p) == d.pages = Append(b.pages, p) /\ d.main = b.main
<1>2. CASE url \notin {"", "solve"}
  <2>1. c.pages = b.pages /\ c.main \in {b.main, Pages!LoginForm}
    <3>1. CASE url = "#update-header"
      BY <3>1 DEF Pages!Enter, Pages!LoginUrls
    <3>2. CASE url = "#logout"
      BY <1>1, <3>2 DEF Formed, Pages!Enter, Pages!LoginUrls
    <3>3. CASE url \in Pages!LoginUrls /\ b.user = "none"
      BY <1>1, <3>3 DEF Formed, Pages!Enter, Pages!LoginUrls
    <3>4. CASE url \in Pages!LoginUrls /\ b.user # "none"
      BY <1>1, <3>4 DEF Formed, Pages!Enter, Pages!Redirect, Pages!LoginUrls
    <3> QED
      BY <1>2, <3>1, <3>2, <3>3, <3>4 DEF Urls
  <2> QED
    BY <1>1, <2>1, RouterCarries
<1>3. CASE url \in {"", "solve"} /\ b.user = "none"
  <2> DEFINE p == Pages!NewPage(url, "failed", TRUE)
  <2>1. Opens(c, p)
    BY <1>1, <1>3 DEF Formed, Pages!Enter, Pages!LoginUrls, Pages!Redirect
  <2>2. MarkParts(p) /\ ~InGame(p)
    BY NewPageOK
  <2> HIDE DEF p, c
  <2>3. Carries(c, b)
    BY <1>1, <2>1, <2>2, OpenedCarries
  <2> QED
    BY <2>3 DEF c
<1>4. CASE url \in {"", "solve"} /\ b.user # "none"
  <2> DEFINE p == Pages!NewPage(url, "asked", url = "" \/ b.user = "admin")
  <2>1. Opens(c, p)
    BY <1>1, <1>4 DEF Formed, Pages!Enter, Pages!LoginUrls
  <2>2. MarkParts(p) /\ ~InGame(p)
    BY NewPageOK
  <2> HIDE DEF p, c
  <2>3. Carries(c, b)
    BY <1>1, <2>1, <2>2, OpenedCarries
  <2> QED
    BY <2>3 DEF c
<1> QED
  BY <1>2, <1>3, <1>4 DEF Urls

LEMMA goToCarries ==
  ASSUME Pages!SomeTasks, NEW b, TabOK(b), Whole(b), NEW url \in Urls
  PROVE  Carries(Pages!goTo(b, url), b)
<1>1. Formed(b)
  BY DEF TabOK
<1>2. CASE Pages!Leaves(b)
  <2> DEFINE c == [Pages!Unmounted(b) EXCEPT !.main = Pages!Nothing, !.shade = TRUE]
  <2>1. Pages!goTo(b, url) = Pages!Enter(c, url)
    BY <1>2 DEF Pages!goTo
  <2>2. TabOK(c) /\ Carries(c, b)
    BY UnmountedTab, UnmountedCarries
  <2>3. c.main = Pages!Nothing /\ c.current = Pages!Nothing
    <3>1. {"main", "current"} \subseteq DOMAIN Pages!Unmounted(b)
      BY <2>2 DEF TabOK, Formed
    <3>2. Pages!Unmounted(b).current = Pages!Nothing
      BY UnmountedTab
    <3> QED
      BY <3>1, <3>2
  <2> HIDE DEF c
  <2>4. Carries(Pages!Enter(c, url), c)
    BY <2>2, <2>3, EnterCarries DEF Carries
  <2> QED
    BY <2>1, <2>2, <2>4, CarriesOn
<1>3. CASE ~Pages!Leaves(b)
  <2>1. Pages!goTo(b, url) = [b EXCEPT !.shade = FALSE]
    BY <1>3 DEF Pages!goTo
  <2>2. Pages!goTo(b, url).pages = b.pages /\ Pages!goTo(b, url).main = b.main
    BY <1>1, <2>1 DEF Formed
  <2> QED
    BY <1>1, <2>2, RouterCarries
<1> QED
  BY <1>2, <1>3

LEMMA RedirectCarries ==
  ASSUME NEW b, Formed(b), Whole(b), NEW url PROVE Carries(Pages!Redirect(b, url), b)
<1>1. Pages!Redirect(b, url).pages = b.pages /\ Pages!Redirect(b, url).main = b.main
  BY DEF Formed, Pages!Redirect
<1> QED
  BY <1>1, RouterCarries

LEMMA CountMainCarries ==
  ASSUME Pages!SomeTasks, NEW b, TabOK(b), Whole(b), NEW i \in DOMAIN b.pages
  PROVE  Carries(Pages!CountMain(b, i), b)
<1> DEFINE status == CASE time = "before" -> 0 [] time = "running" -> 1 [] OTHER -> 2
           gone == IF status = 1 /\ b.pages[i].lastStatus = 0 THEN Pages!goTo(b, "solve") ELSE b
           c == [gone EXCEPT !.pages[i]["lastStatus"] = status]
<1>1. Pages!CountMain(b, i) = c
  BY DEF Pages!CountMain
<1>2. TabOK(gone) /\ Carries(gone, b)
  <2>1. Carries(b, b)
    BY DEF Carries, SameMarks
  <2>2. TabOK(Pages!goTo(b, "solve")) /\ Carries(Pages!goTo(b, "solve"), b)
    BY goToKeeps, goToCarries DEF Urls
  <2> QED
    BY <2>1, <2>2
<1> HIDE DEF status, gone
<1>3. Carries(c, gone)
  <2>1. Formed(gone) /\ Whole(gone)
    BY <1>2 DEF TabOK, Carries
  <2> QED
    BY <2>1, PartCarries
<1> HIDE DEF c
<1> QED
  BY <1>1, <1>2, <1>3, CarriesOn

LEMMA CountSolveCarries ==
  ASSUME NEW b, TabOK(b), Whole(b), NEW i \in DOMAIN b.pages
  PROVE  Carries(Pages!CountSolve(b, i), b)
<1> DEFINE c == [b EXCEPT !.pages[i]["unloadable"] = TRUE]
<1>1. Formed(b)
  BY DEF TabOK
<1>2. TabOK(c) /\ Carries(c, b)
  BY <1>1, PartChanged, PartCarries
<1>3. Pages!CountSolve(b, i) \in {b, Pages!Redirect(c, "")}
  BY DEF Pages!CountSolve
<1> HIDE DEF c
<1>4. Carries(Pages!Redirect(c, ""), b)
  <2>1. Carries(Pages!Redirect(c, ""), c)
    BY <1>2, RedirectCarries DEF TabOK, Carries
  <2> QED
    BY <1>2, <2>1, CarriesOn
<1>5. Carries(b, b)
  BY DEF Carries, SameMarks
<1> QED
  BY <1>3, <1>4, <1>5

LEMMA MountMainCarries ==
  ASSUME Pages!SomeTasks, NEW b, TabOK(b), Whole(b), NEW i \in DOMAIN b.pages,
         b.pages[i].at \in {"served", "refused"}, b.pages[i].url # "solve"
  PROVE  Carries(Pages!MountMain(b, i), b)
<1>1. Formed(b)
  BY DEF TabOK
<1>2. CASE b.pages[i].at = "refused"
  <2> DEFINE c == [b EXCEPT !.pages[i].at = "failed"]
             d == [c EXCEPT !.shade = FALSE]
  <2>1. Pages!MountMain(b, i) = d
    BY <1>2 DEF Pages!MountMain, Pages!Failed
  <2>2. Carries(c, b)
    BY <1>1, <1>2, FailedCarries
  <2>3. d.pages = c.pages /\ d.main = c.main
    BY <1>1 DEF Formed
  <2> HIDE DEF c, d
  <2>4. Carries(d, b)
    BY <2>2, <2>3 DEF Carries, Whole
  <2> QED
    BY <2>1, <2>4
<1>3. CASE b.pages[i].at = "served"
  <2> DEFINE c == Pages!CountMain(b, i)
             q == [[c.pages[i] EXCEPT !.at = "shown"] EXCEPT !.interval = TRUE]
             d == [c EXCEPT !.pages[i].at = "shown", !.pages[i].interval = TRUE, !.main = i,
                            !.shade = FALSE]
  <2>1. Pages!MountMain(b, i) = d
    BY <1>3 DEF Pages!MountMain
  <2>2. TabOK(c) /\ Carries(c, b) /\ i \in DOMAIN c.pages
    BY CountMainKeeps, CountMainCarries DEF Extends
  <2>3. Formed(c) /\ Whole(c)
    BY <2>2 DEF TabOK, Carries
  <2>4. c.pages[i].url = b.pages[i].url
    BY <2>2 DEF Carries
  <2> HIDE DEF c
  <2>5. d.pages = [c.pages EXCEPT ![i] = q] /\ d.main = i
    BY <2>2, <2>3 DEF Formed
  <2>6. MarkParts(q) /\ q.url = b.pages[i].url
    <3>1. MarkParts(c.pages[i])
      BY <2>2, <2>3 DEF Whole
    <3> QED
      BY <2>4, <3>1 DEF MarkParts
  <2> HIDE DEF q, d
  <2>7. Whole(d)
    BY <2>2, <2>3, <2>5, <2>6 DEF Whole
  <2>8. ASSUME NEW j \in DOMAIN d.pages, InGame(d.pages[j])
        PROVE  /\ j \in DOMAIN b.pages /\ InGame(b.pages[j])
               /\ SameMarks(d.pages[j], b.pages[j])
    <3>1. j # i
      BY <2>2, <2>5, <2>6, <2>8 DEF InGame
    <3>2. j \in DOMAIN c.pages /\ d.pages[j] = c.pages[j]
      BY <2>5, <3>1
    <3> QED
      BY <2>2, <2>8, <3>2 DEF Carries
  <2>9. ASSUME NEW j \in DOMAIN b.pages
        PROVE  j \in DOMAIN d.pages /\ d.pages[j].url = b.pages[j].url
    BY <2>2, <2>5, <2>6 DEF Carries
  <2> QED
    BY <2>1, <2>7, <2>8, <2>9 DEF Carries
<1> QED
  BY <1>2, <1>3

\* One page of the contest is changed, and the answers and the requests may be others.
LEMMA PageMarked ==
  ASSUME NEW b, Whole(b), NEW stored, NEW S, Marked(b, stored, S),
         NEW i \in DOMAIN b.pages, NEW q, MarkParts(q), q.url = b.pages[i].url,
         NEW c, c.pages = [b.pages EXCEPT ![i] = q], c.main \in {b.main, i},
         i = c.main /\ q.url = "solve" => q.at = "shown",
         NEW later, NEW T, InGame(q) => Tallied(q) /\ Known(i, q, later, T),
         \A j \in DOMAIN b.pages \ {i} :
           InGame(b.pages[j]) => Known(j, b.pages[j], later, T)
  PROVE  Whole(c) /\ Marked(c, later, T)
<1>1. /\ DOMAIN c.pages = DOMAIN b.pages /\ c.pages[i] = q
      /\ \A j \in DOMAIN b.pages \ {i} : c.pages[j] = b.pages[j]
  OBVIOUS
<1>2. Whole(c)
  BY <1>1 DEF Whole
<1>3. Marked(c, later, T)
  <2> SUFFICES ASSUME NEW j \in DOMAIN c.pages, InGame(c.pages[j])
               PROVE  Tallied(c.pages[j]) /\ Known(j, c.pages[j], later, T)
    BY DEF Marked
  <2>1. CASE j = i
    BY <1>1, <2>1
  <2>2. CASE j # i
    BY <1>1, <2>2 DEF Marked
  <2> QED
    BY <2>1, <2>2
<1> QED
  BY <1>2, <1>3

LEMMA MountSolveMarks ==
  ASSUME Pages!SomeTasks, NEW b, TabOK(b), Whole(b), NEW stored, NEW S, Marked(b, stored, S),
         NEW i \in DOMAIN b.pages, b.pages[i].at \in {"served", "refused"},
         b.pages[i].url = "solve"
  PROVE  Whole(Pages!MountSolve(b, i)) /\ Marked(Pages!MountSolve(b, i), stored, S)
<1>1. Formed(b) /\ MarkParts(b.pages[i]) /\ 1 \in Tasks
  BY DEF TabOK, Whole, Pages!SomeTasks
<1>2. CASE b.pages[i].at = "refused" \/ clock = "over"
  <2> DEFINE c == Pages!Failed(b, i)
             d == Pages!CountSolve(c, i)
  <2>1. Pages!MountSolve(b, i) \in {c, d}
    BY <1>2 DEF Pages!MountSolve
  <2>2. TabOK(c) /\ i \in DOMAIN c.pages
    BY FailedKeeps
  <2>3. Carries(c, b)
    BY <1>1, FailedCarries DEF Pages!Failed
  <2> HIDE DEF c
  <2>4. Carries(d, c)
    BY <2>2, <2>3, CountSolveCarries DEF Carries
  <2> HIDE DEF d
  <2>5. Carries(d, b)
    BY <2>3, <2>4, CarriesOn
  <2> QED
    BY <2>1, <2>3, <2>5, CarriedMarks DEF Carries
<1>3. CASE b.pages[i].at = "served" /\ clock # "over"
  <2> DEFINE p == b.pages[i]
             has == [t \in Tasks |-> p.given[t] # <<>>]
             made == [p EXCEPT
                        !.at = "shown", !.interval = TRUE, !.hasAnswers = has,
                        !.answerCount = Pages!Cardinality({t \in Tasks : has[t]}),
                        !.inputs = [t \in Tasks |-> Pages!Flushed(Pages!Blank(t), p.given[t])]]
             q == Pages!ShowTask(made, 1)
             c == [b EXCEPT !.pages[i] = q, !.main = i, !.shade = FALSE]
  <2>1. Pages!MountSolve(b, i) = c
    BY <1>3 DEF Pages!MountSolve
  <2>2. c.pages = [b.pages EXCEPT ![i] = q] /\ c.main = i
    BY <1>1 DEF Formed
  <2>3. /\ DOMAIN made = DOMAIN p /\ made.url = p.url /\ made.at = "shown"
        /\ made.given = p.given /\ made.hasAnswers = has /\ made.troubled = p.troubled
        /\ made.answerCount = Pages!Cardinality({t \in Tasks : has[t]})
    BY <1>1 DEF MarkParts
  <2> HIDE DEF made
  <2>4. /\ DOMAIN q = DOMAIN p /\ q.url = p.url /\ q.at = "shown"
        /\ q.given = p.given /\ q.hasAnswers = has /\ q.troubled = p.troubled
        /\ q.answerCount = Pages!Cardinality({t \in Tasks : has[t]}) /\ q.currentPos = 1
    BY <1>1, <2>3 DEF MarkParts, Pages!ShowTask
  <2> HIDE DEF q
  <2>5. MarkParts(q)
    BY <1>1, <2>4 DEF MarkParts
  <2>6. Tallied(q)
    BY <2>4, SameCardinality DEF Tallied
  <2>7. Known(i, q, stored, S)
    BY <1>3, <2>4 DEF Known, Marked, InGame
  <2>8. \A j \in DOMAIN b.pages \ {i} : InGame(b.pages[j]) => Known(j, b.pages[j], stored, S)
    BY DEF Marked
  <2> HIDE DEF c
  <2> QED
    BY <2>1, <2>2, <2>4, <2>5, <2>6, <2>7, <2>8, PageMarked
<1> QED
  BY <1>2, <1>3

Sendings(S) == \A s \in S : {"page", "task", "bytes", "outcome"} \subseteq DOMAIN s

MarksOK ==
  Whole(tab) /\ Marked(tab, answers, sends) /\ DOMAIN answers = Tasks /\ Sendings(sends)

LEMMA CarriedOn ==
  ASSUME MarksOK, Carries(tab', tab), UNCHANGED <<answers, sends>> PROVE MarksOK'
<1>1. Marked(tab', answers, sends)
  BY CarriedMarks DEF MarksOK
<1> QED
  BY <1>1 DEF MarksOK, Carries

LEMMA LoadedMarks ==
  ASSUME Pages!SomeTasks, NEW user, NEW url \in Urls, NEW stored, NEW S
  PROVE  /\ Whole(Pages!goTo(Pages!NewTab(user), url))
         /\ Marked(Pages!goTo(Pages!NewTab(user), url), stored, S)
<1> DEFINE b == Pages!NewTab(user)
<1>1. TabOK(b)
  BY NewTabOK
<1>2. DOMAIN b.pages = {} /\ b.main = Pages!Nothing
  BY DEF Pages!NewTab
<1> HIDE DEF b
<1>3. Whole(b) /\ Marked(b, stored, S)
  BY <1>2 DEF Whole, Marked
<1>4. Carries(Pages!goTo(b, url), b)
  BY <1>1, <1>3, goToCarries
<1>5. Whole(Pages!goTo(b, url)) /\ Marked(Pages!goTo(b, url), stored, S)
  BY <1>3, <1>4, CarriedMarks DEF Carries
<1> QED
  BY <1>5 DEF b

LEMMA InitMarks == ASSUME Pages!SomeTasks, Pages!Init PROVE MarksOK
<1>1. /\ sends = {} /\ DOMAIN answers = Tasks
      /\ \/ tab = Pages!goTo(Pages!NewTab("none"), "")
         \/ tab = Pages!goTo(Pages!NewTab(role), "")
  BY DEF Pages!Init
<1>2. Whole(tab) /\ Marked(tab, answers, sends)
  BY <1>1, LoadedMarks DEF Urls
<1> QED
  BY <1>1, <1>2 DEF MarksOK, Sendings

LEMMA TimerMarks ==
  ASSUME Pages!SomeTasks, TabOK(tab), MarksOK, Pages!Timer PROVE MarksOK'
<1> DEFINE c == [tab EXCEPT !.timers = Tail(@)]
<1>1. /\ tab.timers # <<>> /\ tab' = Pages!goTo(c, Head(tab.timers))
      /\ UNCHANGED <<answers, sends>>
  BY DEF Pages!Timer, Pages!Step
<1>2. Formed(tab)
  BY DEF TabOK
<1>3. /\ DOMAIN c = DOMAIN tab /\ c.pages = tab.pages /\ c.current = tab.current
      /\ c.main = tab.main /\ c.overtaken = tab.overtaken /\ c.timers = Tail(tab.timers)
      /\ c.address = tab.address /\ c.back = tab.back
  BY <1>2 DEF Formed
<1> HIDE DEF c
<1>4. Head(tab.timers) \in Urls /\ Tail(tab.timers) \in Seq(Urls)
  BY <1>1, <1>2, HeadTailProperties DEF Formed
<1>5. c.pages = [j \in DOMAIN c.pages |-> c.pages[j]]
  BY <1>2, <1>3, Numbered
<1>6. TabOK(c)
  BY <1>2, <1>3, <1>4, <1>5, Kept DEF Formed
<1>7. Carries(c, tab)
  BY <1>2, <1>3, RouterCarries DEF MarksOK
<1>8. Carries(tab', c)
  BY <1>1, <1>4, <1>6, <1>7, goToCarries DEF Carries
<1> QED
  BY <1>1, <1>7, <1>8, CarriesOn, CarriedOn

\* The router's own steps, and those of the header and of the login.
LEMMA GoMarks ==
  ASSUME TabOK(tab), MarksOK, NEW url \in {"", "solve", "login", "#logout"}, Pages!Go(url)
  PROVE  MarksOK'
<1>1. Carries(tab', tab) /\ UNCHANGED <<answers, sends>>
  BY RedirectCarries DEF Pages!Go, Pages!Step, TabOK, MarksOK
<1> QED
  BY <1>1, CarriedOn

LEMMA ReloadMarks ==
  ASSUME Pages!SomeTasks, TabOK(tab), MarksOK, Pages!Reload PROVE MarksOK'
<1>1. /\ tab' = Pages!goTo(Pages!NewTab(tab.user), tab.address) /\ UNCHANGED answers
      /\ sends' = {[s EXCEPT !.page = Pages!Nothing] : s \in sends}
  BY DEF Pages!Reload
<1>2. tab.address \in Urls
  BY DEF TabOK, Formed
<1>3. Whole(tab') /\ Marked(tab', answers', sends')
  BY <1>1, <1>2, LoadedMarks
<1>4. Sendings(sends')
  BY <1>1 DEF MarksOK, Sendings
<1> QED
  BY <1>1, <1>3, <1>4 DEF MarksOK

LEMMA IntervalMarks ==
  ASSUME Pages!SomeTasks, TabOK(tab), MarksOK, NEW i \in DOMAIN tab.pages, Pages!Interval(i)
  PROVE  MarksOK'
<1>1. Carries(tab', tab) /\ UNCHANGED <<answers, sends>>
  BY CountMainCarries, CountSolveCarries DEF Pages!Interval, Pages!Step, MarksOK
<1> QED
  BY <1>1, CarriedOn

LEMMA MountMarks ==
  ASSUME Pages!SomeTasks, TabOK(tab), MarksOK, NEW i \in DOMAIN tab.pages, Pages!Mount(i)
  PROVE  MarksOK'
<1>1. tab.pages[i].at \in {"served", "refused"} /\ UNCHANGED <<answers, sends>>
  BY DEF Pages!Mount, Pages!Step
<1>2. CASE Pages!IsSolve(tab, i)
  <2>1. tab' = Pages!MountSolve(tab, i) /\ tab.pages[i].url = "solve"
    BY <1>2 DEF Pages!Mount, Pages!Step, Pages!IsSolve
  <2>2. Whole(tab') /\ Marked(tab', answers, sends)
    BY <1>1, <2>1, MountSolveMarks DEF MarksOK
  <2> QED
    BY <1>1, <2>2 DEF MarksOK
<1>3. CASE ~Pages!IsSolve(tab, i)
  <2>1. i \in Nat \ {0}
    <3>1. PICK S : tab.pages \in Seq(S)
      BY DEF TabOK, Formed, IsSequence
    <3> QED
      BY <3>1, LenProperties
  <2>2. tab' = Pages!MountMain(tab, i) /\ tab.pages[i].url # "solve"
    BY <1>3, <2>1 DEF Pages!Mount, Pages!Step, Pages!IsSolve
  <2>3. Carries(tab', tab)
    BY <1>1, <2>2, MountMainCarries DEF MarksOK
  <2> QED
    BY <1>1, <2>3, CarriedOn
<1> QED
  BY <1>2, <1>3

LEMMA LoginMarks ==
  ASSUME Pages!SomeTasks, TabOK(tab), MarksOK, Pages!Login \/ Pages!End PROVE MarksOK'
<1>1. Formed(tab)
  BY DEF TabOK
<1>2. tab'.pages = tab.pages /\ tab'.main = tab.main /\ UNCHANGED <<answers, sends>>
  BY <1>1 DEF Formed, Pages!Login, Pages!End, Pages!Step
<1>3. Carries(tab', tab)
  BY <1>1, <1>2, RouterCarries DEF MarksOK
<1> QED
  BY <1>2, <1>3, CarriedOn

LEMMA LoggedInMarks ==
  ASSUME Pages!SomeTasks, TabOK(tab), MarksOK, Pages!LoggedIn PROVE MarksOK'
<1> DEFINE over == [tab EXCEPT !.loggingIn = FALSE]
           user == [over EXCEPT !.user = role]
           shown == [over EXCEPT !.shade = FALSE]
           gone == Pages!goTo(user, "#update-header")
<1>1. Formed(tab)
  BY DEF TabOK
<1>2. /\ tab' = Pages!Redirect(gone, tab.back) \/ tab' = shown
      /\ UNCHANGED <<answers, sends>>
  BY DEF Pages!LoggedIn, Pages!Step
<1>3. SameRouter(user, tab) /\ user.pages = tab.pages
  BY <1>1 DEF Formed, SameRouter
<1>4. SameRouter(shown, tab) /\ shown.pages = tab.pages
  BY <1>1 DEF Formed, SameRouter
<1> HIDE DEF user, shown
<1>5. TabOK(user) /\ Carries(user, tab) /\ Carries(shown, tab)
  BY <1>1, <1>3, <1>4, RouterOnly, RouterCarries DEF SameRouter, MarksOK
<1>6. TabOK(gone) /\ Carries(gone, user)
  BY <1>5, goToKeeps, goToCarries DEF Urls, Carries
<1> HIDE DEF gone
<1>7. Carries(Pages!Redirect(gone, tab.back), gone)
  BY <1>6, RedirectCarries DEF TabOK, Carries
<1>8. Carries(tab', tab)
  BY <1>2, <1>5, <1>6, <1>7, CarriesOn
<1> QED
  BY <1>2, <1>8, CarriedOn

LEMMA LoggedOutMarks ==
  ASSUME Pages!SomeTasks, TabOK(tab), MarksOK, Pages!LoggedOut PROVE MarksOK'
<1> DEFINE over == [tab EXCEPT !.loggingOut = FALSE]
           user == [over EXCEPT !.user = "none"]
           gone == Pages!goTo(user, "#update-header")
<1>1. Formed(tab)
  BY DEF TabOK
<1>2. /\ tab' = Pages!Redirect(gone, "login") \/ tab' = over
      /\ UNCHANGED <<answers, sends>>
  BY DEF Pages!LoggedOut, Pages!Step
<1>3. SameRouter(over, tab) /\ over.pages = tab.pages
  BY <1>1 DEF Formed, SameRouter
<1>4. SameRouter(user, tab) /\ user.pages = tab.pages
  BY <1>1 DEF Formed, SameRouter
<1> HIDE DEF over, user
<1>5. TabOK(user) /\ Carries(user, tab) /\ Carries(over, tab)
  BY <1>1, <1>3, <1>4, RouterOnly, RouterCarries DEF SameRouter, MarksOK
<1>6. TabOK(gone) /\ Carries(gone, user)
  BY <1>5, goToKeeps, goToCarries DEF Urls, Carries
<1> HIDE DEF gone
<1>7. Carries(Pages!Redirect(gone, "login"), gone)
  BY <1>6, RedirectCarries DEF TabOK, Carries
<1>8. Carries(tab', tab)
  BY <1>2, <1>5, <1>6, <1>7, CarriesOn
<1> QED
  BY <1>2, <1>8, CarriedOn

LEMMA EndedMarks ==
  ASSUME Pages!SomeTasks, TabOK(tab), MarksOK, Pages!Ended PROVE MarksOK'
<1> DEFINE over == [tab EXCEPT !.ending = Pages!Nothing]
           free == [over EXCEPT !.pages[tab.ending]["unloadable"] = TRUE]
<1>1. Formed(tab)
  BY DEF TabOK
<1>2. /\ tab' = Pages!goTo(free, "") \/ tab' = over
      /\ UNCHANGED <<answers, sends>>
  BY DEF Pages!Ended
<1>3. SameRouter(over, tab) /\ over.pages = tab.pages
  BY <1>1 DEF Formed, SameRouter
<1> HIDE DEF over
<1>4. TabOK(over) /\ Carries(over, tab)
  BY <1>1, <1>3, RouterOnly, RouterCarries DEF SameRouter, MarksOK
<1>5. TabOK(free) /\ Carries(free, over)
  <2>1. Formed(over) /\ Whole(over)
    BY <1>4 DEF TabOK, Carries
  <2> QED
    BY <1>4, <2>1, PartChanged, PartCarries
<1> HIDE DEF free
<1>6. Carries(Pages!goTo(free, ""), free)
  BY <1>5, goToCarries DEF Urls, Carries
<1>7. Carries(tab', tab)
  BY <1>2, <1>4, <1>5, <1>6, CarriesOn
<1> QED
  BY <1>2, <1>7, CarriedOn

\* A page that is given the answers while requests are under way may have old ones.
LEMMA ServeMarks ==
  ASSUME TabOK(tab), MarksOK, NEW i \in DOMAIN tab.pages, Pages!Serve(i) PROVE MarksOK'
<1> DEFINE given == [t \in Tasks |-> answers[t].bytes]
           p == tab.pages[i]
           q == [[[p EXCEPT !.at = "served"] EXCEPT !.given = given] EXCEPT !.troubled = sends # {}]
<1>1. /\ p.at = "asked" /\ UNCHANGED <<answers, sends>>
      /\ \/ tab' = [tab EXCEPT !.pages[i].at = "served", !.pages[i].given = given,
                               !.pages[i].troubled = sends # {}]
         \/ tab' = [tab EXCEPT !.pages[i].at = "refused"]
  BY DEF Pages!Serve, Pages!Step
<1>2. Formed(tab) /\ Whole(tab) /\ MarkParts(p)
  BY DEF TabOK, MarksOK, Whole
<1>3. CASE tab' = [tab EXCEPT !.pages[i].at = "refused"]
  <2>1. Carries(tab', tab)
    BY <1>1, <1>2, <1>3, FailedCarries
  <2> QED
    BY <1>1, <2>1, CarriedOn
<1>4. CASE tab' = [tab EXCEPT !.pages[i].at = "served", !.pages[i].given = given,
                              !.pages[i].troubled = sends # {}]
  <2>1. tab'.pages = [tab.pages EXCEPT ![i] = q] /\ tab'.main = tab.main
    BY <1>2, <1>4 DEF Formed
  <2>2. /\ DOMAIN q = DOMAIN p /\ q.url = p.url /\ q.at = "served" /\ q.given = given
        /\ q.hasAnswers = p.hasAnswers /\ q.currentPos = p.currentPos
        /\ q.troubled = (sends # {})
    BY <1>2 DEF MarkParts
  <2> HIDE DEF q
  <2>3. MarkParts(q)
    BY <1>2, <2>2 DEF MarkParts
  <2>4. Tallied(q) /\ Known(i, q, answers, sends)
    BY <2>2 DEF Tallied, Known
  <2>5. ~(i = tab.main /\ q.url = "solve")
    BY <1>1, <1>2, <2>2 DEF Whole
  <2>6. \A j \in DOMAIN tab.pages \ {i} :
          InGame(tab.pages[j]) => Known(j, tab.pages[j], answers, sends)
    BY DEF MarksOK, Marked
  <2>7. Whole(tab') /\ Marked(tab', answers, sends)
    BY <1>2, <2>1, <2>2, <2>3, <2>4, <2>5, <2>6, PageMarked DEF MarksOK
  <2> QED
    BY <1>1, <2>7 DEF MarksOK
<1> QED
  BY <1>1, <1>3, <1>4

\* The page of the contest that is shown.
LEMMA ShownPage ==
  ASSUME TabOK(tab), MarksOK, Pages!ShownSolve(tab)
  PROVE  /\ tab.main \in DOMAIN tab.pages /\ MarkParts(tab.pages[tab.main])
         /\ tab.pages[tab.main].url = "solve" /\ tab.pages[tab.main].at = "shown"
BY DEF MarksOK, Whole, Pages!ShownSolve, Pages!IsSolve, Pages!Nothing, Pages!LoginForm

LEMMA InContestMarks ==
  ASSUME TabOK(tab), MarksOK, NEW q, Pages!InContest(q), DOMAIN q = DOMAIN tab.pages[tab.main],
         q.url = tab.pages[tab.main].url, SameMarks(q, tab.pages[tab.main]),
         q.currentPos \in Tasks
  PROVE  MarksOK'
<1>1. /\ Formed(tab) /\ Pages!ShownSolve(tab) /\ UNCHANGED <<answers, sends>>
      /\ tab' = [tab EXCEPT !.pages[tab.main] = q]
  BY DEF TabOK, Pages!InContest, Pages!Step
<1>2. tab'.pages = [tab.pages EXCEPT ![tab.main] = q] /\ tab'.main = tab.main
  BY <1>1 DEF Formed
<1>3. MarkParts(q)
  BY <1>1, ShownPage DEF MarkParts, SameMarks
<1>4. q.at = tab.pages[tab.main].at
  BY DEF SameMarks
<1>5. Carries(tab', tab)
  BY <1>2, <1>3, <1>4, PageCarries DEF MarksOK
<1> QED
  BY <1>1, <1>5, CarriedOn

LEMMA ChooseMarks ==
  ASSUME TabOK(tab), MarksOK, NEW t \in Tasks, Pages!Choose(t) PROVE MarksOK'
<1> DEFINE p == tab.pages[tab.main]
           q == Pages!ShowTask(p, t)
<1>1. Pages!InContest(q) /\ Pages!ShownSolve(tab)
  BY DEF Pages!Choose
<1>2. MarkParts(p)
  BY <1>1, ShownPage
<1>3. /\ DOMAIN q = DOMAIN p /\ q.url = p.url /\ q.currentPos = t /\ SameMarks(q, p)
  BY <1>2 DEF MarkParts, Pages!ShowTask, SameMarks
<1> HIDE DEF q
<1> QED
  BY <1>1, <1>3, InContestMarks

LEMMA TypeCellsMarks ==
  ASSUME TabOK(tab), MarksOK, NEW cells \in Typed, Pages!TypeCells(cells) PROVE MarksOK'
<1> DEFINE p == tab.pages[tab.main]
           q == [p EXCEPT !.inputs[p.currentPos] = cells, !.fresh = FALSE]
<1>1. Pages!InContest(q) /\ Pages!ShownSolve(tab)
  BY DEF Pages!TypeCells
<1>2. MarkParts(p)
  BY <1>1, ShownPage
<1>3. /\ DOMAIN q = DOMAIN p /\ q.url = p.url /\ q.currentPos = p.currentPos /\ SameMarks(q, p)
  BY <1>2 DEF MarkParts, SameMarks
<1> HIDE DEF q
<1> QED
  BY <1>1, <1>2, <1>3, InContestMarks DEF MarkParts

\* One mark is changed: the number changes by as much.
LEMMA MarkCounted ==
  ASSUME IsFiniteSet(Tasks), NEW has \in [Tasks -> BOOLEAN], NEW t \in Tasks, NEW v \in BOOLEAN
  PROVE  Cardinality({u \in Tasks : [has EXCEPT ![t] = v][u]})
           = Cardinality({u \in Tasks : has[u]}) - (IF has[t] THEN 1 ELSE 0) + (IF v THEN 1 ELSE 0)
<1> DEFINE later == [has EXCEPT ![t] = v]
           Others == {u \in Tasks \ {t} : has[u]}
           n == Cardinality(Others)
<1>1. IsFiniteSet(Others) /\ t \notin Others
  <2>1. Others \subseteq Tasks
    OBVIOUS
  <2> QED
    BY <2>1, FS_Subset
<1>2. n \in Nat /\ Cardinality(Others \cup {t}) = n + 1
  BY <1>1, FS_CardinalityType, FS_AddElement
<1>3. {u \in Tasks : has[u]} = IF has[t] THEN Others \cup {t} ELSE Others
  OBVIOUS
<1>4. {u \in Tasks : later[u]} = IF v THEN Others \cup {t} ELSE Others
  OBVIOUS
<1> HIDE DEF later, Others
<1>5. Cardinality({u \in Tasks : has[u]}) = IF has[t] THEN n + 1 ELSE n
  BY <1>2, <1>3
<1>6. Cardinality({u \in Tasks : later[u]}) = IF v THEN n + 1 ELSE n
  BY <1>2, <1>4
<1> HIDE DEF n
<1>7. Cardinality({u \in Tasks : later[u]})
        = Cardinality({u \in Tasks : has[u]}) - (IF has[t] THEN 1 ELSE 0) + (IF v THEN 1 ELSE 0)
  BY <1>2, <1>5, <1>6
<1> QED
  BY <1>7 DEF later

\* The page after its answer was sent.
SentPage(p, bytes, overlaps) ==
  [[Pages!Counted(p, bytes) EXCEPT !.given[p.currentPos] = bytes]
     EXCEPT !.troubled = @ \/ overlaps]

LEMMA CountedPage ==
  ASSUME Pages!SomeTasks, NEW p, MarkParts(p), p.at = "shown", Tallied(p), NEW bytes,
         NEW overlaps \in BOOLEAN, NEW q, q = SentPage(p, bytes, overlaps)
  PROVE  /\ MarkParts(q) /\ Tallied(q) /\ q.url = p.url /\ q.at = p.at
         /\ q.given = [p.given EXCEPT ![p.currentPos] = bytes]
         /\ q.troubled = (p.troubled \/ overlaps)
<1> DEFINE t == p.currentPos
           r == Pages!Counted(p, bytes)
           has == [p.hasAnswers EXCEPT ![t] = bytes # <<>>]
<1>1. /\ DOMAIN r = DOMAIN p /\ r.url = p.url /\ r.at = p.at /\ r.given = p.given
      /\ r.troubled = p.troubled /\ r.currentPos = t /\ r.hasAnswers = has
      /\ r.answerCount = p.answerCount - (IF p.hasAnswers[t] THEN 1 ELSE 0)
                                        + (IF bytes # <<>> THEN 1 ELSE 0)
  BY DEF MarkParts, Pages!Counted
<1> HIDE DEF r
<1>2. /\ DOMAIN q = DOMAIN p /\ q.url = p.url /\ q.at = p.at
      /\ q.given = [p.given EXCEPT ![t] = bytes]
      /\ q.troubled = (p.troubled \/ overlaps) /\ q.currentPos = t
      /\ q.hasAnswers = r.hasAnswers /\ q.answerCount = r.answerCount
  BY <1>1 DEF MarkParts, SentPage, r
<1>3. MarkParts(q)
  <2>1. /\ {"url", "at", "given", "hasAnswers", "answerCount", "troubled", "currentPos"}
               \subseteq DOMAIN p
        /\ DOMAIN p.given = Tasks /\ p.hasAnswers \in [Tasks -> BOOLEAN] /\ t \in Tasks
        /\ p.troubled \in BOOLEAN
    BY DEF MarkParts
  <2>2. has \in [Tasks -> BOOLEAN] /\ DOMAIN [p.given EXCEPT ![t] = bytes] = Tasks
    BY <2>1
  <2>3. (p.troubled \/ overlaps) \in BOOLEAN
    OBVIOUS
  <2> HIDE DEF has, t
  <2>4. DOMAIN q.given = Tasks /\ q.hasAnswers \in [Tasks -> BOOLEAN] /\ q.troubled \in BOOLEAN
    BY <1>1, <1>2, <2>2, <2>3
  <2>5. DOMAIN q = DOMAIN p /\ q.currentPos \in Tasks
    BY <1>2, <2>1
  <2> QED
    BY <2>1, <2>4, <2>5 DEF MarkParts
<1>4. p.answerCount = Cardinality({u \in Tasks : p.hasAnswers[u]})
  BY DEF Tallied
<1>5. q.answerCount = Cardinality({u \in Tasks : q.hasAnswers[u]})
  <2>1. IsFiniteSet(Tasks)
    BY SameCardinality DEF Pages!SomeTasks
  <2>2. p.hasAnswers \in [Tasks -> BOOLEAN] /\ t \in Tasks
    BY DEF MarkParts
  <2>3. Cardinality({u \in Tasks : has[u]})
          = Cardinality({u \in Tasks : p.hasAnswers[u]})
              - (IF p.hasAnswers[t] THEN 1 ELSE 0) + (IF bytes # <<>> THEN 1 ELSE 0)
    <3> DEFINE v == bytes # <<>>
               old == p.hasAnswers
    <3>1. v \in BOOLEAN /\ old \in [Tasks -> BOOLEAN] /\ t \in Tasks
      BY <2>2
    <3> HIDE DEF v, old, t
    <3>2. Cardinality({u \in Tasks : [old EXCEPT ![t] = v][u]})
            = Cardinality({u \in Tasks : old[u]}) - (IF old[t] THEN 1 ELSE 0) + (IF v THEN 1 ELSE 0)
      BY <2>1, <3>1, MarkCounted
    <3> QED
      BY <3>2 DEF v, old
  <2>4. /\ q.hasAnswers = has
        /\ q.answerCount = p.answerCount - (IF p.hasAnswers[t] THEN 1 ELSE 0)
                                          + (IF bytes # <<>> THEN 1 ELSE 0)
    BY <1>1, <1>2
  <2> HIDE DEF has, t
  <2> QED
    BY <1>4, <2>3, <2>4
<1>6. \A u \in Tasks : q.hasAnswers[u] = (q.given[u] # <<>>)
  <2>1. \A u \in Tasks : p.hasAnswers[u] = (p.given[u] # <<>>)
    BY DEF Tallied
  <2> QED
    BY <1>1, <1>2, <2>1 DEF MarkParts
<1> QED
  BY <1>2, <1>3, <1>5, <1>6 DEF Tallied

\* What is sent is what the page has now; the pages of others know nothing of it.
LEMMA SendMarks ==
  ASSUME Pages!SomeTasks, TabOK(tab), MarksOK, Pages!Send PROVE MarksOK'
<1> DEFINE i == tab.main
           p == tab.pages[i]
           t == p.currentPos
           bytes == Pages!Encoded(p.inputs[t])
           overlaps == \E s \in sends : s.task = t
           q == SentPage(p, bytes, overlaps)
           new == [page |-> i, task |-> t, bytes |-> bytes, cells |-> p.inputs[t],
                   outcome |-> "none"]
<1>1. /\ tab' = [tab EXCEPT !.shade = TRUE, !.pages[i] = q]
      /\ sends' = sends \cup {new} /\ UNCHANGED answers /\ Pages!ShownSolve(tab)
  BY DEF Pages!Send, SentPage
<1>2. Formed(tab) /\ Whole(tab)
  BY DEF TabOK, MarksOK
<1>3. i \in DOMAIN tab.pages /\ MarkParts(p) /\ p.url = "solve" /\ p.at = "shown"
  BY <1>1, ShownPage
<1>4. Tallied(p) /\ Known(i, p, answers, sends)
  BY <1>3 DEF MarksOK, Marked, InGame
<1>5. tab'.pages = [tab.pages EXCEPT ![i] = q] /\ tab'.main = i
  BY <1>1, <1>2 DEF Formed
<1>6. overlaps \in BOOLEAN
  OBVIOUS
<1>7. /\ {"page", "task", "bytes", "outcome"} \subseteq DOMAIN new
      /\ new.page = i /\ new.task = t /\ new.bytes = bytes /\ new.outcome = "none"
  OBVIOUS
<1> HIDE DEF bytes, new
<1>8. /\ MarkParts(q) /\ Tallied(q) /\ q.url = p.url /\ q.at = p.at
      /\ q.given = [p.given EXCEPT ![t] = bytes]
      /\ q.troubled = (p.troubled \/ overlaps)
  <2>1. q = SentPage(p, bytes, overlaps)
    OBVIOUS
  <2> HIDE DEF q, overlaps, p
  <2> QED
    BY <1>3, <1>4, <1>6, <2>1, CountedPage
<1> HIDE DEF q
<1>9. Known(i, q, answers, sends')
  <2> SUFFICES ASSUME ~q.troubled
               PROVE  /\ \A u \in Tasks :
                           \/ q.given[u] = answers[u].bytes
                           \/ \E s \in sends' : s.page = i /\ s.task = u /\ s.outcome # "ok"
                      /\ \A s \in sends' : s.page = i => q.given[s.task] = s.bytes
    BY DEF Known
  <2>1. ~p.troubled /\ \A s \in sends : s.task # t
    BY <1>8
  <2>2. /\ t \in Tasks /\ DOMAIN p.given = Tasks /\ q.given[t] = bytes
        /\ \A u : u # t => q.given[u] = p.given[u]
    BY <1>3, <1>8 DEF MarkParts
  <2>3. /\ \A u \in Tasks : \/ p.given[u] = answers[u].bytes
                            \/ \E s \in sends : s.page = i /\ s.task = u /\ s.outcome # "ok"
        /\ \A s \in sends : s.page = i => p.given[s.task] = s.bytes
    BY <1>4, <2>1 DEF Known
  <2>4. ASSUME NEW u \in Tasks
        PROVE  \/ q.given[u] = answers[u].bytes
               \/ \E s \in sends' : s.page = i /\ s.task = u /\ s.outcome # "ok"
    <3>1. CASE u = t
      BY <1>1, <1>7, <3>1
    <3>2. CASE u # t
      BY <1>1, <2>2, <2>3, <3>2
    <3> QED
      BY <3>1, <3>2
  <2>5. ASSUME NEW s \in sends', s.page = i PROVE q.given[s.task] = s.bytes
    <3>1. CASE s = new
      BY <1>7, <2>2, <3>1
    <3>2. CASE s \in sends
      BY <2>1, <2>2, <2>3, <2>5, <3>2
    <3> QED
      BY <1>1, <3>1, <3>2
  <2> QED
    BY <2>4, <2>5
<1>10. ASSUME NEW j \in DOMAIN tab.pages \ {i}, InGame(tab.pages[j])
       PROVE  Known(j, tab.pages[j], answers, sends')
  <2>1. Known(j, tab.pages[j], answers, sends)
    BY <1>10 DEF MarksOK, Marked
  <2> QED
    BY <1>1, <1>7, <1>10, <2>1 DEF Known
<1>11. Whole(tab') /\ Marked(tab', answers, sends')
  <2>1. Marked(tab, answers, sends)
    BY DEF MarksOK
  <2>2. q.url = tab.pages[i].url /\ q.at = "shown"
    BY <1>3, <1>8
  <2> HIDE DEF p
  <2> QED
    BY <1>2, <1>3, <1>5, <1>8, <1>9, <1>10, <2>1, <2>2, PageMarked
<1>12. Sendings(sends')
  BY <1>1, <1>7 DEF MarksOK, Sendings
<1> QED
  BY <1>1, <1>11, <1>12 DEF MarksOK

\* An answer that is stored is that of the page which sent it, and troubles the others.
LEMMA ServeAnswerMarks ==
  ASSUME TabOK(tab), MarksOK, NEW s \in sends, Pages!ServeAnswer(s) PROVE MarksOK'
<1> DEFINE t == s.task
           pages == [j \in DOMAIN tab.pages |->
                       [tab.pages[j] EXCEPT !.troubled = @ \/ j # s.page]]
<1>1. PICK score, outcome :
        /\ s.outcome = "none"
        /\ sends' = (sends \ {s}) \cup {[s EXCEPT !.outcome = outcome]}
        /\ \/ /\ outcome = "ok" /\ tab' = [tab EXCEPT !.pages = pages]
              /\ answers' = [answers EXCEPT ![t] = [bytes |-> s.bytes, score |-> score]]
           \/ outcome = "error" /\ UNCHANGED <<answers, tab>>
  BY DEF Pages!ServeAnswer
<1> DEFINE told == [s EXCEPT !.outcome = outcome]
<1>2. Formed(tab) /\ Whole(tab) /\ Sendings(sends) /\ DOMAIN answers = Tasks
  BY DEF TabOK, MarksOK
<1>3. /\ DOMAIN told = DOMAIN s /\ told.page = s.page /\ told.task = t
      /\ told.bytes = s.bytes /\ told.outcome = outcome
  BY <1>2 DEF Sendings
<1> HIDE DEF told
<1>4. Sendings(sends')
  BY <1>1, <1>2, <1>3 DEF Sendings, told
<1>5. CASE outcome = "error" /\ UNCHANGED <<answers, tab>>
  <2>1. ASSUME NEW i, NEW p, Known(i, p, answers, sends) PROVE Known(i, p, answers, sends')
    <3>1. \A r \in sends : \/ r \in sends'
                           \/ /\ told \in sends' /\ told.page = r.page /\ told.task = r.task
                              /\ told.outcome # "ok"
      BY <1>1, <1>3, <1>5 DEF told
    <3>2. \A r \in sends' : \E x \in sends : /\ x.page = r.page /\ x.task = r.task
                                             /\ x.bytes = r.bytes
      BY <1>1, <1>3 DEF told
    <3> QED
      BY <2>1, <3>1, <3>2 DEF Known
  <2>2. Marked(tab, answers, sends')
    BY <2>1 DEF MarksOK, Marked
  <2> QED
    BY <1>2, <1>4, <1>5, <2>2 DEF MarksOK
<1>6. CASE /\ outcome = "ok" /\ tab' = [tab EXCEPT !.pages = pages]
           /\ answers' = [answers EXCEPT ![t] = [bytes |-> s.bytes, score |-> score]]
  <2>1. /\ tab'.pages = pages /\ tab'.main = tab.main
        /\ DOMAIN pages = DOMAIN tab.pages
    BY <1>2, <1>6 DEF Formed
  <2>2. ASSUME NEW i \in DOMAIN tab.pages
        PROVE  /\ MarkParts(pages[i]) /\ pages[i].url = tab.pages[i].url
               /\ pages[i].at = tab.pages[i].at /\ pages[i].given = tab.pages[i].given
               /\ pages[i].hasAnswers = tab.pages[i].hasAnswers
               /\ pages[i].answerCount = tab.pages[i].answerCount
               /\ pages[i].troubled = (tab.pages[i].troubled \/ i # s.page)
    <3> DEFINE p == tab.pages[i]
               q == [p EXCEPT !.troubled = @ \/ i # s.page]
    <3>1. pages[i] = q /\ MarkParts(p)
      BY <1>2 DEF Whole
    <3>2. /\ DOMAIN q = DOMAIN p /\ q.url = p.url /\ q.at = p.at /\ q.given = p.given
          /\ q.hasAnswers = p.hasAnswers /\ q.answerCount = p.answerCount
          /\ q.currentPos = p.currentPos /\ q.troubled = (p.troubled \/ i # s.page)
      BY <3>1 DEF MarkParts
    <3>3. (p.troubled \/ i # s.page) \in BOOLEAN
      OBVIOUS
    <3> HIDE DEF q, pages
    <3>4. MarkParts(q)
      BY <3>1, <3>2, <3>3 DEF MarkParts
    <3> QED
      BY <3>1, <3>2, <3>4
  <2> HIDE DEF pages
  <2>3. Whole(tab')
    BY <1>2, <2>1, <2>2 DEF Whole
  <2>4. DOMAIN answers' = Tasks
    BY <1>2, <1>6
  <2>5. Marked(tab', answers', sends')
    <3> SUFFICES ASSUME NEW i \in DOMAIN tab'.pages, InGame(tab'.pages[i])
                 PROVE  Tallied(tab'.pages[i]) /\ Known(i, tab'.pages[i], answers', sends')
      BY DEF Marked
    <3> DEFINE p == tab.pages[i]
               q == tab'.pages[i]
    <3>1. /\ i \in DOMAIN tab.pages /\ q.url = p.url /\ q.at = p.at /\ q.given = p.given
          /\ q.hasAnswers = p.hasAnswers /\ q.answerCount = p.answerCount
          /\ q.troubled = (p.troubled \/ i # s.page)
      BY <2>1, <2>2
    <3>2. Tallied(p) /\ Known(i, p, answers, sends)
      BY <3>1 DEF MarksOK, Marked, InGame
    <3>3. Tallied(q)
      BY <3>1, <3>2 DEF Tallied
    <3>4. Known(i, q, answers', sends')
      <4> SUFFICES ASSUME ~q.troubled
                   PROVE  /\ \A u \in Tasks :
                               \/ q.given[u] = answers'[u].bytes
                               \/ \E r \in sends' : r.page = i /\ r.task = u /\ r.outcome # "ok"
                          /\ \A r \in sends' : r.page = i => q.given[r.task] = r.bytes
        BY DEF Known
      <4>1. ~p.troubled /\ s.page = i
        BY <3>1
      <4>2. /\ \A u \in Tasks :
                  \/ p.given[u] = answers[u].bytes
                  \/ \E r \in sends : r.page = i /\ r.task = u /\ r.outcome # "ok"
            /\ \A r \in sends : r.page = i => p.given[r.task] = r.bytes
        BY <3>2, <4>1 DEF Known
      <4>3. p.given[t] = s.bytes
        BY <4>1, <4>2
      <4>4. ASSUME NEW u \in Tasks
            PROVE  \/ q.given[u] = answers'[u].bytes
                   \/ \E r \in sends' : r.page = i /\ r.task = u /\ r.outcome # "ok"
        <5>1. CASE u = t
          <6>1. answers'[u] = [bytes |-> s.bytes, score |-> score]
            BY <1>2, <1>6, <5>1
          <6>2. answers'[u].bytes = s.bytes
            BY <6>1
          <6> QED
            BY <3>1, <4>3, <5>1, <6>2
        <5>2. CASE u # t
          <6>1. answers'[u] = answers[u]
            BY <1>2, <1>6, <5>2
          <6>2. \A r \in sends : r.task = u => r \in sends'
            BY <1>1, <5>2
          <6> QED
            BY <3>1, <4>2, <6>1, <6>2
        <5> QED
          BY <5>1, <5>2
      <4>5. ASSUME NEW r \in sends', r.page = i PROVE q.given[r.task] = r.bytes
        <5>1. r \in sends \/ r = told
          BY <1>1 DEF told
        <5> QED
          BY <1>3, <3>1, <4>2, <4>3, <4>5, <5>1
      <4> QED
        BY <4>4, <4>5
    <3> QED
      BY <3>3, <3>4
  <2> QED
    BY <1>4, <2>3, <2>4, <2>5 DEF MarksOK
<1> QED
  BY <1>1, <1>5, <1>6

\* A request that is over without a word that its answer was stored troubles its page.
LEMMA SentMarks ==
  ASSUME TabOK(tab), MarksOK, NEW s \in sends, Pages!Sent(s) PROVE MarksOK'
<1> DEFINE i == s.page
           told == [tab EXCEPT !.shade = FALSE]
<1>1. PICK lost \in BOOLEAN :
        /\ sends' = sends \ {s} /\ UNCHANGED answers
        /\ \/ i = Pages!Nothing /\ tab' = tab
           \/ tab' = [told EXCEPT !.pages[i].troubled = @ \/ s.outcome # "ok" \/ lost]
  <2>1. (budget' # budget) \in BOOLEAN
    OBVIOUS
  <2> QED
    BY <2>1 DEF Pages!Sent
<1>2. Formed(tab) /\ Whole(tab) /\ Sendings(sends') /\ DOMAIN answers' = Tasks
  BY <1>1 DEF TabOK, MarksOK, Sendings
<1>3. Pages!Nothing \notin DOMAIN tab.pages
  BY <1>2, Numbered
<1>4. ASSUME NEW j \in DOMAIN tab.pages, j # i \/ s.outcome = "ok", NEW p,
             Known(j, p, answers, sends)
      PROVE  Known(j, p, answers, sends')
  BY <1>1, <1>4 DEF Known
<1>5. CASE i \notin DOMAIN tab.pages
  <2>1. tab'.pages = tab.pages /\ tab'.main = tab.main
    <3>1. tab.pages = [j \in DOMAIN tab.pages |-> tab.pages[j]]
      BY <1>2, Numbered
    <3>2. CASE tab' = tab
      BY <3>2
    <3>3. CASE tab' # tab
      <4>1. PICK q : tab'.pages = [tab.pages EXCEPT ![i] = q] /\ tab'.main = tab.main
        BY <1>1, <1>2, <3>3 DEF Formed
      <4> QED
        BY <1>5, <3>1, <4>1
    <3> QED
      BY <3>2, <3>3
  <2>2. Carries(tab', tab)
    BY <1>2, <2>1, RouterCarries
  <2>3. Marked(tab, answers, sends')
    BY <1>4, <1>5 DEF MarksOK, Marked
  <2> QED
    BY <1>1, <1>2, <2>2, <2>3, CarriedMarks DEF MarksOK, Carries
<1>6. CASE i \in DOMAIN tab.pages
  <2> DEFINE p == tab.pages[i]
             q == [p EXCEPT !.troubled = @ \/ s.outcome # "ok" \/ lost]
  <2>1. tab'.pages = [tab.pages EXCEPT ![i] = q] /\ tab'.main = tab.main
    BY <1>1, <1>2, <1>3, <1>6 DEF Formed
  <2>2. MarkParts(p)
    BY <1>2, <1>6 DEF Whole
  <2>3. /\ DOMAIN q = DOMAIN p /\ q.url = p.url /\ q.at = p.at /\ q.given = p.given
        /\ q.hasAnswers = p.hasAnswers /\ q.answerCount = p.answerCount
        /\ q.currentPos = p.currentPos
        /\ q.troubled = (p.troubled \/ s.outcome # "ok" \/ lost)
    BY <2>2 DEF MarkParts
  <2>4. (p.troubled \/ s.outcome # "ok" \/ lost) \in BOOLEAN
    OBVIOUS
  <2> HIDE DEF q
  <2>5. MarkParts(q)
    BY <2>2, <2>3, <2>4 DEF MarkParts
  <2>6. ASSUME InGame(q) PROVE Tallied(q) /\ Known(i, q, answers, sends')
    <3>1. Tallied(p) /\ Known(i, p, answers, sends)
      BY <1>6, <2>3, <2>6 DEF MarksOK, Marked, InGame
    <3>2. Tallied(q)
      BY <2>3, <3>1 DEF Tallied
    <3>3. Known(i, q, answers, sends')
      <4>1. CASE q.troubled
        BY <4>1 DEF Known
      <4>2. CASE ~q.troubled
        <5>1. s.outcome = "ok" /\ ~p.troubled
          BY <2>3, <4>2
        <5>2. Known(i, p, answers, sends')
          BY <1>4, <1>6, <3>1, <5>1
        <5> QED
          BY <2>3, <5>1, <5>2 DEF Known
      <4> QED
        BY <4>1, <4>2
    <3> QED
      BY <3>2, <3>3
  <2>7. i = tab.main /\ q.url = "solve" => q.at = "shown"
    BY <1>2, <1>6, <2>3 DEF Whole
  <2>8. \A j \in DOMAIN tab.pages \ {i} :
          InGame(tab.pages[j]) => Known(j, tab.pages[j], answers, sends')
    BY <1>4 DEF MarksOK, Marked
  <2>9. Marked(tab, answers, sends) /\ q.url = tab.pages[i].url
    BY <2>3 DEF MarksOK
  <2> HIDE DEF p
  <2>10. Whole(tab') /\ Marked(tab', answers, sends')
    BY <1>2, <1>6, <2>1, <2>5, <2>6, <2>7, <2>8, <2>9, PageMarked
  <2> QED
    BY <1>1, <1>2, <2>10 DEF MarksOK
<1> QED
  BY <1>5, <1>6

-----------------------------------------------------------------------------
\* The marks of the contestant's pages are in order.
PagesInv == TabInv /\ MarksOK

LEMMA NextMarks ==
  ASSUME Pages!SomeTasks PROVE PagesInv /\ [Pages!Next]_(Pages!vars) => PagesInv'
<1> SUFFICES ASSUME PagesInv, [Pages!Next]_(Pages!vars) PROVE MarksOK'
  BY NextTab DEF PagesInv
<1>1. TabOK(tab) /\ MarksOK
  BY DEF PagesInv, TabInv
<1>2. CASE Pages!ServerClock \/ Pages!Clock \/ UNCHANGED Pages!vars
  <2>1. UNCHANGED <<tab, answers, sends>>
    BY <1>2 DEF Pages!ServerClock, Pages!Clock, Pages!vars
  <2>2. Carries(tab', tab)
    BY <1>1, <2>1 DEF MarksOK, Carries, SameMarks
  <2> QED
    BY <1>1, <2>1, <2>2, CarriedOn
<1>3. CASE Pages!Timer \/ Pages!Reload
  BY <1>1, <1>3, TimerMarks, ReloadMarks
<1>4. ASSUME NEW url \in {"", "solve", "login", "#logout"}, Pages!Go(url) PROVE MarksOK'
  BY <1>1, <1>4, GoMarks
<1>5. ASSUME NEW i \in DOMAIN tab.pages, Pages!Serve(i) \/ Pages!Mount(i) \/ Pages!Interval(i)
      PROVE  MarksOK'
  BY <1>1, <1>5, ServeMarks, MountMarks, IntervalMarks
<1>6. CASE Pages!Login \/ Pages!LoggedIn \/ Pages!LoggedOut
  BY <1>1, <1>6, LoginMarks, LoggedInMarks, LoggedOutMarks
<1>7. CASE Pages!End \/ Pages!Ended
  BY <1>1, <1>7, LoginMarks, EndedMarks
<1>8. ASSUME NEW t \in Tasks, Pages!Choose(t) PROVE MarksOK'
  BY <1>1, <1>8, ChooseMarks
<1>9. ASSUME NEW cells \in Typed, Pages!TypeCells(cells) PROVE MarksOK'
  BY <1>1, <1>9, TypeCellsMarks
<1>10. CASE Pages!Send
  BY <1>1, <1>10, SendMarks
<1>11. ASSUME NEW s \in sends, Pages!ServeAnswer(s) \/ Pages!Sent(s) PROVE MarksOK'
  BY <1>1, <1>11, ServeAnswerMarks, SentMarks
<1> QED
  BY <1>2, <1>3, <1>4, <1>5, <1>6, <1>7, <1>8, <1>9, <1>10, <1>11 DEF Pages!Next

LEMMA MarksFollow ==
  ASSUME PagesInv PROVE Pages!AnswersAreMarked
<1> DEFINE i == tab.main
           p == tab.pages[i]
<1> SUFFICES ASSUME Pages!ShownSolve(tab), ~p.troubled, ~ \E s \in sends : s.page = i
             PROVE  /\ p.answerCount = Pages!Cardinality({u \in Tasks : answers[u].bytes # <<>>})
                    /\ \A u \in Tasks : p.hasAnswers[u] = (answers[u].bytes # <<>>)
  BY DEF Pages!AnswersAreMarked
<1>1. TabOK(tab) /\ MarksOK
  BY DEF PagesInv, TabInv
<1>2. i \in DOMAIN tab.pages /\ p.url = "solve" /\ p.at = "shown"
  BY <1>1, ShownPage
<1>3. Tallied(p) /\ Known(i, p, answers, sends)
  BY <1>1, <1>2 DEF MarksOK, Marked, InGame
<1>4. \A u \in Tasks : p.given[u] = answers[u].bytes
  BY <1>3 DEF Known
<1>5. /\ p.answerCount = Cardinality({u \in Tasks : p.hasAnswers[u]})
      /\ \A u \in Tasks : p.hasAnswers[u] = (answers[u].bytes # <<>>)
  BY <1>2, <1>3, <1>4 DEF Tallied
<1>6. {u \in Tasks : p.hasAnswers[u]} = {u \in Tasks : answers[u].bytes # <<>>}
  BY <1>5
<1> QED
  BY <1>5, <1>6, SameCardinality

\* For any tasks, answers and budgets, of kims that have a task: the page of the contest
\* marks and counts the tasks that have an answer at the server, unless a request of its
\* own is under way or failed, or two were under way for one task, or another page sent
\* one.
THEOREM AnswersStayMarked ==
  ASSUME Pages!SomeTasks PROVE Pages!Spec => []Pages!AnswersAreMarked
<1>1. PagesInv => Pages!AnswersAreMarked
  BY MarksFollow
<1>2. Pages!Init => PagesInv
  BY InitTab, InitMarks DEF PagesInv, TabInv
<1>3. PagesInv /\ [Pages!Next]_(Pages!vars) => PagesInv'
  BY NextMarks
<1> QED
  BY <1>1, <1>2, <1>3, PTL DEF Pages!Spec

=============================================================================
