--------------------------- MODULE LoginFlow_proofs ---------------------------
(***************************************************************************)
(* Theorems about LoginFlow, for every set of threads, users and lobby      *)
(* servers, whatever fails, and any number of requests and restarts.        *)
(***************************************************************************)
EXTENDS LoginFlow, TLAPS

\* The steps before the choice of a server, and those between it and the answer.
Reading == {"LoginCheck", "GetUserInfo", "GetUserCurrency", "GetUserCostume",
            "GetUserInventory", "GetUserFriendsDB", "BuildFriendList", "SelectServer"}
Writing == {"SetUserCostume", "SetUserLocation", "ExpireLocation", "SetUserToken"}

Written == {"SetUserLocation", "ExpireLocation", "SetUserToken"}

\* What may go wrong with a login that succeeds, and what makes one fail.
Excused == {"noLobby", "costume", "location"}
Rejecting == {"credentials", "check"}
Breaking == {"db", "token"}

\* The costume of thread t's user is in Redis unless writing it threw.
Dressed(t) == "costume" \in cause[t] \/ costume[user(t)]

\* The answer thread t is about to give says what happened.
Truthful(t) ==
  /\ res[t].isSuccess <=> res[t].failCode = "None"
  /\ res[t].failCode = "WrongPassword" <=> cause[t] \cap Rejecting # {}
  /\ res[t].failCode = "ServerError" <=> cause[t] \cap Breaking # {}
  /\ res[t].failCode # "NoServer"
  /\ res[t].isSuccess => <<user(t), res[t].token>> \in issued /\ Dressed(t)

\* What a thread has at its place: a request from its beginning to the answer,
\* success from the choice of the server on.
ThreadOK(t) ==
  /\ pc[t] # "idle" => user(t) \in Users
  /\ pc[t] \in Reading \cup {"idle"} =>
       ~res[t].isSuccess /\ res[t].failCode = "None" /\ cause[t] = {}
  /\ pc[t] \in Writing =>
       res[t].isSuccess /\ res[t].failCode = "None" /\ cause[t] \subseteq Excused
  /\ pc[t] \in Written => Dressed(t)
  /\ pc[t] = "answer" => Truthful(t)

ThreadsOK == \A t \in Threads : ThreadOK(t)

IInv == TypeOK /\ ThreadsOK

-----------------------------------------------------------------------------
(* Parts of a step.                                                         *)

Servers == Lobbies \cup {NoServer}

\* A step of thread t leaves the others alone.
OthersSame(t) ==
  \A v \in Threads \ {t} : /\ pc'[v] = pc[v] /\ req'[v] = req[v] /\ res'[v] = res[v]
                           /\ cause'[v] = cause[v]

\* What was said or stored once, was.
HistoryGrows == /\ issued \subseteq issued' /\ answers \subseteq answers' /\ cutOff \subseteq cutOff'
                /\ \A u \in Users : costume[u] => costume'[u]

\* A success of thread t stays one, of the same user and server, or is answered,
\* or is cut off.
Kept(t) ==
  res[t].isSuccess =>
    \/ res'[t].isSuccess /\ res'[t].server = res[t].server /\ req'[t] = req[t]
    \/ <<user(t), res[t].server>> \in cutOff'
    \/ \E a \in answers' : /\ a.user = user(t) /\ a.res.isSuccess
                           /\ a.res.server = res[t].server

StepOK(t) == TypeOK' /\ OthersSame(t) /\ ThreadOK(t)' /\ HistoryGrows /\ Kept(t)

\* What a failure, the choice of a server and a token make of a loginRes.
Failing(r, code) == [r EXCEPT !.isSuccess = FALSE, !.failCode = code]
Placed(r, l) == [r EXCEPT !.isSuccess = TRUE, !.server = l]
WithToken(r, k) == [r EXCEPT !.token = k]

LEMMA Responses ==
  ASSUME NEW r \in Response
  PROVE  /\ r.isSuccess \in BOOLEAN /\ r.failCode \in FailCode /\ r.server \in Servers
         /\ r.token \in 0..MaxSecond
         /\ \A code \in FailCode :
              /\ Failing(r, code) \in Response /\ ~Failing(r, code).isSuccess
              /\ Failing(r, code).failCode = code
         /\ \A l \in Servers :
              /\ Placed(r, l) \in Response /\ Placed(r, l).isSuccess
              /\ Placed(r, l).failCode = r.failCode
         /\ \A k \in 0..MaxSecond :
              /\ WithToken(r, k) \in Response /\ WithToken(r, k).isSuccess = r.isSuccess
              /\ WithToken(r, k).failCode = r.failCode /\ WithToken(r, k).server = r.server
              /\ WithToken(r, k).token = k
<1>1. r \in [isSuccess : BOOLEAN, failCode : FailCode, server : Servers, token : 0..MaxSecond]
  BY DEF Response, Servers
<1> DEFINE T == 0..MaxSecond
<1> HIDE DEF T
<1> DEFINE R == [isSuccess : BOOLEAN, failCode : FailCode, server : Servers, token : T]
<1>2. r \in R
  BY <1>1 DEF T
<1>3. ASSUME NEW code \in FailCode
      PROVE  /\ Failing(r, code) \in R /\ ~Failing(r, code).isSuccess
             /\ Failing(r, code).failCode = code
  BY <1>2 DEF Failing
<1>4. ASSUME NEW l \in Servers
      PROVE  /\ Placed(r, l) \in R /\ Placed(r, l).isSuccess
             /\ Placed(r, l).failCode = r.failCode
  BY <1>2 DEF Placed
<1>5. ASSUME NEW k \in T
      PROVE  /\ WithToken(r, k) \in R /\ WithToken(r, k).isSuccess = r.isSuccess
             /\ WithToken(r, k).failCode = r.failCode /\ WithToken(r, k).server = r.server
             /\ WithToken(r, k).token = k
  BY <1>2 DEF WithToken
<1>6. Response = R
  BY Zenon DEF Response, Servers, T
<1>7. r.isSuccess \in BOOLEAN /\ r.failCode \in FailCode /\ r.server \in Servers /\ r.token \in T
  BY <1>2
<1> HIDE DEF R
<1> QED BY <1>3, <1>4, <1>5, <1>6, <1>7, Zenon DEF T

-----------------------------------------------------------------------------
(* Every step keeps the types and what each thread has at its place.        *)

LEMMA NoResponse == NoRes \in Response /\ ~NoRes.isSuccess /\ NoRes.failCode = "None"
  BY BoundsAssumption DEF NoRes, Response, FailCode

LEMMA InitIInv == Init => IInv
<1> SUFFICES ASSUME Init PROVE IInv
  OBVIOUS
<1>1. /\ pc \in [Threads -> Place]
      /\ req \in [Threads -> [user : Users \cup {NoUser}, good : BOOLEAN]]
      /\ friendRes \in [Threads -> SUBSET Users]
      /\ cause \in [Threads -> SUBSET Cause]
      /\ costume \in [Users -> BOOLEAN]
  BY DEF Init, Place, NoReq, Cause
<1>2. res \in [Threads -> Response]
  BY NoResponse DEF Init
<1>3. location \in [Users -> [server : Lobbies \cup {NoServer}, there : BOOLEAN, ttl : BOOLEAN]]
  BY DEF Init, Absent
<1>4. second \in 0..MaxSecond /\ requests \in 0..MaxRequests /\ restarts \in 0..MaxRestarts
  BY BoundsAssumption DEF Init
<1>5. TypeOK
  BY <1>1, <1>2, <1>3, <1>4 DEF TypeOK, Init
<1>6. ThreadsOK
  BY NoResponse DEF Init, ThreadsOK, ThreadOK, Reading, Writing, Written
<1> QED BY <1>5, <1>6 DEF IInv

LEMMA RequestOK ==
  ASSUME IInv, NEW t \in Threads, Request(t)
  PROVE  StepOK(t)
<1> USE DEF IInv, Request, Goto, redis, process
<1>1. TypeOK'
  <2>1. req' \in [Threads -> [user : Users \cup {NoUser}, good : BOOLEAN]]
    BY DEF TypeOK
  <2>2. requests' \in 0..MaxRequests
    BY BoundsAssumption DEF TypeOK
  <2> QED BY <2>1, <2>2 DEF TypeOK, Place
<1>2. PICK u \in Users, good \in BOOLEAN : req' = [req EXCEPT ![t] = [user |-> u, good |-> good]]
  OBVIOUS
<1>3. req'[t].user \in Users /\ pc'[t] = "LoginCheck"
  BY <1>2 DEF TypeOK
<1>4. OthersSame(t)
  BY <1>2 DEF TypeOK, OthersSame
<1>5. ThreadOK(t)
  BY DEF ThreadsOK
<1>6. ThreadOK(t)'
  BY <1>3, <1>5 DEF ThreadOK, Reading, Writing, Written, user
<1>7. HistoryGrows /\ Kept(t)
  BY <1>5 DEF HistoryGrows, Kept, ThreadOK
<1> QED BY <1>1, <1>4, <1>6, <1>7 DEF StepOK

\* A cause is added to those of thread t.
LEMMA BlameOK ==
  ASSUME TypeOK, NEW t \in Threads, NEW why \in Cause, Blame(t, why)
  PROVE  /\ cause' \in [Threads -> SUBSET Cause] /\ cause'[t] = cause[t] \cup {why}
         /\ \A v \in Threads \ {t} : cause'[v] = cause[v]
  BY DEF Blame, TypeOK

\* Thread t fails with a code, before or after the choice of the server.
LEMMA FailOK ==
  ASSUME IInv, NEW t \in Threads, pc[t] \in Reading \cup Writing,
         NEW code, NEW why,
         \/ code = "WrongPassword" /\ why \in Rejecting
         \/ code = "ServerError" /\ why \in Breaking,
         Fail(t, code, why), req' = req
  PROVE  /\ res' \in [Threads -> Response] /\ cause' \in [Threads -> SUBSET Cause]
         /\ pc' \in [Threads -> Place]
         /\ OthersSame(t) /\ ThreadOK(t)'
<1>1. res[t] \in Response /\ code \in FailCode /\ code # "None" /\ why \in Cause
  BY DEF IInv, TypeOK, FailCode, Cause, Rejecting, Breaking
<1> DEFINE q == Failing(res[t], code)
<1>2. q \in Response /\ ~q.isSuccess /\ q.failCode = code
  BY <1>1, Responses
<1>3. res' = [res EXCEPT ![t] = q] /\ Blame(t, why) /\ pc' = [pc EXCEPT ![t] = "answer"]
  BY DEF Fail, Failing, Goto
<1> HIDE DEF q
<1>4. res' \in [Threads -> Response] /\ res'[t] = q
      /\ \A v \in Threads \ {t} : res'[v] = res[v]
  BY <1>2, <1>3 DEF IInv, TypeOK
<1>5. /\ pc' \in [Threads -> Place] /\ pc'[t] = "answer"
      /\ \A v \in Threads \ {t} : pc'[v] = pc[v]
  BY <1>3 DEF IInv, TypeOK, Place
<1>6. /\ cause' \in [Threads -> SUBSET Cause] /\ cause'[t] = cause[t] \cup {why}
      /\ \A v \in Threads \ {t} : cause'[v] = cause[v]
  BY <1>1, <1>3, BlameOK DEF IInv
<1>7. OthersSame(t)
  BY <1>4, <1>5, <1>6 DEF OthersSame
<1>8. user(t)' \in Users /\ cause[t] \subseteq Excused
  BY DEF IInv, ThreadsOK, ThreadOK, user, Reading, Writing
<1>9. Truthful(t)'
  <2>1. res'[t].isSuccess = FALSE /\ res'[t].failCode = code
    BY <1>2, <1>4
  <2>2. /\ cause'[t] \cap Rejecting # {} <=> why \in Rejecting
        /\ cause'[t] \cap Breaking # {} <=> why \in Breaking
    BY <1>6, <1>8 DEF Excused, Rejecting, Breaking
  <2> QED BY <2>1, <2>2 DEF Truthful, Rejecting, Breaking
<1>10. ThreadOK(t)'
  BY <1>5, <1>8, <1>9 DEF ThreadOK, Reading, Writing, Written
<1> QED BY <1>4, <1>5, <1>6, <1>7, <1>10

\* Thread t goes on to the next access before the choice of the server.
LEMMA GoOn ==
  ASSUME IInv, NEW t \in Threads, pc[t] \in Reading, NEW l \in Reading,
         Goto(t, l), req' = req, res' = res, cause' = cause
  PROVE  /\ pc' \in [Threads -> Place] /\ OthersSame(t) /\ ThreadOK(t)' /\ Kept(t)
<1>1. pc' \in [Threads -> Place] /\ pc'[t] = l
  BY DEF IInv, TypeOK, Goto, Reading, Place
<1>2. OthersSame(t)
  BY DEF IInv, TypeOK, Goto, OthersSame
<1>3. ThreadOK(t)
  BY DEF IInv, ThreadsOK
<1>4. ThreadOK(t)' /\ Kept(t)
  BY <1>1, <1>3 DEF ThreadOK, Reading, Writing, Written, user, Kept
<1> QED BY <1>1, <1>2, <1>4

\* A thread that reads has no success yet.
LEMMA NothingToKeep ==
  ASSUME IInv, NEW t \in Threads, pc[t] \in Reading
  PROVE  ~res[t].isSuccess /\ Kept(t)
  BY DEF IInv, ThreadsOK, ThreadOK, Kept

LEMMA LoginCheckOK ==
  ASSUME IInv, NEW t \in Threads, LoginCheck(t)
  PROVE  StepOK(t)
<1>1. pc[t] = "LoginCheck" /\ UNCHANGED <<req, friendRes, redis, history, process>>
  BY DEF LoginCheck
<1>2. pc[t] \in Reading /\ HistoryGrows /\ Kept(t)
  BY <1>1, NothingToKeep DEF Reading, HistoryGrows, redis, history, process
<1>3. CASE Goto(t, "GetUserInfo") /\ UNCHANGED <<res, cause>>
  <2>1. pc' \in [Threads -> Place] /\ OthersSame(t) /\ ThreadOK(t)'
    BY <1>1, <1>2, <1>3, GoOn DEF Reading
  <2>2. TypeOK'
    BY <1>1, <1>3, <2>1 DEF IInv, TypeOK, redis, history, process
  <2> QED BY <1>2, <2>1, <2>2 DEF StepOK
<1>4. CASE \E why \in Rejecting : Fail(t, "WrongPassword", why)
  <2>1. /\ res' \in [Threads -> Response] /\ cause' \in [Threads -> SUBSET Cause]
        /\ pc' \in [Threads -> Place] /\ OthersSame(t) /\ ThreadOK(t)'
    BY <1>1, <1>2, <1>4, FailOK
  <2>2. TypeOK'
    BY <1>1, <2>1 DEF IInv, TypeOK, redis, history, process
  <2> QED BY <1>2, <2>1, <2>2 DEF StepOK
<1> QED BY <1>3, <1>4 DEF LoginCheck, Rejecting

LEMMA QueryOK ==
  ASSUME IInv, NEW t \in Threads, NEW this \in Reading, NEW next \in Reading,
         Query(t, this, next)
  PROVE  StepOK(t)
<1>1. pc[t] \in Reading /\ pc[t] # "idle" /\ UNCHANGED <<req, friendRes, redis, history, process>>
  BY DEF Query, Reading
<1>2. HistoryGrows /\ Kept(t)
  BY <1>1, NothingToKeep DEF HistoryGrows, redis, history, process
<1>3. CASE Goto(t, next) /\ UNCHANGED <<res, cause>>
  <2>1. pc' \in [Threads -> Place] /\ OthersSame(t) /\ ThreadOK(t)'
    BY <1>1, <1>3, GoOn
  <2>2. TypeOK'
    BY <1>1, <1>3, <2>1 DEF IInv, TypeOK, redis, history, process
  <2> QED BY <1>2, <2>1, <2>2 DEF StepOK
<1>4. CASE Fail(t, "ServerError", "db")
  <2>1. /\ res' \in [Threads -> Response] /\ cause' \in [Threads -> SUBSET Cause]
        /\ pc' \in [Threads -> Place] /\ OthersSame(t) /\ ThreadOK(t)'
    BY <1>1, <1>4, FailOK DEF Breaking
  <2>2. TypeOK'
    BY <1>1, <2>1 DEF IInv, TypeOK, redis, history, process
  <2> QED BY <1>2, <2>1, <2>2 DEF StepOK
<1> QED BY <1>3, <1>4 DEF Query

LEMMA BuildFriendListOK ==
  ASSUME IInv, NEW t \in Threads, BuildFriendList(t)
  PROVE  StepOK(t)
<1>1. /\ pc[t] \in Reading /\ Goto(t, "SelectServer")
      /\ UNCHANGED <<req, res, cause, redis, history, process>>
  BY DEF BuildFriendList, Reading
<1>2. pc' \in [Threads -> Place] /\ OthersSame(t) /\ ThreadOK(t)' /\ Kept(t)
  BY <1>1, GoOn DEF Reading
<1>3. user(t) \in Users
  BY <1>1 DEF IInv, ThreadsOK, ThreadOK, Reading
<1>4. Friends[user(t)] \cup Requested[user(t)] \subseteq Users
  BY <1>3, UsersAssumption
<1> DEFINE online == {f \in Friends[user(t)] \cup Requested[user(t)] : location[f].there}
<1>5. friendRes' \in [Threads -> SUBSET Users]
  <2>1. PICK seen \in SUBSET online : friendRes' = [friendRes EXCEPT ![t] = seen]
    BY DEF BuildFriendList
  <2>2. seen \subseteq Users
    BY <1>4
  <2> QED BY <2>1, <2>2 DEF IInv, TypeOK
<1>6. TypeOK'
  BY <1>1, <1>2, <1>5 DEF IInv, TypeOK, redis, history, process
<1>7. HistoryGrows
  BY <1>1 DEF HistoryGrows, redis, history, process
<1> QED BY <1>2, <1>6, <1>7 DEF StepOK

LEMMA SelectServerOK ==
  ASSUME IInv, NEW t \in Threads, SelectServer(t)
  PROVE  StepOK(t)
<1>1. /\ pc[t] = "SelectServer" /\ pc' = [pc EXCEPT ![t] = "SetUserCostume"]
      /\ UNCHANGED <<req, friendRes, redis, history, process>>
      /\ Blame(t, "noLobby") \/ cause' = cause
  BY DEF SelectServer, Goto
<1>2. PICK l \in Servers : res' = [res EXCEPT ![t].isSuccess = TRUE, ![t].server = l]
  BY DEF SelectServer, Servers, LeastLoaded, Available
<1>3. res[t] \in Response /\ ThreadOK(t)
  BY DEF IInv, TypeOK, ThreadsOK
<1> DEFINE q == Placed(res[t], l)
<1>4. q \in Response /\ q.isSuccess /\ q.failCode = res[t].failCode
  BY <1>3, Responses
<1>5. res' = [res EXCEPT ![t] = q]
  BY <1>2 DEF Placed
<1> HIDE DEF q
<1>6. res' \in [Threads -> Response] /\ res'[t] = q
      /\ \A v \in Threads \ {t} : res'[v] = res[v]
  BY <1>4, <1>5 DEF IInv, TypeOK
<1>7. /\ pc' \in [Threads -> Place] /\ pc'[t] = "SetUserCostume"
      /\ cause' \in [Threads -> SUBSET Cause] /\ cause'[t] \subseteq Excused
      /\ \A v \in Threads \ {t} : cause'[v] = cause[v]
  <2>1. pc' \in [Threads -> Place] /\ pc'[t] = "SetUserCostume"
    BY <1>1 DEF IInv, TypeOK, Place
  <2>2. cause[t] = {} /\ cause \in [Threads -> SUBSET Cause]
    BY <1>1, <1>3 DEF IInv, TypeOK, ThreadOK, Reading
  <2>3. CASE Blame(t, "noLobby")
    BY <2>1, <2>2, <2>3, BlameOK DEF IInv, Cause, Excused
  <2>4. CASE cause' = cause
    BY <2>1, <2>2, <2>4
  <2> QED BY <1>1, <2>3, <2>4
<1>8. TypeOK'
  BY <1>1, <1>6, <1>7 DEF IInv, TypeOK, redis, history, process
<1>9. OthersSame(t)
  BY <1>1, <1>6, <1>7 DEF IInv, TypeOK, OthersSame
<1>10. ThreadOK(t)'
  BY <1>1, <1>3, <1>4, <1>6, <1>7 DEF ThreadOK, Reading, Writing, Written, user
<1>11. HistoryGrows /\ Kept(t)
  BY <1>1, <1>3 DEF HistoryGrows, Kept, ThreadOK, Reading, redis, history, process
<1> QED BY <1>8, <1>9, <1>10, <1>11 DEF StepOK

\* Thread t goes on to the next write, whether or not the last one threw.
LEMMA WriteOn ==
  ASSUME IInv, NEW t \in Threads, pc[t] \in Writing, NEW l \in Written,
         Goto(t, l), req' = req, res' = res,
         cause' = cause \/ Blame(t, "costume") \/ Blame(t, "location"),
         Dressed(t)'
  PROVE  /\ pc' \in [Threads -> Place] /\ cause' \in [Threads -> SUBSET Cause]
         /\ OthersSame(t) /\ ThreadOK(t)' /\ Kept(t)
         /\ user(t) \in Users /\ res[t] \in Response
<1>1. /\ pc' \in [Threads -> Place] /\ pc'[t] = l
      /\ \A v \in Threads \ {t} : pc'[v] = pc[v]
  BY DEF IInv, TypeOK, Goto, Written, Place
<1>2. ThreadOK(t) /\ res[t] \in Response
  BY DEF IInv, TypeOK, ThreadsOK
<1>3. /\ cause' \in [Threads -> SUBSET Cause] /\ cause'[t] \subseteq Excused
      /\ \A v \in Threads \ {t} : cause'[v] = cause[v]
  <2>1. cause[t] \subseteq Excused /\ cause \in [Threads -> SUBSET Cause]
    BY <1>2 DEF IInv, TypeOK, ThreadOK
  <2>2. ASSUME NEW why \in {"costume", "location"}, Blame(t, why)
        PROVE  /\ cause' \in [Threads -> SUBSET Cause] /\ cause'[t] \subseteq Excused
               /\ \A v \in Threads \ {t} : cause'[v] = cause[v]
    BY <2>1, <2>2, BlameOK DEF IInv, Cause, Excused
  <2> QED BY <2>1, <2>2
<1>4. OthersSame(t)
  BY <1>1, <1>3 DEF OthersSame
<1>5. ThreadOK(t)' /\ user(t) \in Users
  BY <1>1, <1>2, <1>3 DEF ThreadOK, Reading, Writing, Written, user
<1>6. Kept(t)
  BY DEF Kept
<1> QED BY <1>1, <1>2, <1>3, <1>4, <1>5, <1>6

\* A write after the costume's.
LEMMA StillDressed ==
  ASSUME IInv, NEW t \in Threads, pc[t] \in Written, req' = req, costume' = costume,
         cause' = cause \/ Blame(t, "location")
  PROVE  Dressed(t)'
<1>1. Dressed(t) /\ cause[t] \subseteq cause'[t]
  BY DEF IInv, TypeOK, ThreadsOK, ThreadOK, Blame
<1> QED BY <1>1 DEF Dressed, user

LEMMA SetUserCostumeOK ==
  ASSUME IInv, NEW t \in Threads, SetUserCostume(t)
  PROVE  StepOK(t)
<1>1. /\ pc[t] \in Writing /\ Goto(t, "SetUserLocation")
      /\ UNCHANGED <<req, res, friendRes, location, tokens, issued, history, process>>
      /\ \/ cause' = cause /\ costume' = [costume EXCEPT ![user(t)] = TRUE]
         \/ /\ Blame(t, "costume")
            /\ costume' = [costume EXCEPT ![user(t)] = TRUE] \/ costume' = costume
  BY DEF SetUserCostume, Writing
<1>2. user(t) \in Users
  BY <1>1 DEF IInv, ThreadsOK, ThreadOK, Writing
<1>3. costume' \in [Users -> BOOLEAN] /\ \A u \in Users : costume[u] => costume'[u]
  BY <1>1, <1>2 DEF IInv, TypeOK
<1>4. Dressed(t)'
  <2>1. CASE costume' = [costume EXCEPT ![user(t)] = TRUE]
    BY <1>1, <1>2, <2>1 DEF IInv, TypeOK, Dressed, user
  <2>2. CASE Blame(t, "costume")
    BY <2>2 DEF IInv, TypeOK, Blame, Dressed
  <2> QED BY <1>1, <2>1, <2>2
<1>5. /\ pc' \in [Threads -> Place] /\ cause' \in [Threads -> SUBSET Cause]
      /\ OthersSame(t) /\ ThreadOK(t)' /\ Kept(t)
  BY <1>1, <1>4, WriteOn DEF Written
<1>6. TypeOK'
  BY <1>1, <1>3, <1>5 DEF IInv, TypeOK, history, process
<1>7. HistoryGrows
  BY <1>1, <1>3 DEF HistoryGrows, history, process
<1> QED BY <1>5, <1>6, <1>7 DEF StepOK

\* What Redis holds of one user's location, in its three fields.
Location == [server : Lobbies \cup {NoServer}, there : BOOLEAN, ttl : BOOLEAN]

LEMMA Locations ==
  ASSUME NEW r \in Location
  PROVE  /\ r.server \in Servers /\ r.there \in BOOLEAN /\ r.ttl \in BOOLEAN
         /\ \A l \in Servers : [server |-> l, there |-> TRUE, ttl |-> r.ttl] \in Location
         /\ \A b \in BOOLEAN :
              LET q == [r EXCEPT !.ttl = b] IN
              q \in Location /\ q.server = r.server /\ q.there = r.there /\ q.ttl = b
<1>1. r.server \in Servers /\ r.there \in BOOLEAN /\ r.ttl \in BOOLEAN
  BY DEF Location, Servers
<1>2. ASSUME NEW l \in Servers
      PROVE  [server |-> l, there |-> TRUE, ttl |-> r.ttl] \in Location
  BY <1>1 DEF Location, Servers
<1>3. ASSUME NEW b \in BOOLEAN, NEW q, q = [r EXCEPT !.ttl = b]
      PROVE  q \in Location /\ q.server = r.server /\ q.there = r.there /\ q.ttl = b
  BY <1>3 DEF Location
<1> QED BY <1>1, <1>2, <1>3, Zenon

LEMMA SetUserLocationOK ==
  ASSUME IInv, NEW t \in Threads, SetUserLocation(t)
  PROVE  StepOK(t)
<1>1. /\ pc[t] \in Writing /\ pc[t] \in Written
      /\ Goto(t, "ExpireLocation") \/ Goto(t, "SetUserToken")
      /\ cause' = cause \/ Blame(t, "location")
      /\ unexpired' = unexpired \/ unexpired' = unexpired \cup {user(t)}
      /\ UNCHANGED <<req, res, friendRes, costume, tokens, issued, history, cutOff, terminated,
                     restarts>>
  BY DEF SetUserLocation, Writing, Written
<1>2. /\ pc' \in [Threads -> Place] /\ cause' \in [Threads -> SUBSET Cause]
      /\ OthersSame(t) /\ ThreadOK(t)' /\ Kept(t)
      /\ user(t) \in Users /\ res[t] \in Response
  BY <1>1, StillDressed, WriteOn DEF Written
<1>3. res[t].server \in Servers
  BY <1>2, Responses
<1>4. location \in [Users -> Location]
  BY DEF IInv, TypeOK, Location
<1>5. location' \in [Users -> Location]
  <2> DEFINE q == [server |-> res[t].server, there |-> TRUE, ttl |-> location[user(t)].ttl]
  <2>1. q \in Location
    BY <1>2, <1>3, <1>4, Locations
  <2>2. location' = location \/ location' = [location EXCEPT ![user(t)] = q]
    BY DEF SetUserLocation
  <2> HIDE DEF q
  <2> QED BY <1>2, <1>4, <2>1, <2>2
<1>6. unexpired' \subseteq Users
  BY <1>1, <1>2 DEF IInv, TypeOK
<1>7. TypeOK'
  BY <1>1, <1>2, <1>5, <1>6 DEF IInv, TypeOK, Location, history
<1>8. HistoryGrows
  BY <1>1 DEF HistoryGrows, history
<1> QED BY <1>2, <1>7, <1>8 DEF StepOK

LEMMA ExpireLocationOK ==
  ASSUME IInv, NEW t \in Threads, ExpireLocation(t)
  PROVE  StepOK(t)
<1>1. /\ pc[t] \in Writing /\ pc[t] \in Written /\ Goto(t, "SetUserToken")
      /\ cause' = cause \/ Blame(t, "location")
      /\ UNCHANGED <<req, res, friendRes, costume, tokens, issued, history, cutOff, terminated,
                     restarts>>
  BY DEF ExpireLocation, Writing, Written
<1>2. /\ pc' \in [Threads -> Place] /\ cause' \in [Threads -> SUBSET Cause]
      /\ OthersSame(t) /\ ThreadOK(t)' /\ Kept(t) /\ user(t) \in Users
  BY <1>1, StillDressed, WriteOn DEF Written
<1>3. location \in [Users -> Location]
  BY DEF IInv, TypeOK, Location
<1>4. location' \in [Users -> Location]
  <2> DEFINE r == location[user(t)]
             q == [r EXCEPT !.ttl = r.ttl \/ r.there]
  <2>2. r \in Location
    BY <1>2, <1>3
  <2>3. (r.ttl \/ r.there) \in BOOLEAN
    OBVIOUS
  <2>4. q \in Location
    BY <2>2, <2>3, Locations, Zenon
  <2>5. location' = location \/ location' = [location EXCEPT ![user(t)] = q]
    BY DEF ExpireLocation
  <2> HIDE DEF q
  <2> QED BY <1>2, <1>3, <2>4, <2>5
<1>5. unexpired' \subseteq Users
  BY <1>2 DEF ExpireLocation, IInv, TypeOK
<1>6. TypeOK'
  BY <1>1, <1>2, <1>4, <1>5 DEF IInv, TypeOK, Location, history
<1>7. HistoryGrows
  BY <1>1 DEF HistoryGrows, history
<1> QED BY <1>2, <1>6, <1>7 DEF StepOK

\* The token was not stored, or not known to be: the login fails.
LEMMA TokenNotStoredOK ==
  ASSUME IInv, NEW t \in Threads, pc[t] = "SetUserToken", TokenNotStored(t), req' = req
  PROVE  /\ res' \in [Threads -> Response] /\ cause' \in [Threads -> SUBSET Cause]
         /\ pc' \in [Threads -> Place]
         /\ OthersSame(t) /\ ThreadOK(t)' /\ Kept(t)
         /\ cutOff \subseteq cutOff' /\ cutOff' \subseteq Users \X (Lobbies \cup {NoServer})
<1>1. Fail(t, "ServerError", "token") /\ cutOff' = cutOff \cup {<<user(t), res[t].server>>}
  BY DEF TokenNotStored
<1>2. /\ res' \in [Threads -> Response] /\ cause' \in [Threads -> SUBSET Cause]
      /\ pc' \in [Threads -> Place]
      /\ OthersSame(t) /\ ThreadOK(t)'
  BY <1>1, FailOK DEF Breaking, Writing
<1>3. user(t) \in Users /\ res[t] \in Response
  BY DEF IInv, TypeOK, ThreadsOK, ThreadOK
<1>4. res[t].server \in Servers
  BY <1>3, Responses
<1>5. cutOff \subseteq cutOff' /\ cutOff' \subseteq Users \X (Lobbies \cup {NoServer})
  BY <1>1, <1>3, <1>4 DEF IInv, TypeOK, Servers
<1>6. Kept(t)
  BY <1>1 DEF Kept
<1> QED BY <1>2, <1>5, <1>6

LEMMA SetUserTokenOK ==
  ASSUME IInv, NEW t \in Threads, SetUserToken(t)
  PROVE  StepOK(t)
<1>1. /\ pc[t] = "SetUserToken" /\ pc[t] \in Writing
      /\ UNCHANGED <<req, friendRes, location, costume, history, unexpired, terminated,
                     restarts>>
  BY DEF SetUserToken, Writing
<1>2. user(t) \in Users /\ res[t] \in Response /\ ThreadOK(t) /\ second \in 0..MaxSecond
  BY <1>1 DEF IInv, TypeOK, ThreadsOK, ThreadOK
<1>3. /\ tokens' \in [Users -> SUBSET (0..MaxSecond)]
      /\ issued \subseteq issued' /\ issued' \subseteq Users \X (0..MaxSecond)
  <2>1. CASE UNCHANGED <<tokens, issued>>
    BY <2>1 DEF IInv, TypeOK
  <2>2. CASE /\ tokens' = [tokens EXCEPT ![user(t)] = @ \cup {second}]
             /\ issued' = issued \cup {<<user(t), second>>}
    BY <1>2, <2>2 DEF IInv, TypeOK
  <2> QED BY <2>1, <2>2 DEF SetUserToken
<1>4. CASE TokenNotStored(t)
  <2>1. /\ res' \in [Threads -> Response] /\ cause' \in [Threads -> SUBSET Cause]
        /\ pc' \in [Threads -> Place]
        /\ OthersSame(t) /\ ThreadOK(t)' /\ Kept(t)
        /\ cutOff \subseteq cutOff' /\ cutOff' \subseteq Users \X (Lobbies \cup {NoServer})
    BY <1>1, <1>4, TokenNotStoredOK
  <2>2. TypeOK'
    BY <1>1, <1>3, <2>1 DEF IInv, TypeOK, history
  <2>3. HistoryGrows
    BY <1>1, <1>3, <2>1 DEF HistoryGrows, history
  <2> QED BY <2>1, <2>2, <2>3 DEF StepOK
<1>5. CASE /\ res' = [res EXCEPT ![t].token = second]
           /\ Goto(t, "answer")
           /\ UNCHANGED <<cause, cutOff>>
           /\ issued' = issued \cup {<<user(t), second>>}
  <2> DEFINE q == WithToken(res[t], second)
  <2>1. /\ q \in Response /\ q.isSuccess = res[t].isSuccess /\ q.failCode = res[t].failCode
        /\ q.server = res[t].server /\ q.token = second
    BY <1>2, Responses
  <2>2. res' = [res EXCEPT ![t] = q]
    BY <1>5 DEF WithToken
  <2> HIDE DEF q
  <2>3. res' \in [Threads -> Response] /\ res'[t] = q
        /\ \A v \in Threads \ {t} : res'[v] = res[v]
    BY <2>1, <2>2 DEF IInv, TypeOK
  <2>4. pc' \in [Threads -> Place] /\ pc'[t] = "answer"
    BY <1>5 DEF IInv, TypeOK, Goto, Place
  <2>5. OthersSame(t)
    BY <1>1, <1>5, <2>3 DEF IInv, TypeOK, Goto, OthersSame
  <2>6. ThreadOK(t)'
    <3>1. user(t)' = user(t) /\ user(t)' \in Users /\ cause'[t] = cause[t]
      BY <1>1, <1>2, <1>5 DEF user
    <3>2. /\ res[t].isSuccess /\ res[t].failCode = "None" /\ cause[t] \subseteq Excused
           /\ Dressed(t)
      BY <1>1, <1>2 DEF ThreadOK, Written
    <3>3. cause'[t] \cap Rejecting = {} /\ cause'[t] \cap Breaking = {} /\ Dressed(t)'
      BY <1>1, <3>1, <3>2 DEF Excused, Rejecting, Breaking, Dressed
    <3>4. Truthful(t)'
      BY <1>5, <2>1, <2>3, <3>1, <3>2, <3>3 DEF Truthful
    <3> QED BY <2>4, <3>1, <3>4 DEF ThreadOK, Reading, Writing, Written
  <2>7. Kept(t)
    BY <1>1, <2>1, <2>3 DEF Kept
  <2>8. TypeOK'
    BY <1>1, <1>3, <1>5, <2>3, <2>4 DEF IInv, TypeOK, history
  <2>9. HistoryGrows
    BY <1>1, <1>3, <1>5 DEF HistoryGrows, history
  <2> QED BY <2>5, <2>6, <2>7, <2>8, <2>9 DEF StepOK
<1> QED BY <1>4, <1>5 DEF SetUserToken

LEMMA AnswerOK ==
  ASSUME IInv, NEW t \in Threads, Answer(t)
  PROVE  StepOK(t)
<1> DEFINE a == [user |-> user(t), res |-> res[t], cause |-> cause[t]]
<1>1. /\ pc[t] = "answer" /\ pc' = [pc EXCEPT ![t] = "idle"]
      /\ answers' = answers \cup {a}
      /\ req' = [req EXCEPT ![t] = NoReq]
      /\ res' = [res EXCEPT ![t] = NoRes]
      /\ friendRes' = [friendRes EXCEPT ![t] = {}]
      /\ cause' = [cause EXCEPT ![t] = {}]
      /\ UNCHANGED <<redis, requests, second, process>>
  BY DEF Answer, Goto
<1>2. user(t) \in Users /\ res[t] \in Response /\ cause[t] \in SUBSET Cause
  BY <1>1 DEF IInv, TypeOK, ThreadsOK, ThreadOK
<1>3. a \in [user : Users, res : Response, cause : SUBSET Cause]
  BY <1>2, Zenon
<1>4. a.user = user(t) /\ a.res = res[t]
  OBVIOUS
<1> HIDE DEF a
<1>5. answers' \subseteq [user : Users, res : Response, cause : SUBSET Cause]
  BY <1>1, <1>3 DEF IInv, TypeOK
<1>6. /\ pc' \in [Threads -> Place] /\ cause' \in [Threads -> SUBSET Cause]
      /\ friendRes' \in [Threads -> SUBSET Users]
      /\ res' \in [Threads -> Response]
  BY <1>1, NoResponse DEF IInv, TypeOK, Place, Cause
<1>7. req' \in [Threads -> [user : Users \cup {NoUser}, good : BOOLEAN]]
  BY <1>1 DEF IInv, TypeOK, NoReq
<1>8. TypeOK'
  BY <1>1, <1>5, <1>6, <1>7 DEF IInv, TypeOK, redis, process
<1>9. OthersSame(t)
  BY <1>1 DEF IInv, TypeOK, OthersSame
<1>10. ThreadOK(t)'
  BY <1>1, NoResponse DEF IInv, TypeOK, ThreadOK, Writing, Written
<1>11. HistoryGrows /\ Kept(t)
  BY <1>1, <1>4 DEF HistoryGrows, Kept, redis, process
<1> QED BY <1>8, <1>9, <1>10, <1>11 DEF StepOK

\* What a step makes of the threads and of what was said and stored: its effect.
Effect == IInv' /\ HistoryGrows /\ \A t \in Threads : Kept(t)

LEMMA OneThread ==
  ASSUME IInv, NEW t \in Threads, StepOK(t)
  PROVE  Effect
<1>1. TypeOK' /\ ThreadOK(t)' /\ HistoryGrows /\ Kept(t)
  BY DEF StepOK
<1>2. ASSUME NEW v \in Threads \ {t}
      PROVE  ThreadOK(v)' /\ Kept(v)
  <2>1. pc'[v] = pc[v] /\ req'[v] = req[v] /\ res'[v] = res[v] /\ cause'[v] = cause[v]
    BY DEF StepOK, OthersSame
  <2>2. ThreadOK(v) /\ issued \subseteq issued'
    BY <1>1 DEF IInv, ThreadsOK, HistoryGrows
  <2>3. user(v) \in Users => (Dressed(v) => Dressed(v)')
    BY <1>1, <2>1 DEF HistoryGrows, Dressed, user
  <2>4. user(v) \in Users => (Truthful(v) => Truthful(v)')
    BY <2>1, <2>2, <2>3 DEF Truthful, user
  <2>5. ThreadOK(v)'
    <3>1. pc[v] # "idle" => user(v) \in Users
      BY <2>2 DEF ThreadOK
    <3> QED BY <2>1, <2>2, <2>3, <2>4, <3>1 DEF ThreadOK, Written, user
  <2>6. Kept(v)
    BY <2>1 DEF Kept
  <2> QED BY <2>5, <2>6
<1>3. ThreadsOK' /\ \A v \in Threads : Kept(v)
  BY <1>1, <1>2 DEF ThreadsOK
<1> QED BY <1>1, <1>3 DEF Effect, IInv

\* A step that touches no thread, no answer and no record of a login.
LEMMA NoThread ==
  ASSUME IInv, TypeOK', UNCHANGED <<pc, req, res, cause, costume, issued, answers, cutOff>>
  PROVE  Effect
<1>1. HistoryGrows /\ \A t \in Threads : Kept(t)
  BY DEF HistoryGrows, Kept
<1>2. ThreadsOK'
  BY DEF IInv, ThreadsOK, ThreadOK, Truthful, Dressed, user
<1> QED BY <1>1, <1>2 DEF Effect, IInv

LEMMA EnvironmentOK ==
  ASSUME IInv, Environment
  PROVE  Effect
<1>2. CASE LocationTimesOut
  <2>1. Absent \in Location
    BY DEF Absent, Location
  <2>2. location \in [Users -> Location]
    BY DEF IInv, TypeOK, Location
  <2>3. location' \in [Users -> Location]
    BY <1>2, <2>1, <2>2 DEF LocationTimesOut
  <2>4. TypeOK'
    BY <1>2, <2>3 DEF LocationTimesOut, IInv, TypeOK, Location, history, process
  <2> QED BY <1>2, <2>4, NoThread DEF LocationTimesOut, history, process
<1>3. CASE TokenUsed
  <2>1. tokens' \in [Users -> SUBSET (0..MaxSecond)]
    BY <1>3 DEF TokenUsed, IInv, TypeOK
  <2> QED BY <1>3, <2>1, NoThread DEF TokenUsed, IInv, TypeOK, history, process
<1>4. CASE Tick
  <2>1. second' \in 0..MaxSecond
    BY <1>4, BoundsAssumption DEF Tick, IInv, TypeOK
  <2> QED BY <1>4, <2>1, NoThread DEF Tick, IInv, TypeOK, redis, process
<1> QED BY <1>2, <1>3, <1>4 DEF Environment

\* The successes of all threads are cut off.
LEMMA ProcessEndsOK ==
  ASSUME IInv, ProcessEnds
  PROVE  Effect
<1>1. /\ cutOff' = cutOff \cup {<<user(t), res[t].server>> :
                                  t \in {v \in Threads : res[v].isSuccess}}
      /\ unexpired' = unexpired \cup {user(t) : t \in {v \in Threads : pc[v] = "ExpireLocation"}}
      /\ pc' = [t \in Threads |-> "idle"]
      /\ req' = [t \in Threads |-> NoReq]
      /\ res' = [t \in Threads |-> NoRes]
      /\ friendRes' = [t \in Threads |-> {}]
      /\ cause' = [t \in Threads |-> {}]
      /\ UNCHANGED <<redis, history, restarts>> /\ terminated' = TRUE
  BY DEF ProcessEnds
<1>2. ASSUME NEW t \in Threads, res[t].isSuccess \/ pc[t] = "ExpireLocation"
      PROVE  user(t) \in Users /\ res[t].server \in Servers
  <2>1. ThreadOK(t) /\ pc[t] \in Place /\ res[t] \in Response
    BY DEF IInv, TypeOK, ThreadsOK
  <2>2. pc[t] # "idle"
    BY <1>2, <2>1 DEF ThreadOK
  <2> QED BY <2>1, <2>2, Responses DEF ThreadOK
<1>3. cutOff' \subseteq Users \X Servers /\ unexpired' \subseteq Users
  BY <1>1, <1>2 DEF IInv, TypeOK, Servers
<1>4. /\ pc' \in [Threads -> Place] /\ cause' \in [Threads -> SUBSET Cause]
      /\ friendRes' \in [Threads -> SUBSET Users]
      /\ res' \in [Threads -> Response]
  BY <1>1, NoResponse DEF Place, Cause
<1>5. req' \in [Threads -> [user : Users \cup {NoUser}, good : BOOLEAN]]
  BY <1>1 DEF NoReq
<1>6. TypeOK'
  BY <1>1, <1>3, <1>4, <1>5 DEF IInv, TypeOK, Servers, redis, history
<1>7. ThreadsOK'
  BY <1>1, NoResponse DEF ThreadsOK, ThreadOK, Writing, Written
<1>8. HistoryGrows /\ \A t \in Threads : Kept(t)
  BY <1>1 DEF HistoryGrows, Kept, redis, history
<1> QED BY <1>6, <1>7, <1>8 DEF Effect, IInv

LEMMA StepOKs ==
  ASSUME IInv, NEW t \in Threads, (~terminated /\ Request(t)) \/ Process(t)
  PROVE  StepOK(t)
<1>1. CASE Request(t)
  BY <1>1, RequestOK
<1>2. CASE LoginCheck(t)
  BY <1>2, LoginCheckOK
<1>3. CASE \/ GetUserInfo(t) \/ GetUserCurrency(t) \/ GetUserCostume(t)
           \/ GetUserInventory(t) \/ GetUserFriendsDB(t)
  BY <1>3, QueryOK DEF Reading, GetUserInfo, GetUserCurrency, GetUserCostume, GetUserInventory,
                       GetUserFriendsDB
<1>4. CASE BuildFriendList(t)
  BY <1>4, BuildFriendListOK
<1>5. CASE SelectServer(t)
  BY <1>5, SelectServerOK
<1>6. CASE SetUserCostume(t)
  BY <1>6, SetUserCostumeOK
<1>7. CASE SetUserLocation(t)
  BY <1>7, SetUserLocationOK
<1>8. CASE ExpireLocation(t)
  BY <1>8, ExpireLocationOK
<1>9. CASE SetUserToken(t)
  BY <1>9, SetUserTokenOK
<1>10. CASE Answer(t)
  BY <1>10, AnswerOK
<1> QED BY <1>1, <1>2, <1>3, <1>4, <1>5, <1>6, <1>7, <1>8, <1>9, <1>10 DEF Process

LEMMA StepEffect ==
  ASSUME IInv, [Next]_vars
  PROVE  Effect
<1>1. CASE \E t \in Threads : (~terminated /\ Request(t)) \/ Process(t)
  BY <1>1, StepOKs, OneThread
<1>2. CASE ProcessEnds
  BY <1>2, ProcessEndsOK
<1>3. CASE Restart
  <2>1. restarts' \in 0..MaxRestarts
    BY <1>3, BoundsAssumption DEF Restart, IInv, TypeOK
  <2>2. TypeOK'
    BY <1>3, <2>1 DEF Restart, IInv, TypeOK, redis, history
  <2> QED BY <1>3, <2>2, NoThread DEF Restart, redis, history
<1>4. CASE Environment
  BY <1>4, EnvironmentOK
<1>5. CASE UNCHANGED vars
  <2>1. TypeOK'
    BY <1>5 DEF vars, IInv, TypeOK
  <2> QED BY <1>5, <2>1, NoThread DEF vars
<1> QED BY <1>1, <1>2, <1>3, <1>4, <1>5 DEF Next

LEMMA Invariance == Spec => []IInv
<1>1. IInv /\ [Next]_vars => IInv'
  BY StepEffect DEF Effect
<1> QED BY <1>1, InitIInv, PTL DEF Spec

\* Types: no thread handles a request of no user, and no answer or record in
\* Redis belongs to one (ProcessLogin, RedisManager).
THEOREM TypeCorrect == Spec => []TypeOK
<1>1. IInv => TypeOK
  BY DEF IInv
<1> QED BY <1>1, Invariance, PTL

-----------------------------------------------------------------------------
(* Answers.                                                                 *)

LEMMA OnlyAnswer ==
  ASSUME [Next]_vars
  PROVE  answers' = answers \/ \E t \in Threads : Answer(t)
<1> USE DEF redis, history, process
<1>1. CASE \E t \in Threads : Request(t)
  BY <1>1 DEF Request
<1>2. ASSUME NEW t \in Threads, Process(t)
      PROVE  answers' = answers \/ Answer(t)
  BY <1>2 DEF Process, LoginCheck, GetUserInfo, GetUserCurrency, GetUserCostume,
              GetUserInventory, GetUserFriendsDB, Query, BuildFriendList, SelectServer,
              SetUserCostume, SetUserLocation, ExpireLocation, SetUserToken
<1>3. CASE ProcessEnds \/ Restart \/ Environment \/ UNCHANGED vars
  BY <1>3 DEF ProcessEnds, Restart, Environment, LocationTimesOut, TokenUsed, Tick,
              vars
<1> QED BY <1>1, <1>2, <1>3 DEF Next

AnswersOK == CodeOfCause /\ SuccessMeansStored

\* What CodeOfCause says of one answer.
CodeOK(a) ==
  /\ a.res.isSuccess <=> a.res.failCode = "None"
  /\ a.res.failCode = "WrongPassword" <=> a.cause \cap {"credentials", "check"} # {}
  /\ a.res.failCode = "ServerError" <=> a.cause \cap {"db", "token"} # {}
  /\ a.res.failCode # "NoServer"
  /\ a.res.isSuccess /\ "costume" \notin a.cause => costume[a.user]

LEMMA StepAnswers ==
  ASSUME IInv, AnswersOK, [Next]_vars
  PROVE  AnswersOK'
<1>1. issued \subseteq issued'
  BY StepEffect DEF Effect, HistoryGrows
<1>2. ASSUME NEW b \in answers', b \notin answers
      PROVE  /\ CodeOK(b)'
             /\ b.res.isSuccess => <<b.user, b.res.token>> \in issued
  <2>1. PICK t \in Threads : Answer(t)
    BY <1>2, OnlyAnswer
  <2>2. b = [user |-> user(t), res |-> res[t], cause |-> cause[t]]
    BY <1>2, <2>1 DEF Answer
  <2>3. b.user = user(t) /\ b.res = res[t] /\ b.cause = cause[t]
    BY <2>2
  <2>4. Truthful(t)
    BY <2>1 DEF Answer, IInv, ThreadsOK, ThreadOK
  <2>5. costume' = costume
    BY <2>1 DEF Answer, redis
  <2> QED BY <2>3, <2>4, <2>5 DEF Truthful, Dressed, CodeOK, Rejecting, Breaking
<1>3. CodeOfCause'
  <2>1. ASSUME NEW b \in answers PROVE CodeOK(b)'
    <3>1. CodeOK(b) /\ b.user \in Users
      BY DEF AnswersOK, CodeOfCause, CodeOK, IInv, TypeOK
    <3>2. costume[b.user] => costume'[b.user]
      BY <3>1, StepEffect DEF Effect, HistoryGrows
    <3> QED BY <3>1, <3>2 DEF CodeOK
  <2> QED BY <1>2, <2>1 DEF CodeOfCause, CodeOK
<1>4. SuccessMeansStored'
  BY <1>1, <1>2 DEF AnswersOK, SuccessMeansStored
<1> QED BY <1>3, <1>4 DEF AnswersOK

LEMMA AnswersInvariance == Spec => []AnswersOK
<1>1. Init => AnswersOK
  BY DEF Init, AnswersOK, CodeOfCause, SuccessMeansStored
<1> QED BY <1>1, StepAnswers, Invariance, PTL DEF Spec

\* Which of what went wrong an answer tells, and which it does not: a failed check
\* of the password is told as a wrong one, and no lobby server, an unwritten
\* costume or location as success (ProcessLogin, ProcessConnect).
THEOREM AnswersTellCause == Spec => []CodeOfCause
<1>1. AnswersOK => CodeOfCause
  BY DEF AnswersOK
<1> QED BY <1>1, AnswersInvariance, PTL

\* The token of every successful answer was stored for that very user before
\* the answer (SetUserToken).
THEOREM SuccessesAreStored == Spec => []SuccessMeansStored
<1>1. AnswersOK => SuccessMeansStored
  BY DEF AnswersOK
<1> QED BY <1>1, AnswersInvariance, PTL

-----------------------------------------------------------------------------
(* Locations.                                                               *)

\* A login of user u was given server s.
Given(u, s) ==
  \/ \E a \in answers : a.user = u /\ a.res.isSuccess /\ a.res.server = s
  \/ \E t \in Threads : user(t) = u /\ res[t].isSuccess /\ res[t].server = s
  \/ <<u, s>> \in cutOff

LEMMA GivenStays ==
  ASSUME IInv, [Next]_vars, NEW u, NEW s, Given(u, s)
  PROVE  Given(u, s)'
<1>1. HistoryGrows /\ \A t \in Threads : Kept(t)
  BY StepEffect DEF Effect
<1>2. CASE \E t \in Threads : user(t) = u /\ res[t].isSuccess /\ res[t].server = s
  BY <1>1, <1>2 DEF Kept, Given, user
<1>3. CASE \/ <<u, s>> \in cutOff
           \/ \E a \in answers : a.user = u /\ a.res.isSuccess /\ a.res.server = s
  BY <1>1, <1>3 DEF HistoryGrows, Given
<1> QED BY <1>2, <1>3 DEF Given

\* What a step may make of the location of a user: nothing; that of a success at
\* its SetUserLocation; a time to live; nothing there.
LEMMA LocationSteps ==
  ASSUME IInv, [Next]_vars, NEW u \in Users
  PROVE  \/ location'[u] = location[u]
         \/ ~location'[u].there
         \/ location'[u].server = location[u].server /\ location'[u].there = location[u].there
         \/ \E t \in Threads : /\ SetUserLocation(t) /\ user(t) = u
                               /\ location'[u].server = res[t].server
<1> USE DEF redis, history, process
<1>1. CASE UNCHANGED location
  BY <1>1
<1>2. ASSUME NEW t \in Threads, SetUserLocation(t) \/ ExpireLocation(t)
      PROVE  \/ location'[u] = location[u]
             \/ location'[u].server = location[u].server /\ location'[u].there = location[u].there
             \/ SetUserLocation(t) /\ user(t) = u /\ location'[u].server = res[t].server
  <2>1. location \in [Users -> Location]
    BY DEF IInv, TypeOK, Location
  <2>2. location[u] \in Location
    BY <2>1
  <2>3. CASE SetUserLocation(t)
    <3> DEFINE q == [server |-> res[t].server, there |-> TRUE, ttl |-> location[user(t)].ttl]
    <3>1. location' = location \/ location' = [location EXCEPT ![user(t)] = q]
      BY <2>3 DEF SetUserLocation
    <3>2. q.server = res[t].server
      OBVIOUS
    <3> HIDE DEF q
    <3> QED BY <2>1, <2>3, <3>1, <3>2
  <2>4. CASE ExpireLocation(t)
    <3> DEFINE q == [location[user(t)] EXCEPT !.ttl = @ \/ location[user(t)].there]
    <3>1. location' = location \/ location' = [location EXCEPT ![user(t)] = q]
      BY <2>4 DEF ExpireLocation
    <3>2. user(t) = u => q.server = location[u].server /\ q.there = location[u].there
      BY <2>2 DEF Location
    <3> HIDE DEF q
    <3> QED BY <2>1, <3>1, <3>2
  <2> QED BY <1>2, <2>3, <2>4
<1>3. CASE LocationTimesOut
  BY <1>3 DEF LocationTimesOut, Absent, IInv, TypeOK
<1>4. CASE \E t \in Threads : Request(t)
  BY <1>4 DEF Request
<1>5. ASSUME NEW t \in Threads, Process(t)
      PROVE  UNCHANGED location \/ SetUserLocation(t) \/ ExpireLocation(t)
  BY <1>5 DEF Process, LoginCheck, GetUserInfo, GetUserCurrency, GetUserCostume,
              GetUserInventory, GetUserFriendsDB, Query, BuildFriendList, SelectServer,
              SetUserCostume, SetUserToken, Answer
<1>6. CASE ProcessEnds \/ Restart \/ TokenUsed \/ Tick \/ UNCHANGED vars
  BY <1>6 DEF ProcessEnds, Restart, TokenUsed, Tick, vars
<1> QED BY <1>1, <1>2, <1>3, <1>4, <1>5, <1>6 DEF Next, Environment

LEMMA StepLocation ==
  ASSUME IInv, LocationAnswered, [Next]_vars
  PROVE  LocationAnswered'
<1> SUFFICES ASSUME NEW u \in Users, location'[u].there
             PROVE  Given(u, location[u].server)'
  BY DEF LocationAnswered, Given
<1>1. CASE \/ location'[u] = location[u]
           \/ location'[u].server = location[u].server /\ location'[u].there = location[u].there
  <2>1. Given(u, location[u].server)
    BY <1>1 DEF LocationAnswered, Given
  <2>2. PICK s : s = location[u].server
    OBVIOUS
  <2>3. Given(u, s)'
    BY <2>1, <2>2, GivenStays
  <2> QED BY <1>1, <2>2, <2>3 DEF Given
<1>2. ASSUME NEW t \in Threads, SetUserLocation(t), user(t) = u,
             location'[u].server = res[t].server
      PROVE  Given(u, location[u].server)'
  <2>1. res[t].isSuccess
    BY <1>2 DEF SetUserLocation, IInv, ThreadsOK, ThreadOK, Writing, Written
  <2>2. res'[t] = res[t] /\ user(t)' = user(t)
    BY <1>2 DEF SetUserLocation, user
  <2> QED BY <1>2, <2>1, <2>2 DEF Given
<1> QED BY <1>1, <1>2, LocationSteps

LEMMA LocationInvariance == Spec => []LocationAnswered
<1>1. Init => LocationAnswered
  BY DEF Init, LocationAnswered, Absent
<1> QED BY <1>1, StepLocation, Invariance, PTL DEF Spec

\* Redis never says that a user is somewhere no login of that user was sent to,
\* however many threads log the user in (RedisManager.cpp:189).
THEOREM LocationsAnswered == Spec => []LocationAnswered
  BY LocationInvariance

-----------------------------------------------------------------------------
(* What a login shows of other users.                                       *)

\* Only BuildFriendList shows anyone, and only users of whom Redis has a place.
LEMMA FriendSteps ==
  ASSUME IInv, [Next]_vars, NEW t \in Threads, NEW f \in friendRes'[t]
  PROVE  f \in friendRes[t] \/ (f \in Users /\ location[f].there)
<1> USE DEF redis, history, process
<1>1. friendRes \in [Threads -> SUBSET Users]
  BY DEF IInv, TypeOK
<1>2. ASSUME NEW v \in Threads, BuildFriendList(v)
      PROVE  f \in friendRes[t] \/ (f \in Users /\ location[f].there)
  <2>1. user(v) \in Users
    BY <1>2 DEF BuildFriendList, IInv, ThreadsOK, ThreadOK
  <2>2. Friends[user(v)] \cup Requested[user(v)] \subseteq Users
    BY <2>1, UsersAssumption
  <2> DEFINE online == {g \in Friends[user(v)] \cup Requested[user(v)] : location[g].there}
  <2>3. PICK seen \in SUBSET online : friendRes' = [friendRes EXCEPT ![v] = seen]
    BY <1>2 DEF BuildFriendList
  <2>4. CASE t = v
    BY <1>1, <2>2, <2>3, <2>4
  <2>5. CASE t # v
    BY <1>1, <2>3, <2>5
  <2> QED BY <2>4, <2>5
<1>3. ASSUME NEW v \in Threads, Process(v), ~BuildFriendList(v)
      PROVE  f \in friendRes[t]
  <2>1. CASE Answer(v)
    BY <1>1, <2>1 DEF Answer
  <2>2. CASE ~Answer(v)
    BY <1>3, <2>2 DEF Process, LoginCheck, GetUserInfo, GetUserCurrency, GetUserCostume,
                      GetUserInventory, GetUserFriendsDB, Query, SelectServer,
                      SetUserCostume, SetUserLocation, ExpireLocation, SetUserToken
  <2> QED BY <2>1, <2>2
<1>4. CASE \E v \in Threads : Request(v)
  BY <1>4 DEF Request
<1>5. CASE ProcessEnds
  BY <1>5 DEF ProcessEnds
<1>6. CASE Restart \/ Environment \/ UNCHANGED vars
  BY <1>6 DEF Restart, Environment, LocationTimesOut, TokenUsed, Tick, vars
<1> QED BY <1>2, <1>3, <1>4, <1>5, <1>6 DEF Next

ShownWereGiven == \A t \in Threads : \A f \in friendRes[t] : \E s : Given(f, s)

LEMMA StepShown ==
  ASSUME IInv, LocationAnswered, ShownWereGiven, [Next]_vars
  PROVE  ShownWereGiven'
<1> SUFFICES ASSUME NEW t \in Threads, NEW f \in friendRes'[t]
             PROVE  \E s : Given(f, s)'
  BY DEF ShownWereGiven
<1>1. PICK s : Given(f, s)
  <2>1. CASE f \in friendRes[t]
    BY <2>1 DEF ShownWereGiven
  <2>2. CASE f \in Users /\ location[f].there
    <3>1. Given(f, location[f].server)
      BY <2>2 DEF LocationAnswered, Given
    <3> QED BY <3>1
  <2> QED BY <2>1, <2>2, FriendSteps
<1>2. Given(f, s)'
  BY <1>1, GivenStays
<1> QED BY <1>2

\* No friend is shown as online of whom no login ever got as far as a server
\* (BuildFriendList, SetUserLocation).
THEOREM OnlineHaveLoggedIn == Spec => []OnlineMeansLoggedIn
<1>1. Init => ShownWereGiven
  BY DEF Init, ShownWereGiven
<1>2. ShownWereGiven => OnlineMeansLoggedIn
  <2> SUFFICES ASSUME ShownWereGiven, NEW t \in Threads, NEW f \in friendRes[t]
               PROVE  \/ \E a \in answers : a.user = f /\ a.res.isSuccess
                      \/ \E v \in Threads : user(v) = f /\ res[v].isSuccess
                      \/ \E c \in cutOff : c[1] = f
    BY DEF OnlineMeansLoggedIn
  <2>1. PICK s : Given(f, s)
    BY DEF ShownWereGiven
  <2>2. <<f, s>>[1] = f
    OBVIOUS
  <2> QED BY <2>1, <2>2 DEF Given
<1> QED BY <1>1, <1>2, StepShown, Invariance, LocationInvariance, PTL DEF Spec

-----------------------------------------------------------------------------
(* The time to live of a location.                                          *)

\* A thread between hset() and expire() for user u.
Expiring(u) == \E t \in Threads : pc[t] = "ExpireLocation" /\ user(t) = u

\* A step of thread t other than SetUserLocation and ExpireLocation.
LEMMA OtherStepExpire ==
  ASSUME IInv, LocationsExpire, NEW t \in Threads, StepOK(t), pc[t] # "ExpireLocation",
         UNCHANGED <<location, unexpired>>
  PROVE  LocationsExpire'
<1> SUFFICES ASSUME NEW u \in Users, location[u].there, ~location[u].ttl, u \notin unexpired
             PROVE  Expiring(u)'
  BY DEF LocationsExpire, Expiring
<1>1. PICK v \in Threads : pc[v] = "ExpireLocation" /\ user(v) = u
  BY DEF LocationsExpire
<1>2. pc'[v] = pc[v] /\ req'[v] = req[v]
  BY <1>1 DEF StepOK, OthersSame
<1> QED BY <1>1, <1>2 DEF Expiring, user

LEMMA SetUserLocationExpire ==
  ASSUME IInv, LocationsExpire, NEW t \in Threads, SetUserLocation(t)
  PROVE  LocationsExpire'
<1>1. /\ StepOK(t) /\ pc[t] = "SetUserLocation" /\ req' = req
      /\ unexpired \subseteq unexpired'
  BY SetUserLocationOK DEF SetUserLocation
<1>2. CASE UNCHANGED <<location, unexpired>>
  BY <1>1, <1>2, OtherStepExpire
<1>3. CASE Goto(t, "ExpireLocation") \/ user(t) \in unexpired'
  <2> SUFFICES ASSUME NEW u \in Users, location'[u].there, ~location'[u].ttl, u \notin unexpired'
               PROVE  Expiring(u)'
    BY DEF LocationsExpire, Expiring
  <2>2. CASE u = user(t)
    <3>1. pc'[t] = "ExpireLocation" /\ req'[t].user = u
      BY <1>1, <1>3, <2>2 DEF Goto, IInv, TypeOK, user
    <3> QED BY <3>1 DEF Expiring, user
  <2>3. CASE u # user(t)
    <3>1. location'[u] = location[u] /\ u \notin unexpired
      BY <1>1, <2>3 DEF SetUserLocation, IInv, TypeOK
    <3>2. PICK v \in Threads : pc[v] = "ExpireLocation" /\ user(v) = u
      BY <3>1 DEF LocationsExpire
    <3>3. pc'[v] = pc[v] /\ req'[v] = req[v]
      BY <1>1, <3>2 DEF StepOK, OthersSame
    <3> QED BY <3>2, <3>3 DEF Expiring, user
  <2> QED BY <2>2, <2>3
<1>4. user(t) \in unexpired' \/ Goto(t, "ExpireLocation") \/ UNCHANGED <<location, unexpired>>
  BY DEF SetUserLocation
<1> QED BY <1>2, <1>3, <1>4

LEMMA ExpireLocationExpire ==
  ASSUME IInv, LocationsExpire, NEW t \in Threads, ExpireLocation(t)
  PROVE  LocationsExpire'
<1>1. StepOK(t)
  BY ExpireLocationOK
<1>2. location \in [Users -> Location]
  BY DEF IInv, TypeOK, Location
<1> DEFINE q == [location[user(t)] EXCEPT !.ttl = @ \/ location[user(t)].there]
<1>3. user(t) \in Users
  BY DEF ExpireLocation, IInv, ThreadsOK, ThreadOK
<1>4. q.there = location[user(t)].there /\ (q.there => q.ttl)
  BY <1>2, <1>3 DEF Location
<1>5. \/ /\ location' = [location EXCEPT ![user(t)] = q]
         /\ unexpired' = unexpired \ {user(t)}
      \/ /\ unexpired' = unexpired \cup {user(t)}
         /\ UNCHANGED location
  BY DEF ExpireLocation
<1> HIDE DEF q
<1> SUFFICES ASSUME NEW u \in Users, location'[u].there, ~location'[u].ttl, u \notin unexpired'
             PROVE  Expiring(u)'
  BY DEF LocationsExpire, Expiring
<1>6. u # user(t)
  BY <1>2, <1>3, <1>4, <1>5
<1>7. location'[u] = location[u] /\ u \notin unexpired
  BY <1>2, <1>5, <1>6
<1>8. PICK v \in Threads : pc[v] = "ExpireLocation" /\ user(v) = u
  BY <1>7 DEF LocationsExpire
<1>9. pc'[v] = pc[v] /\ req'[v] = req[v]
  BY <1>1, <1>6, <1>8 DEF StepOK, OthersSame
<1> QED BY <1>8, <1>9 DEF Expiring, user

LEMMA StepExpire ==
  ASSUME IInv, LocationsExpire, [Next]_vars
  PROVE  LocationsExpire'
<1> USE DEF redis, history, process
<1>1. CASE \E t \in Threads : (~terminated /\ Request(t)) \/ Process(t)
  <2>1. PICK t \in Threads : (~terminated /\ Request(t)) \/ Process(t)
    BY <1>1
  <2>2. StepOK(t)
    BY <2>1, StepOKs
  <2>3. CASE SetUserLocation(t)
    BY <2>3, SetUserLocationExpire
  <2>4. CASE ExpireLocation(t)
    BY <2>4, ExpireLocationExpire
  <2>5. CASE ~SetUserLocation(t) /\ ~ExpireLocation(t)
    <3>1. UNCHANGED <<location, unexpired>> /\ pc[t] # "ExpireLocation"
      BY <2>1, <2>5 DEF Request, Process, LoginCheck, GetUserInfo, GetUserCurrency,
                        GetUserCostume, GetUserInventory, GetUserFriendsDB, Query,
                        BuildFriendList, SelectServer, SetUserCostume, SetUserToken, Answer
    <3> QED BY <2>2, <3>1, OtherStepExpire
  <2> QED BY <2>3, <2>4, <2>5
<1>2. CASE ProcessEnds
  BY <1>2 DEF ProcessEnds, LocationsExpire
<1>3. CASE LocationTimesOut
  <2>1. UNCHANGED <<pc, req, unexpired>>
    BY <1>3 DEF LocationTimesOut
  <2>2. \A u \in Users : location'[u].there => location'[u] = location[u]
    BY <1>3 DEF LocationTimesOut, Absent, IInv, TypeOK
  <2> QED BY <2>1, <2>2 DEF LocationsExpire, user
<1>4. CASE Restart \/ TokenUsed \/ Tick \/ UNCHANGED vars
  <2>1. UNCHANGED <<pc, req, location, unexpired>>
    BY <1>4 DEF Restart, TokenUsed, Tick, vars
  <2> QED BY <2>1 DEF LocationsExpire, user
<1> QED BY <1>1, <1>2, <1>3, <1>4 DEF Next, Environment

\* Only a login that stopped between hset() and expire() leaves a location without
\* a time to live: the process ended there, hset() threw though Redis had stored
\* the location, or expire() threw; and only until the user's next expire()
\* (SetUserLocation).
THEOREM EveryLocationExpires == Spec => []LocationsExpire
<1>1. Init => LocationsExpire
  BY DEF Init, LocationsExpire, Absent
<1> QED BY <1>1, StepExpire, Invariance, PTL DEF Spec
=============================================================================
