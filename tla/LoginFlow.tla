------------------------------ MODULE LoginFlow ------------------------------
(***************************************************************************)
(* ProcessLogin, run by the Redis threads: LoginCheck, the six reads of     *)
(* ProcessConnect, the choice of a lobby server, the three writes to Redis  *)
(* and the answer.  Threads interleave between any two accesses to MySQL or *)
(* Redis; two of them may log in the same user.  The process may end at any *)
(* moment, by an exception that leaves a thread or for any other reason,    *)
(* and is started again: what it wrote to Redis stays.  MySQL, Redis and    *)
(* the lobby servers are external.  Which connection of the pool a query    *)
(* uses is in MySQLPool, how the answer is sent in SendQueue.               *)
(***************************************************************************)
EXTENDS Naturals, FiniteSets

CONSTANTS Threads,      \* Redis threads
          Users,        \* accounts
          Lobbies,      \* lobby servers
          Friends,      \* rows of table friend: for each user, the accepted ones
          Requested,    \*   ... and those still requested
          DbMayFail,    \* can a query function fail (or be refused a connection)?
          RedisMayFail, \* can an access to Redis throw?
          MaxRestarts,  \* bound: times the process is started again
          MaxRequests,  \* bound: login requests in all
          MaxSecond,    \* bound: seconds the clock runs
          NoUser, NoServer

ASSUME UsersAssumption == /\ NoUser \notin Users /\ NoServer \notin Lobbies
                          /\ Friends \in [Users -> SUBSET Users]
                          /\ Requested \in [Users -> SUBSET Users]
ASSUME FlagsAssumption == DbMayFail \in BOOLEAN /\ RedisMayFail \in BOOLEAN
ASSUME BoundsAssumption == {MaxRequests, MaxSecond, MaxRestarts} \subseteq Nat

FailCode == {"None", "WrongPassword", "ServerError", "NoServer"}

\* What may go wrong with a request, as opposed to what its answer says: the
\* user's password, the query that checks it, a later query, no server to go to,
\* a write to Redis that threw.
Cause == {"credentials", "check", "db", "noLobby", "costume", "location", "token"}

Load == 0..1            \* user counts the lobby servers report

VARIABLES pc,         \* next access of each thread
          req,        \* request of each thread: the user and if the password is right
          res,        \* its loginRes
          friendRes,  \* its friendRes: the users shown online
          cause,      \* history: all that went wrong with the request
          location,   \* hash user:pk: the server, if it has a time to live
          costume,    \* hash user:pk:costume: is it there?
          tokens,     \* hash jwtcheck:{userId}: tokens not yet used or expired
          issued,     \* history: <<user, token>> ever stored
          second,     \* the clock a JWT's expiry is computed from
          answers,    \* history: answers given
          requests,   \* history: requests begun
          cutOff,     \* history: <<user, server>> of logins that failed, or ended
                      \* with the process, after the choice of the server
          unexpired,  \* history: users with an hset and no expire() after it that
                      \* came through
          terminated, \* the process is gone
          restarts    \* times it was started again

vars == <<pc, req, res, friendRes, cause, location, costume, tokens, issued, second,
          answers, requests, cutOff, unexpired, terminated, restarts>>

NoReq == [user |-> NoUser, good |-> FALSE]
NoRes == [isSuccess |-> FALSE, failCode |-> "None", server |-> NoServer, token |-> 0]
Absent == [server |-> NoServer, there |-> FALSE, ttl |-> FALSE]
Down == 99              \* the key of the lobby server has expired

Init == /\ pc = [t \in Threads |-> "idle"]
        /\ req = [t \in Threads |-> NoReq]
        /\ res = [t \in Threads |-> NoRes]
        /\ friendRes = [t \in Threads |-> {}]
        /\ cause = [t \in Threads |-> {}]
        /\ location = [u \in Users |-> Absent]
        /\ costume = [u \in Users |-> FALSE]
        /\ tokens = [u \in Users |-> {}]
        /\ issued = {} /\ second = 0 /\ answers = {} /\ requests = 0
        /\ cutOff = {} /\ unexpired = {}
        /\ terminated = FALSE /\ restarts = 0

user(t) == req[t].user
Goto(t, l) == pc' = [pc EXCEPT ![t] = l]
redis == <<location, costume, tokens, issued>>
history == <<answers, requests, second>>
process == <<cutOff, unexpired, terminated, restarts>>

Blame(t, why) == cause' = [cause EXCEPT ![t] = @ \cup {why}]

\* Thread t gives up: the answer is a failure with this code.
Fail(t, code, why) ==
  /\ res' = [res EXCEPT ![t].isSuccess = FALSE, ![t].failCode = code]
  /\ Blame(t, why)
  /\ Goto(t, "answer")

-----------------------------------------------------------------------------
(* MySQL.                                                                   *)

\* RedisThread hands a USER_LOGIN_REQUEST to ProcessLogin.
Request(t) ==
  /\ pc[t] = "idle" /\ requests < MaxRequests
  /\ \E u \in Users, good \in BOOLEAN : req' = [req EXCEPT ![t] = [user |-> u, good |-> good]]
  /\ requests' = requests + 1
  /\ Goto(t, "LoginCheck")
  /\ UNCHANGED <<res, friendRes, cause, redis, answers, second, process>>

\* nullopt for a wrong password, an unknown user and every database error.
LoginCheck(t) ==
  /\ pc[t] = "LoginCheck"
  /\ \/ req[t].good /\ Goto(t, "GetUserInfo") /\ UNCHANGED <<res, cause>>
     \/ ~req[t].good /\ Fail(t, "WrongPassword", "credentials")
     \/ DbMayFail /\ Fail(t, "WrongPassword", "check")
  /\ UNCHANGED <<req, friendRes, redis, history, process>>

\* Mutant: the request is forgotten when a query fails.
QueryDropsRequest(t, this, next) ==
  /\ pc[t] = this
  /\ \/ Goto(t, next) /\ UNCHANGED <<req, res, cause>>
     \/ DbMayFail /\ Fail(t, "ServerError", "db") /\ req' = [req EXCEPT ![t] = NoReq]
  /\ UNCHANGED <<friendRes, redis, history, process>>

\* A query of ProcessConnect: its value goes into the packets, or nullopt ends
\* the login.
Query(t, this, next) ==
  /\ pc[t] = this
  /\ \/ Goto(t, next) /\ UNCHANGED <<res, cause>>
     \/ DbMayFail /\ Fail(t, "ServerError", "db")
  /\ UNCHANGED <<req, friendRes, redis, history, process>>

GetUserInfo(t)      == Query(t, "GetUserInfo", "GetUserCurrency")
GetUserCurrency(t)  == Query(t, "GetUserCurrency", "GetUserCostume")
GetUserCostume(t)   == Query(t, "GetUserCostume", "GetUserInventory")
GetUserInventory(t) == Query(t, "GetUserInventory", "GetUserFriendsDB")
GetUserFriendsDB(t) == Query(t, "GetUserFriendsDB", "BuildFriendList")

-----------------------------------------------------------------------------
(* Redis.  An access that throws inside a try block is logged and forgotten. *)

\* Mutant: onlineStatus begins as online.
BuildFriendListOnline(t) ==
  /\ pc[t] = "BuildFriendList"
  /\ friendRes' = [friendRes EXCEPT ![t] = Friends[user(t)] \cup Requested[user(t)]]
  /\ Goto(t, "SelectServer")
  /\ UNCHANGED <<req, res, cause, redis, history, process>>

\* One pipeline reads the state of all rows, accepted or not.  A row whose reply
\* failed, or all if the pipeline did, is shown offline.  (The calls that fill it
\* are not in the try block; see ProcessEnds.)
BuildFriendList(t) ==
  LET online == {f \in Friends[user(t)] \cup Requested[user(t)] : location[f].there} IN
  /\ pc[t] = "BuildFriendList"
  /\ \E seen \in IF RedisMayFail THEN SUBSET online ELSE {online} :
       friendRes' = [friendRes EXCEPT ![t] = seen]
  /\ Goto(t, "SelectServer")
  /\ UNCHANGED <<req, res, cause, redis, history, process>>

\* GetAvailableServers and the sort: a server that is up, none with less load.
\* status: what the keys lobby:N:status hold when the one mget reads them.
Available(status) == {l \in Lobbies : status[l] # Down}
LeastLoaded(status) ==
  {l \in Available(status) : \A m \in Available(status) : status[l] <= status[m]}

\* The lobby servers set their keys as they like.  With no server up the address
\* is "", but the test tempServer.ip == "" compares two pointers and is never
\* true: the login goes on.  (mget and stoi are not in a try block; see
\* ProcessEnds.)
SelectServer(t) ==
  /\ pc[t] = "SelectServer"
  /\ \E status \in [Lobbies -> Load \cup {Down}] :
       \/ /\ \E l \in LeastLoaded(status) :
               res' = [res EXCEPT ![t].isSuccess = TRUE, ![t].server = l]
          /\ UNCHANGED cause
       \/ /\ Available(status) = {}
          /\ res' = [res EXCEPT ![t].isSuccess = TRUE, ![t].server = NoServer]
          /\ Blame(t, "noLobby")
  /\ Goto(t, "SetUserCostume")
  /\ UNCHANGED <<req, friendRes, redis, history, process>>

\* A write that throws may have reached Redis, when only its reply was lost.

SetUserCostume(t) ==
  LET stored == costume' = [costume EXCEPT ![user(t)] = TRUE] IN
  /\ pc[t] = "SetUserCostume"
  /\ \/ stored /\ UNCHANGED cause
     \/ RedisMayFail /\ Blame(t, "costume") /\ (stored \/ UNCHANGED costume)
  /\ Goto(t, "SetUserLocation")
  /\ UNCHANGED <<req, res, friendRes, location, tokens, issued, history, process>>

\* Mutants: the server is selected again; expire() is not called.
SetUserLocationAnew(t) ==
  /\ pc[t] = "SetUserLocation"
  /\ \E l \in Lobbies \cup {NoServer} :
       location' = [location EXCEPT ![user(t)] = [server |-> l, there |-> TRUE, ttl |-> @.ttl]]
  /\ Goto(t, "ExpireLocation")
  /\ UNCHANGED <<req, res, friendRes, cause, costume, tokens, issued, history, process>>

SetUserLocationOnly(t) ==
  /\ pc[t] = "SetUserLocation"
  /\ location' = [location EXCEPT ![user(t)] =
                    [server |-> res[t].server, there |-> TRUE, ttl |-> @.ttl]]
  /\ Goto(t, "SetUserToken")
  /\ UNCHANGED <<req, res, friendRes, cause, costume, tokens, issued, history, process>>

\* hset of server and state "lobby"; a time to live the key has stays.  If it
\* throws, expire() is not called.
SetUserLocation(t) ==
  LET stored == location' = [location EXCEPT ![user(t)] =
                               [server |-> res[t].server, there |-> TRUE, ttl |-> @.ttl]] IN
  /\ pc[t] = "SetUserLocation"
  /\ \/ stored /\ Goto(t, "ExpireLocation") /\ UNCHANGED <<cause, unexpired>>
     \/ /\ RedisMayFail /\ Blame(t, "location") /\ Goto(t, "SetUserToken")
        /\ \/ stored /\ unexpired' = unexpired \cup {user(t)}
           \/ UNCHANGED <<location, unexpired>>
  /\ UNCHANGED <<req, res, friendRes, costume, tokens, issued, history, cutOff, terminated,
                 restarts>>

\* expire(key, 300), a command of its own; it does nothing if the key is gone.
ExpireLocation(t) ==
  LET expires == /\ location' = [location EXCEPT ![user(t)].ttl = @ \/ location[user(t)].there]
                 /\ unexpired' = unexpired \ {user(t)} IN
  /\ pc[t] = "ExpireLocation"
  /\ \/ expires /\ UNCHANGED cause
     \/ /\ RedisMayFail /\ Blame(t, "location")
        /\ expires \/ (unexpired' = unexpired \cup {user(t)} /\ UNCHANGED location)
  /\ Goto(t, "SetUserToken")
  /\ UNCHANGED <<req, res, friendRes, costume, tokens, issued, history, cutOff, terminated,
                 restarts>>

\* Mutants: isSuccess stays true when the token could not be stored; the handler
\* of the exception returns true.
SetUserTokenKeepsSuccess(t) ==
  /\ pc[t] = "SetUserToken"
  /\ \/ /\ tokens' = [tokens EXCEPT ![user(t)] = @ \cup {second}]
        /\ issued' = issued \cup {<<user(t), second>>}
        /\ res' = [res EXCEPT ![t].token = second]
        /\ UNCHANGED cause
     \/ /\ RedisMayFail
        /\ res' = [res EXCEPT ![t].failCode = "ServerError"]
        /\ Blame(t, "token")
        /\ UNCHANGED <<tokens, issued>>
  /\ Goto(t, "answer")
  /\ UNCHANGED <<req, friendRes, location, costume, history, process>>

SetUserTokenTrue(t) ==
  /\ pc[t] = "SetUserToken"
  /\ \/ /\ tokens' = [tokens EXCEPT ![user(t)] = @ \cup {second}]
        /\ issued' = issued \cup {<<user(t), second>>}
     \/ RedisMayFail /\ UNCHANGED <<tokens, issued>>
  /\ res' = [res EXCEPT ![t].token = second]
  /\ Goto(t, "answer")
  /\ UNCHANGED <<req, friendRes, cause, location, costume, history, process>>

\* When exec() throws, Redis may have stored the token or not.
TokenNotStored(t) ==
  /\ RedisMayFail
  /\ Fail(t, "ServerError", "token")
  /\ cutOff' = cutOff \cup {<<user(t), res[t].server>>}

\* The token is a signed expiry time and nothing else, so it is its second.
SetUserToken(t) ==
  /\ pc[t] = "SetUserToken"
  /\ \/ /\ tokens' = [tokens EXCEPT ![user(t)] = @ \cup {second}]
        /\ issued' = issued \cup {<<user(t), second>>}
        /\ \/ /\ res' = [res EXCEPT ![t].token = second]
              /\ Goto(t, "answer")
              /\ UNCHANGED <<cause, cutOff>>
           \/ TokenNotStored(t)
     \/ TokenNotStored(t) /\ UNCHANGED <<tokens, issued>>
  /\ UNCHANGED <<req, friendRes, location, costume, history, unexpired, terminated,
                 restarts>>

\* PushSendMsg of loginRes, and on success of inventoryRes and friendRes; the
\* thread's locals are gone.
Answer(t) ==
  /\ pc[t] = "answer"
  /\ answers' = answers \cup {[user |-> user(t), res |-> res[t], cause |-> cause[t]]}
  /\ Goto(t, "idle")
  /\ req' = [req EXCEPT ![t] = NoReq]
  /\ res' = [res EXCEPT ![t] = NoRes]
  /\ friendRes' = [friendRes EXCEPT ![t] = {}]
  /\ cause' = [cause EXCEPT ![t] = {}]
  /\ UNCHANGED <<redis, requests, second, process>>

Process(t) ==
  /\ ~terminated
  /\ \/ LoginCheck(t) \/ GetUserInfo(t) \/ GetUserCurrency(t) \/ GetUserCostume(t)
     \/ GetUserInventory(t) \/ GetUserFriendsDB(t) \/ BuildFriendList(t)
     \/ SelectServer(t) \/ SetUserCostume(t) \/ SetUserLocation(t)
     \/ ExpireLocation(t) \/ SetUserToken(t) \/ Answer(t)

-----------------------------------------------------------------------------
(* The end of the process.                                                  *)

\* An exception that no try block of a thread catches, or any other end.  What
\* the threads were about to do is not done.
ProcessEnds ==
  /\ ~terminated /\ terminated' = TRUE
  /\ cutOff' = cutOff \cup {<<user(t), res[t].server>> : t \in {v \in Threads : res[v].isSuccess}}
  /\ unexpired' = unexpired \cup {user(t) : t \in {v \in Threads : pc[v] = "ExpireLocation"}}
  /\ pc' = [t \in Threads |-> "idle"]
  /\ req' = [t \in Threads |-> NoReq]
  /\ res' = [t \in Threads |-> NoRes]
  /\ friendRes' = [t \in Threads |-> {}]
  /\ cause' = [t \in Threads |-> {}]
  /\ UNCHANGED <<redis, history, restarts>>

Restart ==
  /\ terminated /\ restarts < MaxRestarts
  /\ terminated' = FALSE /\ restarts' = restarts + 1
  /\ UNCHANGED <<pc, req, res, friendRes, cause, redis, history, cutOff, unexpired>>

-----------------------------------------------------------------------------
(* Redis's times to live, tokens used by the lobby servers, the clock.       *)

\* user:pk has not been refreshed for 300 seconds.
LocationTimesOut ==
  /\ \E u \in Users : location[u].ttl /\ location' = [location EXCEPT ![u] = Absent]
  /\ UNCHANGED <<pc, req, res, friendRes, cause, costume, tokens, issued, history, process>>

\* A lobby server verifies a token and deletes it, or the key expires.
TokenUsed ==
  /\ \E u \in Users : \E k \in tokens[u] : tokens' = [tokens EXCEPT ![u] = @ \ {k}]
  /\ UNCHANGED <<pc, req, res, friendRes, cause, location, costume, issued, history, process>>

Tick == /\ second < MaxSecond /\ second' = second + 1
        /\ UNCHANGED <<pc, req, res, friendRes, cause, redis, answers, requests, process>>

Environment == LocationTimesOut \/ TokenUsed \/ Tick

Next == \/ \E t \in Threads : (~terminated /\ Request(t)) \/ Process(t)
        \/ ProcessEnds \/ Restart
        \/ Environment

Spec == Init /\ [][Next]_vars

-----------------------------------------------------------------------------
(* Properties.                                                              *)

Place == {"idle", "LoginCheck", "GetUserInfo", "GetUserCurrency", "GetUserCostume",
          "GetUserInventory", "GetUserFriendsDB", "BuildFriendList", "SelectServer",
          "SetUserCostume", "SetUserLocation", "ExpireLocation", "SetUserToken", "answer"}

Response == [isSuccess : BOOLEAN, failCode : FailCode, server : Lobbies \cup {NoServer},
             token : 0..MaxSecond]

TypeOK == /\ pc \in [Threads -> Place]
          /\ req \in [Threads -> [user : Users \cup {NoUser}, good : BOOLEAN]]
          /\ res \in [Threads -> Response]
          /\ friendRes \in [Threads -> SUBSET Users]
          /\ cause \in [Threads -> SUBSET Cause]
          /\ location \in [Users -> [server : Lobbies \cup {NoServer}, there : BOOLEAN,
                                     ttl : BOOLEAN]]
          /\ costume \in [Users -> BOOLEAN]
          /\ tokens \in [Users -> SUBSET (0..MaxSecond)]
          /\ issued \subseteq Users \X (0..MaxSecond)
          /\ second \in 0..MaxSecond
          /\ answers \subseteq [user : Users, res : Response, cause : SUBSET Cause]
          /\ requests \in 0..MaxRequests
          /\ cutOff \subseteq Users \X (Lobbies \cup {NoServer})
          /\ unexpired \subseteq Users
          /\ terminated \in BOOLEAN /\ restarts \in 0..MaxRestarts

\* What an answer says of what went wrong (ProcessLogin, ProcessConnect).  Wrong
\* password: the password was wrong or the query that checks it failed.  Server
\* error: a later query failed or the token's write threw.  Success: anything
\* else, a login without a lobby server or with a costume or a location that
\* could not be written included; NoServer is never said.  If a success had no
\* trouble with the costume, Redis has the user's costume from then on.
CodeOfCause ==
  \A a \in answers :
    /\ a.res.isSuccess <=> a.res.failCode = "None"
    /\ a.res.failCode = "WrongPassword" <=> a.cause \cap {"credentials", "check"} # {}
    /\ a.res.failCode = "ServerError" <=> a.cause \cap {"db", "token"} # {}
    /\ a.res.failCode # "NoServer"
    /\ a.res.isSuccess /\ "costume" \notin a.cause => costume[a.user]

\* A client told of success got a token that Redis has for its user, not one
\* of another login or one that was never stored (SetUserToken).
SuccessMeansStored ==
  \A a \in answers : a.res.isSuccess => <<a.user, a.res.token>> \in issued

\* Redis says where a user is only if a login of the user was given that server:
\* it was answered so, is about to be, or came to an end after the choice
\* ("set Redis only on success", RedisManager.cpp:189).
LocationAnswered ==
  \A u \in Users : location[u].there =>
    \/ \E a \in answers : a.user = u /\ a.res.isSuccess /\ a.res.server = location[u].server
    \/ \E t \in Threads : /\ user(t) = u /\ res[t].isSuccess
                          /\ res[t].server = location[u].server
    \/ <<u, location[u].server>> \in cutOff

\* A user shown as online has logged in, is past the choice of a server, or was
\* when the login came to an end: what one thread shows is never the trace of a
\* login that MySQL let fail.
OnlineMeansLoggedIn ==
  \A t \in Threads : \A f \in friendRes[t] :
    \/ \E a \in answers : a.user = f /\ a.res.isSuccess
    \/ \E v \in Threads : user(v) = f /\ res[v].isSuccess
    \/ \E c \in cutOff : c[1] = f

\* A user's location has no time to live only while a login is between hset()
\* and expire(), or if one stopped there (the process ended, hset() threw although
\* Redis had stored the location, or expire() threw) and no expire() of the user's
\* has come through since: the next login heals it (SetUserLocation).
LocationsExpire ==
  \A u \in Users : location[u].there /\ ~location[u].ttl =>
    u \in unexpired \/ \E t \in Threads : pc[t] = "ExpireLocation" /\ user(t) = u
=============================================================================
