-------------------------- MODULE AgentEnrollment --------------------------
(***************************************************************************)
(* How a host's agent gets in: the one-time enrollment token, the exchange   *)
(* for a credential, the control socket from upgrade to registration, and    *)
(* the revocation of what a rotated credential leaves behind.  One server    *)
(* row; Owner is the host the operator hands tokens to, the other hosts only *)
(* have a credential of earlier days.                                        *)
(*                                                                           *)
(* Tokens are numbered in the order they are issued, and a credential is any  *)
(* number nobody has; 0 is none.  MaxEvents bounds what the operator does (a new    *)
(* token, a token running out, the server deleted) and what goes wrong: lost *)
(* or late answers, failing writes, broken links, restarts.                  *)
(***************************************************************************)
EXTENDS Integers

CONSTANTS Hosts, Owner,
          Sockets,      \* control sockets the Backend may hold at once
          MaxTokens,    \* tokens ever issued
          MaxCreds,     \* credentials anybody has at a time
          MaxEvents

ASSUME EnrollmentConstants ==
    /\ Owner \in Hosts
    /\ Sockets \subseteq Nat \ {0}
    /\ MaxTokens \in Nat \ {0} /\ MaxCreds \in Nat \ {0} /\ MaxEvents \in Nat

VARIABLES
    srv,        \* the enrollment columns of infra.servers
    host,       \* the agent process of each host, and its credential file
    calls,      \* POST /agent/enroll requests under way
    sock,       \* control sockets at the Backend
    cur,        \* the socket the AgentRegistry holds (0: none)
    deleting,   \* the server was deleted; disconnect() has not run yet
    \* history, read by properties only
    issued,     \* tokens issued so far
    from,       \* token the row's credential was minted from
    used,       \* a control socket was confirmed with the row's credential
    spoilt,     \* the Owner's token was replaced or ran out before it was used
    events

history == <<issued, from, used, spoilt>>
enrollmentVars == <<srv, host, calls, sock, cur, deleting, history, events>>

Free == [st |-> "free", open |-> FALSE, host |-> Owner, cred |-> 0, rejected |-> FALSE]

\* Both ends are done with a socket; a confirmControl under way still ends.
Gone(r) == IF r.st = "hello" THEN [r EXCEPT !.open = FALSE] ELSE Free

-----------------------------------------------------------------------------
(* The operator *)

\* issueInTransaction: the stored credential did not come from this token.
Issued(r) == [r EXCEPT !.token = issued + 1, !.fresh = TRUE, !.unconfirmed = FALSE]

Issue ==
    /\ srv.exists
    /\ events < MaxEvents
    /\ events' = events + 1
    /\ issued < MaxTokens
    /\ srv' = Issued(srv)
    /\ issued' = issued + 1
    /\ spoilt' = TRUE
    /\ UNCHANGED <<host, calls, sock, cur, deleting, from, used>>

Expire ==
    /\ srv.token # 0 /\ srv.fresh
    /\ events < MaxEvents
    /\ events' = events + 1
    /\ srv' = [srv EXCEPT !.fresh = FALSE]
    /\ spoilt' = TRUE
    /\ UNCHANGED <<host, calls, sock, cur, deleting, issued, from, used>>

DeleteServer ==
    /\ srv.exists
    /\ events < MaxEvents
    /\ events' = events + 1
    /\ srv' = [srv EXCEPT !.exists = FALSE, !.token = 0, !.cred = 0]
    /\ deleting' = TRUE
    /\ UNCHANGED <<host, calls, sock, cur, history>>

-----------------------------------------------------------------------------
(* The exchange, Backend side *)

\* Mutant: a socket is tracked only until its agent says hello.
PendingMutant(s) == FALSE

\* disconnect() reaches the registered socket and those still on their way.
Pending(s) == sock[s].st \in {"hello", "confirmed"}

Disconnect ==
    /\ sock' = [s \in Sockets |->
                  IF sock[s].open /\ (s = cur \/ Pending(s))
                  THEN [sock[s] EXCEPT !.open = FALSE, !.rejected = TRUE] ELSE sock[s]]
    /\ cur' = 0

Redeemable(token) == srv.exists /\ srv.token # 0 /\ srv.token = token /\ srv.fresh

\* The token stays valid until the credential is first used.
Enrolled(r, c) == [r EXCEPT !.cred = c, !.unconfirmed = TRUE]

Turned(call, state, c) == (calls \ {call}) \cup {[call EXCEPT !.state = state, !.cred = c]}

\* A new secret: one that nobody has.
Known == {srv.cred} \cup {call.cred : call \in calls} \cup {sock[s].cred : s \in Sockets}
         \cup UNION {{host[h].stored, host[h].cred, host[h].new} : h \in Hosts}
Unknown == (1..MaxCreds) \ Known

\* enroll: one transaction; any refusal is final for the caller.
Enroll(call) ==
    /\ call.state = "sent"
    /\ \/ /\ Redeemable(call.token)
          /\ Unknown # {}
          /\ LET c == CHOOSE c \in Unknown : TRUE IN
             /\ srv' = Enrolled(srv, c)
             /\ calls' = Turned(call, "committed", c)
          /\ from' = call.token
          /\ used' = FALSE
       \/ /\ ~Redeemable(call.token)
          /\ calls' = Turned(call, "refused", 0)
          /\ UNCHANGED <<srv, from, used>>
    /\ UNCHANGED <<host, sock, cur, deleting, issued, spoilt, events>>

\* The effects after the commit, then the response.
EnrollCommitted(call) ==
    /\ call.state = "committed"
    /\ Disconnect
    /\ calls' = Turned(call, "done", call.cred)
    /\ UNCHANGED <<srv, host, deleting, history, events>>

ServerDeleted ==
    /\ deleting
    /\ deleting' = FALSE
    /\ Disconnect
    /\ UNCHANGED <<srv, host, calls, history, events>>

-----------------------------------------------------------------------------
(* The host: main.ts, enroll.ts, credential-store.ts *)

Becomes(h, record) == host' = [host EXCEPT ![h] = record]

\* A stored credential wins over the token of the environment.
Boot(h) ==
    /\ host[h].pc = "boot"
    /\ \/ /\ host[h].stored # 0
          /\ Becomes(h, [host[h] EXCEPT !.pc = "dial", !.cred = host[h].stored, !.first = FALSE])
       \/ /\ host[h].stored = 0
          /\ host[h].env # 0
          /\ Becomes(h, [host[h] EXCEPT !.pc = "enroll", !.first = TRUE])
    /\ UNCHANGED <<srv, calls, sock, cur, deleting, history, events>>

Exchange(h) ==
    /\ host[h].pc = "enroll"
    /\ calls' = calls \cup {[host |-> h, token |-> host[h].env, state |-> "sent",
                             cred |-> 0, awaited |-> TRUE]}
    /\ Becomes(h, [host[h] EXCEPT !.pc = "waiting"])
    /\ UNCHANGED <<srv, sock, cur, deleting, history, events>>

\* A first enrollment is retried until it is accepted or refused (the process
\* then ends, and its unit starts it again); one after a rejected credential
\* is tried once per rejected dial.
AfterFailure(h) == IF host[h].first THEN "enroll" ELSE "dial"

Answer(call) ==
    LET h == call.host IN
    /\ call.state \in {"done", "refused"}
    /\ calls' = calls \ {call}
    /\ \/ /\ call.awaited /\ call.state = "done"
          /\ Becomes(h, [host[h] EXCEPT !.pc = "store", !.new = call.cred])
       \/ /\ call.awaited /\ call.state = "refused"
          /\ Becomes(h, [host[h] EXCEPT !.pc = IF host[h].first THEN "boot" ELSE "dial"])
       \/ ~call.awaited /\ UNCHANGED host
    /\ UNCHANGED <<srv, sock, cur, deleting, history, events>>

Store(h) ==
    /\ host[h].pc = "store"
    /\ Becomes(h, [host[h] EXCEPT !.pc = "dial", !.stored = host[h].new, !.cred = host[h].new,
                                   !.new = 0, !.first = FALSE])
    /\ UNCHANGED <<srv, calls, sock, cur, deleting, history, events>>

StoreFails(h) ==
    /\ host[h].pc = "store"
    /\ events < MaxEvents
    /\ events' = events + 1
    /\ Becomes(h, [host[h] EXCEPT !.pc = AfterFailure(h), !.new = 0])
    /\ UNCHANGED <<srv, calls, sock, cur, deleting, history>>

\* The answer does not come in time; the request is lost, or still served.
ExchangeTimesOut(call) ==
    /\ call.awaited
    /\ events < MaxEvents
    /\ events' = events + 1
    /\ \/ call.state # "committed" /\ calls' = calls \ {call}
       \/ calls' = (calls \ {call}) \cup {[call EXCEPT !.awaited = FALSE]}
    /\ Becomes(call.host, [host[call.host] EXCEPT !.pc = AfterFailure(call.host)])
    /\ UNCHANGED <<srv, sock, cur, deleting, history>>

FreeSockets == {s \in Sockets : sock[s].st = "free"}

Dial(h) ==
    /\ host[h].pc = "dial"
    /\ FreeSockets # {}
    /\ LET s == CHOOSE s \in FreeSockets : TRUE IN
       /\ sock' = [sock EXCEPT ![s] = [st |-> "auth", open |-> TRUE, host |-> h,
                                       cred |-> host[h].cred, rejected |-> FALSE]]
       /\ Becomes(h, [host[h] EXCEPT !.pc = "session", !.sock = s])
    /\ UNCHANGED <<srv, calls, cur, deleting, history, events>>

\* Mutant: a rejected credential is dialled with again.
EndedMutant(h, rejected) == [host[h] EXCEPT !.sock = 0, !.pc = "dial"]

\* The socket ended: a rejected credential is traded for a new one when there
\* is a token, any other end is dialled again.
Ended(h, rejected) ==
    [host[h] EXCEPT !.sock = 0, !.pc = IF rejected /\ host[h].env # 0 THEN "enroll" ELSE "dial"]

SessionEnds(h) ==
    LET s == host[h].sock IN
    /\ s # 0
    /\ ~sock[s].open
    /\ Becomes(h, Ended(h, sock[s].rejected))
    /\ sock' = [sock EXCEPT ![s] = Gone(@)]
    /\ UNCHANGED <<srv, calls, cur, deleting, history, events>>

LinkDropped(h) ==
    /\ host[h].pc = "session"
    /\ events < MaxEvents
    /\ events' = events + 1
    /\ Becomes(h, [host[h] EXCEPT !.pc = "dial", !.sock = 0])
    /\ UNCHANGED <<srv, calls, sock, cur, deleting, history>>

Restarted(h, env) ==
    /\ Becomes(h, [host[h] EXCEPT !.pc = "boot", !.sock = 0, !.cred = 0, !.new = 0, !.first = TRUE, !.env = env])
    /\ calls' = {[c EXCEPT !.awaited = @ /\ c.host # h] : c \in calls}

HostRestart(h) ==
    /\ events < MaxEvents
    /\ events' = events + 1
    /\ Restarted(h, host[h].env)
    /\ UNCHANGED <<srv, sock, cur, deleting, history>>

\* The operator installs the latest token on the Owner and restarts its agent.
Reconfigure ==
    /\ host[Owner].env # issued
    /\ Restarted(Owner, issued)
    /\ spoilt' = ~(srv.exists /\ srv.fresh)
    /\ UNCHANGED <<srv, sock, cur, deleting, issued, from, used, events>>

-----------------------------------------------------------------------------
(* The control socket, Backend side *)

Valid(s) == srv.exists /\ srv.cred # 0 /\ srv.cred = sock[s].cred

\* authenticate: read the stored hash; a mismatch is answered with 401.
Authenticate(s) ==
    /\ sock[s].st = "auth"
    /\ \/ /\ Valid(s)
          /\ sock' = [sock EXCEPT ![s].st = "upgrading"]
          /\ UNCHANGED host
       \/ /\ ~Valid(s)
          /\ sock' = [sock EXCEPT ![s] = Free]
          /\ host' = [h \in Hosts |-> IF host[h].sock = s THEN Ended(h, TRUE) ELSE host[h]]
    /\ UNCHANGED <<srv, calls, cur, deleting, history, events>>

\* acceptControl: the upgraded socket is tracked until it is registered, and
\* its credential checked again when its agent has said hello.
AcceptControl(s) ==
    /\ sock[s].st = "upgrading"
    /\ sock[s].open
    /\ host[sock[s].host].sock = s
    /\ sock' = [sock EXCEPT ![s].st = "hello"]
    /\ UNCHANGED <<srv, host, calls, cur, deleting, history, events>>

\* Mutant: the token outlives the first use of its credential.
SpentMutant(r) == [r EXCEPT !.unconfirmed = FALSE]

\* The first use of a credential spends the token it was minted from.
Spent(r) == IF r.unconfirmed THEN [r EXCEPT !.unconfirmed = FALSE, !.token = 0] ELSE r

\* confirmControl: a transaction on the row lock, whatever becomes of the socket.
ConfirmControl(s) ==
    /\ sock[s].st = "hello"
    /\ \/ /\ Valid(s)
          /\ srv' = Spent(srv)
          /\ used' = TRUE
          /\ sock' = [sock EXCEPT ![s].st = "confirmed"]
       \/ /\ ~Valid(s)
          /\ sock' = [sock EXCEPT ![s].st = "refused", ![s].open = FALSE,
                                  ![s].rejected = @ \/ sock[s].open]
          /\ UNCHANGED <<srv, used>>
    /\ UNCHANGED <<host, calls, cur, deleting, issued, from, spoilt, events>>

\* The transaction is over and the socket still open: welcome, and replace the
\* registered connection.
Register(s) ==
    /\ sock[s].st = "confirmed"
    /\ sock[s].open
    /\ sock' = [t \in Sockets |-> CASE t = s   -> [sock[t] EXCEPT !.st = "registered"]
                                    [] t = cur /\ t # s -> [sock[t] EXCEPT !.open = FALSE]
                                    [] OTHER   -> sock[t]]
    /\ cur' = s
    /\ UNCHANGED <<srv, host, calls, deleting, history, events>>

Unregistered(s) == cur' = IF cur = s THEN 0 ELSE cur

\* The peer is gone: no pong, or no hello in time.
PeerGone(s) ==
    /\ sock[s].open
    /\ host[sock[s].host].sock # s
    /\ sock' = [sock EXCEPT ![s] = Gone(@)]
    /\ Unregistered(s)
    /\ UNCHANGED <<srv, host, calls, deleting, history, events>>

SocketDropped(s) ==
    /\ sock[s].open
    /\ host[sock[s].host].sock = s
    /\ events < MaxEvents
    /\ events' = events + 1
    /\ sock' = [sock EXCEPT ![s].open = FALSE]
    /\ Unregistered(s)
    /\ UNCHANGED <<srv, host, calls, deleting, history>>

\* Nothing refers to the closed socket any more.
Forget(s) ==
    /\ sock[s].st \notin {"free", "hello"}
    /\ ~sock[s].open
    /\ host[sock[s].host].sock # s
    /\ sock' = [sock EXCEPT ![s] = Free]
    /\ UNCHANGED <<srv, host, calls, cur, deleting, history, events>>

BackendRestart ==
    /\ events < MaxEvents
    /\ events' = events + 1
    /\ sock' = [s \in Sockets |-> [sock[s] EXCEPT
                    !.open = FALSE, !.st = IF @ = "hello" THEN "refused" ELSE @]]
    /\ cur' = 0
    /\ deleting' = FALSE
    /\ calls' = {}
    /\ host' = [h \in Hosts |->
                  IF \E c \in calls : c.awaited /\ c.host = h
                  THEN [host[h] EXCEPT !.pc = AfterFailure(h)] ELSE host[h]]
    /\ UNCHANGED <<srv, history>>

-----------------------------------------------------------------------------
Agent(env, stored) == [pc |-> "boot", env |-> env, stored |-> stored, cred |-> 0,
                       new |-> 0, first |-> TRUE, sock |-> 0]

\* A server with a fresh token the Owner has; nobody, or another host, is enrolled.
EnrollmentInit ==
    /\ \E enrolled \in {0, 1} :
          /\ srv = [exists |-> TRUE, token |-> 1, fresh |-> TRUE,
                    cred |-> enrolled, unconfirmed |-> FALSE]
          /\ host = [h \in Hosts |-> IF h = Owner THEN Agent(1, 0) ELSE Agent(0, enrolled)]
          /\ used = (enrolled = 1)
    /\ calls = {} /\ sock = [s \in Sockets |-> Free] /\ cur = 0 /\ deleting = FALSE
    /\ issued = 1 /\ from = 0 /\ spoilt = FALSE /\ events = 0

HostStep(h) == Boot(h) \/ Exchange(h) \/ Store(h) \/ Dial(h) \/ SessionEnds(h)
CallStep(call) == Enroll(call) \/ EnrollCommitted(call) \/ Answer(call)
SocketStep(s) == \/ Authenticate(s) \/ AcceptControl(s) \/ ConfirmControl(s)
                 \/ Register(s) \/ PeerGone(s) \/ Forget(s)

Fault ==
    \/ \E h \in Hosts : StoreFails(h) \/ LinkDropped(h) \/ HostRestart(h)
    \/ \E call \in calls : ExchangeTimesOut(call)
    \/ \E s \in Sockets : SocketDropped(s)
    \/ BackendRestart

EnrollmentNext ==
    \/ Issue \/ Expire \/ DeleteServer \/ Reconfigure
    \/ ServerDeleted
    \/ \E h \in Hosts : HostStep(h)
    \/ \E call \in calls : CallStep(call)
    \/ \E s \in Sockets : SocketStep(s)
    \/ Fault

Fairness ==
    /\ \A h \in Hosts : WF_enrollmentVars(HostStep(h))
    /\ \A h \in Hosts : WF_enrollmentVars(\E call \in calls : call.host = h /\ CallStep(call))
    /\ \A s \in Sockets : WF_enrollmentVars(SocketStep(s))
    /\ WF_enrollmentVars(ServerDeleted)

EnrollmentSpec == EnrollmentInit /\ [][EnrollmentNext]_enrollmentVars /\ Fairness

-----------------------------------------------------------------------------
(* Properties *)

\* Every variable holds a value the code could hold; the registered socket is
\* open and registered.
EnrollmentTypeOK ==
    /\ srv \in [exists : BOOLEAN, token : 0..MaxTokens, fresh : BOOLEAN,
                cred : 0..MaxCreds, unconfirmed : BOOLEAN]
    /\ \A h \in Hosts :
          /\ host[h].pc \in {"boot", "enroll", "waiting", "store", "dial", "session"}
          /\ (host[h].pc = "session") = (host[h].sock # 0)
    /\ cur # 0 => sock[cur].st = "registered" /\ sock[cur].open
    /\ \A s \in Sockets : sock[s].open /\ sock[s].st = "registered" => s = cur

\* Once the callback of the transaction that revoked it has run, no agent stays
\* connected with a credential that is no longer the server's: neither one that
\* was registered, nor one that was between upgrade, hello and registration.
NoRevokedAgent ==
    cur # 0 /\ sock[cur].cred # srv.cred =>
        deleting \/ \E call \in calls : call.state = "committed"

\* The registry and the row agree.
AgentsAreCurrent == EnrollmentTypeOK /\ NoRevokedAgent

\* A token leaves the row only with its server, with a newer token, or when a
\* credential minted from it is used for the first time: no other credential
\* spends it.  And an agent that got in stays in: a delayed or repeated exchange
\* of the token it came with never replaces the credential it has used.
TokenServesOnce ==
    [][/\ srv.token # 0 /\ srv'.token = 0 /\ srv'.exists =>
            from = srv.token /\ ~used /\ used'
       /\ used /\ srv'.cred # srv.cred /\ srv'.exists => from' # from]_enrollmentVars

Arrived == cur # 0 /\ sock[cur].host = Owner /\ sock[cur].cred = srv.cred

\* A host that was given a token gets in and stays in, whatever answer was lost
\* or late, write failed or process restarted on the way, unless the token ran
\* out or was replaced first.
OwnerArrives == <>[](~srv.exists \/ spoilt \/ Arrived)
=============================================================================
