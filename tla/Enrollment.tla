----------------------------- MODULE Enrollment -----------------------------
(***************************************************************************)
(* Client certificates and tokens (src/src/mtls.rs, auth.rs, api.rs): every *)
(* protected request takes a cached token, makes sure of a client           *)
(* certificate under one lock, enrolling or renewing when it is due, and    *)
(* repeats itself once for a refused certificate and once for a refused     *)
(* token.  The callers (heartbeat, delivery) share the token and the        *)
(* certificate and interleave at every await.                               *)
(*                                                                          *)
(* A private key is a number; a certificate is its position in the server's *)
(* list.  The server answers for a key it has certified with the live       *)
(* certificate, and issues nothing while a revocation locks the agent.      *)
(***************************************************************************)
EXTENDS Naturals, Sequences, FiniteSetsExt

CONSTANTS
  None,         \* absence of a value
  Callers,      \* the loops that send protected requests
  MaxTroubles,  \* bound on expiries, refusals, losses, restarts and disk faults
  SyncFaults    \* may the directory sync after the removal fail?

Answers == {"ok", "unauthorized", "forbidden", "failed", "absent", "issued", "valid", "stale"}

ASSUME EnrollmentConstants ==
  /\ None \notin Nat /\ None \notin Callers /\ None \notin Answers
  /\ MaxTroubles \in Nat
  /\ SyncFaults \in BOOLEAN

VARIABLES
  \* server
  mode,       \* "token_only", "optional", "required"
  locked,     \* has a revocation locked enrollment?
  certs,      \* certificates issued: [key, age, revoked, late]
  late,       \* keys of requests the agent gave up on and the server has yet to see
  \* disk
  dPending,   \* key in client-enrollment.json, or None
  dBundle,    \* certificate in client-identity.json, or None
  \* process
  pending, bundle,  \* their copies in mtls::State
  unavailable,      \* the server has no issuer
  backoff,          \* now < retry_at
  holder,           \* the caller that holds the lock of mtls::State, or None
  token,            \* "none", "valid", "stale": the cached token
  due,              \* is it due for refresh?
  req,              \* req[c]: the request of caller c
  \* bounds
  nextKey,
  left        \* troubles to come

server == <<mode, locked, certs, late>>
disk == <<dPending, dBundle>>
memory == <<pending, bundle, unavailable, backoff>>
tokens == <<token, due>>
vars == <<server, disk, memory, holder, tokens, req, nextKey, left>>

Ages == {"fresh", "due", "expired"}
Serials == 1..Len(certs)
InFlight == {"exchanging", "recover", "issue", "sent"}

\* pc; the token it carries; did it refresh after a 401; which attempt of
\* post_json; certificate presented or issued; answer; requests and exchanges so far.
Idle == [pc |-> "idle", tok |-> "none", refreshed |-> FALSE, again |-> FALSE,
         usable |-> FALSE, cert |-> None, ans |-> None, sends |-> 0, exchanges |-> 0]

ValidNow(s) == s # None /\ certs[s].age # "expired"
Live(s) == ValidNow(s) /\ ~certs[s].revoked

\* State::client: an expired certificate is never presented.
Presentable(s) == IF ValidNow(s) THEN s ELSE None

Step(c, next) == req' = [req EXCEPT ![c] = next]

End(c, outcome) == Step(c, [Idle EXCEPT !.pc = outcome])
Fail(c) == End(c, "idle")

Trouble == left > 0 /\ left' = left - 1

\* The request leaves with the identity of this moment.
Send(c) ==
  Step(c, [req[c] EXCEPT !.pc = "sent", !.ans = None, !.cert = Presentable(bundle),
                         !.usable = FALSE, !.sends = @ + 1])

\* A plausible bug: a 401 always refreshes the token and repeats the request.
AlwaysRefresh(c) ==
  Step(c, [req[c] EXCEPT !.pc = "token", !.ans = None, !.cert = None, !.refreshed = TRUE])

\* ApiError::Auth: refresh once and repeat the request.
RefreshOnce(c) ==
  IF req[c].refreshed THEN Fail(c)
  ELSE Step(c, [req[c] EXCEPT !.pc = "token", !.ans = None, !.cert = None,
                              !.refreshed = TRUE])

-----------------------------------------------------------------------------
(* Tokens.                                                                 *)

\* AuthClient::token: the cached token, or an exchange.
Begin(c) ==
  /\ req[c].pc \in {"idle", "ok"}
  /\ Step(c, [Idle EXCEPT !.pc = IF token # "none" /\ ~due THEN "ensure" ELSE "token",
                         !.tok = token])
  /\ UNCHANGED <<server, disk, memory, holder, tokens, nextKey, left>>

\* force_refresh: the exchange takes the client, so it waits for the lock.
Exchange(c) ==
  /\ req[c].pc = "token" /\ holder = None
  /\ Step(c, [req[c] EXCEPT !.pc = "exchanging", !.exchanges = @ + 1])
  /\ UNCHANGED <<server, disk, memory, holder, tokens, nextKey, left>>

Exchanged(c) ==
  /\ req[c].pc = "exchanging" /\ req[c].ans # None
  /\ IF req[c].ans = "failed"
     THEN Fail(c) /\ UNCHANGED tokens
     ELSE /\ token' = req[c].ans /\ due' = FALSE
          /\ Step(c, [req[c] EXCEPT !.pc = "ensure", !.tok = req[c].ans, !.ans = None,
                                    !.again = FALSE])
  /\ UNCHANGED <<server, disk, memory, holder, nextKey, left>>

-----------------------------------------------------------------------------
(* State::ensure, under the lock from here to the answer.                  *)

Current == bundle # None /\ certs[bundle].age = "fresh"

\* No enrollment: the identity is current, there is no issuer, or an earlier
\* failure is backing off.
EnsureCurrent(c) ==
  /\ req[c].pc = "ensure" /\ holder = None
  /\ unavailable \/ Current \/ backoff
  /\ IF unavailable \/ Current \/ ValidNow(bundle) THEN Send(c) ELSE Fail(c)
  /\ UNCHANGED <<server, disk, memory, holder, tokens, nextKey, left>>

\* A failed enrollment: a current identity serves on, a 401 does not back off.
EnrollFails(c, error) ==
  /\ holder' = None
  /\ IF error = "unauthorized"
     THEN backoff' = FALSE /\ RefreshOnce(c)
     ELSE backoff' = TRUE /\ IF req[c].usable THEN Send(c) ELSE Fail(c)

\* A plausible bug: the key is kept in memory until its certificate is there.
PendingInMemory(k) == dPending' = dPending /\ pending' = k

\* The key is on disk before it is in memory, and in both before the request.
KeepPending(k) == dPending' = k /\ pending' = k

\* A plausible bug: a pending key is submitted again as if it were new.
AlwaysIssue(p) == "issue"

\* A key that was pending before may have been certified already.
FirstRequest(p) == IF p = None THEN "issue" ELSE "recover"

Enroll(c) ==
  /\ req[c].pc = "ensure" /\ holder = None
  /\ ~unavailable /\ ~Current /\ ~backoff
  /\ holder' = c /\ backoff' = TRUE
  /\ Step(c, [req[c] EXCEPT !.pc = FirstRequest(pending), !.usable = ValidNow(bundle)])
  /\ IF pending # None THEN UNCHANGED <<dPending, pending, nextKey>>
     ELSE KeepPending(nextKey) /\ nextKey' = nextKey + 1
  /\ UNCHANGED <<server, dBundle, bundle, unavailable, tokens, left>>

\* The new key cannot be written, or its rename cannot be synced: the file may
\* be there, memory does not have it.
EnrollUnwritten(c) ==
  /\ req[c].pc = "ensure" /\ holder = None
  /\ ~unavailable /\ ~Current /\ ~backoff /\ pending = None
  /\ Trouble
  /\ backoff' = TRUE
  /\ dPending' \in {dPending, nextKey} /\ nextKey' = nextKey + 1
  /\ IF ValidNow(bundle) THEN Send(c) ELSE Fail(c)
  /\ UNCHANGED <<server, dBundle, pending, bundle, unavailable, holder, tokens>>

\* A plausible bug: an unknown key is an error like any other.
UnknownFails(c) == FALSE

\* The server never certified the pending key: it is submitted now.
NeverIssued(c) == req[c].ans = "absent"

RecoverAbsent(c) ==
  /\ req[c].pc = "recover" /\ NeverIssued(c)
  /\ Step(c, [req[c] EXCEPT !.pc = "issue", !.ans = None])
  /\ UNCHANGED <<server, disk, memory, holder, tokens, nextKey, left>>

\* 404 from the issuing endpoint: without an identity, token-only operation.
NoIssuer(c) ==
  /\ req[c].pc = "issue" /\ req[c].ans = "absent" /\ bundle = None
  /\ unavailable' = TRUE /\ holder' = None
  /\ Send(c)
  /\ UNCHANGED <<server, disk, pending, bundle, backoff, tokens, nextKey, left>>

RequestRefused(c) ==
  /\ \/ /\ req[c].pc \in {"recover", "issue"}
        /\ req[c].ans \in {"unauthorized", "failed"}
        /\ EnrollFails(c, req[c].ans)
     \/ /\ req[c].pc = "issue" /\ req[c].ans = "absent" /\ bundle # None
        /\ EnrollFails(c, "failed")
     \/ /\ req[c].pc = "recover" /\ req[c].ans = "absent" /\ ~NeverIssued(c)
        /\ EnrollFails(c, "failed")
  /\ UNCHANGED <<server, disk, pending, bundle, unavailable, tokens, nextKey, left>>

\* The certificate is validated and published in one file with its key.
Publish(c) ==
  /\ req[c].pc \in {"recover", "issue"} /\ req[c].ans = "issued"
  /\ \/ /\ ~ValidNow(req[c].cert)
        /\ EnrollFails(c, "failed")
        /\ UNCHANGED <<dBundle, left>>
     \/ /\ ValidNow(req[c].cert)
        /\ dBundle' = req[c].cert
        /\ Step(c, [req[c] EXCEPT !.pc = "publish"])
        /\ UNCHANGED <<backoff, holder, left>>
     \/ /\ Trouble
        /\ dBundle' \in {dBundle, req[c].cert}
        /\ EnrollFails(c, "failed")
  /\ UNCHANGED <<server, dPending, pending, bundle, unavailable, tokens, nextKey>>

\* client-enrollment.json is removed and the identity is in force.
Finish(c) ==
  /\ req[c].pc = "publish" /\ dPending # None
  /\ dPending' = None /\ pending' = None
  /\ bundle' = req[c].cert /\ backoff' = FALSE /\ holder' = None
  /\ Step(c, [req[c] EXCEPT !.pc = "sent", !.ans = None, !.usable = FALSE, !.sends = @ + 1])
  /\ UNCHANGED <<server, dBundle, unavailable, tokens, nextKey, left>>

\* The file is not there, cannot be removed, or is gone and the directory
\* cannot be synced: the identity published is not in force.
FinishFails(c) ==
  /\ req[c].pc = "publish"
  /\ \/ dPending = None /\ UNCHANGED <<dPending, left>>
     \/ /\ dPending # None /\ Trouble
        /\ \/ UNCHANGED dPending
           \/ SyncFaults /\ dPending' = None
  /\ EnrollFails(c, "failed")
  /\ UNCHANGED <<server, dBundle, pending, bundle, unavailable, tokens, nextKey>>

-----------------------------------------------------------------------------
(* The answer to the protected request.                                    *)

\* State::recover forgets the identity.
Forget == bundle' = None

\* A refused certificate: the first attempt forgets the identity, which waits
\* for the lock, and enrolls again.
RecoverCertificate(c) ==
  /\ req[c].pc = "sent" /\ req[c].ans = "forbidden" /\ ~req[c].again
  /\ holder = None
  /\ Forget /\ unavailable' = FALSE /\ backoff' = FALSE
  /\ Step(c, [req[c] EXCEPT !.pc = "ensure", !.again = TRUE, !.ans = None, !.cert = None])
  /\ UNCHANGED <<server, disk, pending, holder, tokens, nextKey, left>>

Complete(c) ==
  /\ req[c].pc = "sent"
  /\ \/ req[c].ans = "ok" /\ End(c, "ok")
     \/ req[c].ans = "unauthorized" /\ RefreshOnce(c)
     \/ req[c].ans = "failed" /\ Fail(c)
     \/ req[c].ans = "forbidden" /\ req[c].again /\ Fail(c)
  /\ UNCHANGED <<server, disk, memory, holder, tokens, nextKey, left>>

-----------------------------------------------------------------------------
(* Time, restarts, the server and the network.                             *)

BackoffEnds ==
  /\ backoff /\ holder = None
  /\ backoff' = FALSE
  /\ UNCHANGED <<server, disk, pending, bundle, unavailable, holder, tokens, req,
                 nextKey, left>>

\* A process that dies keeps its files; the next one loads them.
Restart ==
  /\ Trouble
  /\ late' = IF \E c \in Callers : req[c].pc = "issue" /\ req[c].ans = None
             THEN late \cup {pending} ELSE late
  /\ pending' = dPending /\ bundle' = dBundle
  /\ unavailable' = FALSE /\ backoff' = FALSE /\ holder' = None
  /\ token' = "none" /\ due' = FALSE
  /\ req' = [c \in Callers |-> Idle]
  /\ UNCHANGED <<mode, locked, certs, disk, nextKey>>

Certify(k, isLate) ==
  certs' = Append(certs, [key |-> k, age |-> "fresh", revoked |-> FALSE, late |-> isLate])

Certified(k) == {s \in Serials : certs[s].key = k /\ Live(s)}

Answer(c, a) == Step(c, [req[c] EXCEPT !.ans = a])
Issued(c, s) == Step(c, [req[c] EXCEPT !.ans = "issued", !.cert = s])

\* The protected endpoints check the token, then the certificate.
Refused(r) ==
  IF r.cert = None THEN mode = "required" ELSE ~Live(r.cert)

AnswerProtected(c) ==
  /\ req[c].pc = "sent"
  /\ Answer(c, IF req[c].tok # "valid" THEN "unauthorized"
               ELSE IF Refused(req[c]) THEN "forbidden" ELSE "ok")
  /\ UNCHANGED certs

AnswerExchange(c) ==
  req[c].pc = "exchanging" /\ Answer(c, "valid") /\ UNCHANGED certs

\* The enrollment endpoints issue nothing without an issuer, a token, or while
\* enrollment is locked.
AnswerRefused(c) ==
  /\ req[c].pc \in {"recover", "issue"}
  /\ mode = "token_only" \/ locked \/ req[c].tok # "valid"
  /\ Answer(c, IF mode = "token_only" THEN "absent"
               ELSE IF locked THEN "failed" ELSE "unauthorized")
  /\ UNCHANGED certs

AnswerEnrollment(c) ==
  /\ mode # "token_only" /\ ~locked /\ req[c].tok = "valid"
  /\ \/ /\ req[c].pc = "recover"
        /\ IF Certified(pending) = {} THEN Answer(c, "absent")
           ELSE Issued(c, Max(Certified(pending)))
        /\ UNCHANGED certs
     \/ /\ req[c].pc = "issue"
        /\ Certify(pending, FALSE) /\ Issued(c, Len(certs) + 1)

ServerAnswers(c) ==
  /\ req[c].ans = None
  /\ AnswerExchange(c) \/ AnswerProtected(c) \/ AnswerRefused(c) \/ AnswerEnrollment(c)
  /\ UNCHANGED <<mode, locked, late, disk, memory, holder, tokens, nextKey, left>>

\* A timeout, a connection that fails, a server error: before or after the
\* server acted, or the server acts later.
Drop(c) ==
  /\ req[c].pc \in InFlight /\ req[c].ans # "failed"
  /\ Trouble
  /\ Answer(c, "failed")
  /\ \/ UNCHANGED late
     \/ req[c].pc = "issue" /\ req[c].ans = None /\ late' = late \cup {pending}
  /\ UNCHANGED <<mode, locked, certs, disk, memory, holder, tokens, nextKey>>

LateIssue(k) ==
  /\ k \in late
  /\ late' = late \ {k}
  /\ IF mode = "token_only" \/ locked THEN UNCHANGED certs ELSE Certify(k, TRUE)
  /\ UNCHANGED <<mode, locked, disk, memory, holder, tokens, req, nextKey, left>>

\* Writing the files takes no time in this unit.
Age(s) ==
  /\ \A c \in Callers : req[c].pc # "publish"
  /\ certs[s].age # "expired" /\ Trouble
  /\ certs' = [certs EXCEPT ![s].age = IF @ = "fresh" THEN "due" ELSE "expired"]
  /\ UNCHANGED <<mode, locked, late, disk, memory, holder, tokens, req, nextKey>>

\* An operator revokes a certificate, which locks enrollment until it is reset.
Revoke(s) ==
  /\ ~certs[s].revoked /\ Trouble
  /\ certs' = [certs EXCEPT ![s].revoked = TRUE]
  /\ locked' = TRUE
  /\ UNCHANGED <<mode, late, disk, memory, holder, tokens, req, nextKey>>

Unlock ==
  /\ locked /\ locked' = FALSE
  /\ UNCHANGED <<mode, certs, late, disk, memory, holder, tokens, req, nextKey, left>>

Stale(t) == IF t = "valid" THEN "stale" ELSE t

\* Every token given out so far is refused from now on.
RevokeTokens ==
  /\ Trouble
  /\ token' = Stale(token)
  /\ req' = [c \in Callers |-> [req[c] EXCEPT !.tok = Stale(@), !.ans = Stale(@)]]
  /\ UNCHANGED <<server, disk, memory, holder, due, nextKey>>

TokenDue ==
  /\ token # "none" /\ ~due /\ Trouble
  /\ due' = TRUE
  /\ UNCHANGED <<server, disk, memory, holder, token, req, nextKey>>

\* The deployment gets an issuer, then demands certificates.
Upgrade ==
  /\ mode # "required" /\ Trouble
  /\ mode' = IF mode = "token_only" THEN "optional" ELSE "required"
  /\ UNCHANGED <<locked, certs, late, disk, memory, holder, tokens, req, nextKey>>

-----------------------------------------------------------------------------
\* A new agent, or one whose certificate is due for renewal.
Init ==
  /\ mode \in {"token_only", "optional", "required"} /\ locked = FALSE /\ late = {}
  /\ \/ certs = <<>> /\ dBundle = None /\ nextKey = 1
     \/ /\ mode = "required"
        /\ certs = <<[key |-> 1, age |-> "due", revoked |-> FALSE, late |-> FALSE]>>
        /\ dBundle = 1 /\ nextKey = 2
  /\ bundle = dBundle /\ dPending = None /\ pending = None
  /\ unavailable = FALSE /\ backoff = FALSE /\ holder = None
  /\ token = "none" /\ due = FALSE
  /\ req = [c \in Callers |-> Idle]
  /\ left = MaxTroubles

Locking(c) == Exchange(c) \/ EnsureCurrent(c) \/ Enroll(c) \/ RecoverCertificate(c)
Running(c) ==
  \/ Exchanged(c) \/ RecoverAbsent(c) \/ NoIssuer(c) \/ RequestRefused(c)
  \/ Publish(c) \/ Finish(c) \/ FinishFails(c) \/ Complete(c)

Next ==
  \/ \E c \in Callers :
       Begin(c) \/ Locking(c) \/ EnrollUnwritten(c) \/ Running(c)
         \/ ServerAnswers(c) \/ Drop(c)
  \/ \E k \in late : LateIssue(k)
  \/ \E s \in Serials : Age(s) \/ Revoke(s)
  \/ BackoffEnds \/ Restart \/ Unlock \/ RevokeTokens \/ TokenDue \/ Upgrade

Spec == Init /\ [][Next]_vars

\* The loops send again and again, the lock is handed out in order, the server
\* answers, back-offs end and operators unlock what a revocation locked.
FairSpec ==
  /\ Spec
  /\ \A c \in Callers :
       WF_vars(Begin(c)) /\ SF_vars(Locking(c)) /\ WF_vars(Running(c))
         /\ WF_vars(ServerAnswers(c))
  /\ WF_vars(BackoffEnds) /\ WF_vars(Unlock)

-----------------------------------------------------------------------------
(* Properties.                                                             *)

Keys == 1..(nextKey - 1)

Certificates == [key : Nat \ {0}, age : Ages, revoked : BOOLEAN, late : BOOLEAN]

Requests ==
  [pc : InFlight \cup {"idle", "token", "ensure", "publish", "ok"},
   tok : {"none", "valid", "stale"}, refreshed : BOOLEAN, again : BOOLEAN,
   usable : BOOLEAN, cert : Nat \cup {None}, ans : Answers \cup {None},
   sends : Nat, exchanges : Nat]

\* Every variable holds a value of its kind; keys have been generated and
\* certificates issued before they are used.
TypeOK ==
  /\ mode \in {"token_only", "optional", "required"}
  /\ {locked, unavailable, backoff, due} \subseteq BOOLEAN
  /\ nextKey \in Nat \ {0} /\ left \in 0..MaxTroubles
  /\ certs \in Seq(Certificates)
  /\ \A s \in Serials : certs[s].key \in Keys
  /\ late \subseteq Keys
  /\ {dPending, pending} \subseteq Keys \cup {None}
  /\ {dBundle, bundle} \subseteq Serials \cup {None}
  /\ holder \in Callers \cup {None} /\ (holder # None => pending # None)
  /\ token \in {"none", "valid", "stale"}
  /\ req \in [Callers -> Requests]
  /\ \A c \in Callers :
       /\ req[c].cert \in Serials \cup {None}
       /\ req[c].pc = "exchanging" => req[c].ans \in {None, "failed", "valid", "stale"}
       /\ req[c].pc \in {"idle", "ok", "token", "ensure"} => req[c].ans = None

\* A key is certified once: a lost answer, a restart or a repetition retrieves
\* the certificate.  The exceptions are a certificate that is no longer live
\* and requests the server processes after the agent gave up on them.
OneCertPerKey ==
  \A s, t \in Serials :
    s < t /\ certs[s].key = certs[t].key /\ Live(s) => certs[s].late \/ certs[t].late

\* The private key of the newest identity is on disk, in one of the two files,
\* whatever crash or write error comes next.
NewestKeyKept ==
  certs # <<>> =>
    LET k == Max({certs[s].key : s \in Serials})
    IN dPending = k \/ (dBundle # None /\ certs[dBundle].key = k)

\* The retries of the two layers stay bounded: at most four deliveries of a
\* request and two exchanges, whatever is refused.
SendBudget == \A c \in Callers : req[c].sends <= 4 /\ req[c].exchanges <= 2

\* When the refusals, losses and restarts are over, requests succeed again
\* and again.
Recovers == \A c \in Callers : []<>(req[c].pc = "ok")
=============================================================================
