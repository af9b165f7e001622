-------------------------- MODULE EnrollmentProofs --------------------------
(***************************************************************************)
(* Theorems about Enrollment for any number of callers, expiries,          *)
(* refusals, losses, restarts and disk faults: a key is certified once,    *)
(* the private key of the newest identity is on disk, and retries are      *)
(* bounded.                                                                *)
(***************************************************************************)
EXTENDS Enrollment, WellFoundedInduction, TLAPS

-----------------------------------------------------------------------------
(* The inductive invariant.                                                *)

Enrolling == {"recover", "issue", "publish"}

\* An enrollment holds the lock of mtls::State.
LockOK == \A c \in Callers : req[c].pc \in Enrolling => holder = c

\* A key is submitted when no certificate of it is live, except those the server
\* issues to requests it sees late.
Free == \A s \in Serials : certs[s].key = pending /\ Live(s) => certs[s].late

Submitting(c) == \/ req[c].pc = "issue" /\ req[c].ans = None
                 \/ req[c].pc = "recover" /\ req[c].ans = "absent"

SubmitOK ==
  /\ mode = "token_only" => certs = <<>>
  /\ \A c \in Callers : Submitting(c) => Free

\* The certificate being published is for the pending key.
AnswerOK ==
  \A c \in Callers :
    /\ req[c].pc \in {"recover", "issue"} /\ req[c].ans = "issued"
         => req[c].cert # None /\ certs[req[c].cert].key = pending
    /\ req[c].pc = "publish"
         => req[c].cert # None /\ certs[req[c].cert].key = pending /\ dBundle = req[c].cert

\* The key of the identity on disk, or 0.
BundleKey == IF dBundle = None THEN 0 ELSE certs[dBundle].key

\* A key that was or may still be certified is that of the identity on disk, an
\* older one, or pending on disk; one that only the disk knows was never sent.
Certifiable == {certs[s].key : s \in Serials} \cup late

KeysOK ==
  /\ \A k \in Certifiable : k <= BundleKey \/ k = dPending
  /\ dPending # None => BundleKey <= dPending
  /\ pending # None => pending = dPending \/ (dPending = None /\ pending = BundleKey)
  /\ pending = None => dPending \notin Certifiable

\* One refresh of the token and one recovery of the certificate double the
\* requests of each.
Of(condition) == IF condition THEN 1 ELSE 0

BudgetOK ==
  \A c \in Callers :
    LET r == req[c] IN
    /\ r.pc = "token" => r.exchanges <= Of(r.refreshed) /\ r.sends <= 2 * Of(r.refreshed)
    /\ r.pc = "exchanging" =>
         r.exchanges <= Of(r.refreshed) + 1 /\ r.sends <= 2 * Of(r.refreshed)
    /\ r.pc \in Enrolling \cup {"ensure"} =>
         /\ r.exchanges <= Of(r.refreshed) + 1
         /\ r.sends <= 2 * Of(r.refreshed) + Of(r.again)
    /\ r.pc = "sent" =>
         /\ r.exchanges <= Of(r.refreshed) + 1
         /\ r.sends <= 2 * Of(r.refreshed) + Of(r.again) + 1
    /\ r.pc \in {"idle", "ok"} => r.exchanges = 0 /\ r.sends = 0

EnrollmentInv ==
  LockOK /\ SubmitOK /\ AnswerOK /\ KeysOK /\ BudgetOK /\ OneCertPerKey

-----------------------------------------------------------------------------
(* Natural numbers.                                                        *)

\* A set of natural numbers has a least element.
LEMMA LeastNatural ==
  ASSUME NEW T \in SUBSET Nat, T # {}
  PROVE  \E x \in T : \A y \in T : x <= y
<1>1. IsWellFoundedOn(OpToRel(<, Nat), Nat)
  BY NatLessThanWellFounded
<1>2. PICK x \in T : \A y \in T : ~ (<<y, x>> \in OpToRel(<, Nat))
  BY <1>1, WFMin
<1>3. \A y \in T : <<y, x>> \in Nat \X Nat
  OBVIOUS
<1>4. \A y \in T : ~ (y < x)
  BY <1>2, <1>3 DEF OpToRel
<1>. QED
  BY <1>4

\* A bounded one has a greatest.
LEMMA MaxInSet ==
  ASSUME NEW n \in Nat, NEW T \in SUBSET (0..n), T # {}
  PROVE  Max(T) \in T /\ \A y \in T : y <= Max(T)
<1> DEFINE U == {n - y : y \in T}
<1>0. \A y \in T : y \in Nat /\ n - y \in Nat
  OBVIOUS
<1>1. U \in SUBSET Nat /\ U # {}
  BY <1>0
<1>2. PICK u \in U : \A v \in U : u <= v
  BY <1>1, LeastNatural
<1>3. PICK x \in T : u = n - x
  BY <1>2
<1>4. \A y \in T : n - x <= n - y
  BY <1>2, <1>3
<1>5. \A y \in T : x >= y
  BY <1>4
<1>6. \E x_1 \in T : \A y \in T : x_1 >= y
  BY <1>5
<1>7. Max(T) \in T /\ \A y \in T : Max(T) >= y
  BY <1>6 DEF Max
<1>. QED
  BY <1>7

-----------------------------------------------------------------------------
(* Certificates.                                                           *)

\* Issuing a certificate leaves the others alone.
LEMMA CertifyEffect ==
  ASSUME TypeOK, NEW k \in Keys, NEW isLate \in BOOLEAN, Certify(k, isLate)
  PROVE  /\ certs' \in Seq(Certificates) /\ Len(certs') = Len(certs) + 1
         /\ Serials' = Serials \cup {Len(certs) + 1}
         /\ \A s \in Serials : certs'[s] = certs[s]
         /\ certs'[Len(certs) + 1] = [key |-> k, age |-> "fresh", revoked |-> FALSE, late |-> isLate]
<1> DEFINE x == [key |-> k, age |-> "fresh", revoked |-> FALSE, late |-> isLate]
<1>1. certs \in Seq(Certificates) /\ Len(certs) \in Nat
  BY DEF TypeOK
<1>2. x \in Certificates
  BY DEF Certificates, Ages, Keys, TypeOK
<1>3. certs' = Append(certs, x)
  BY DEF Certify
<1>. HIDE DEF x
<1>4. /\ certs' \in Seq(Certificates) /\ Len(certs') = Len(certs) + 1
      /\ \A s \in 1..Len(certs) : certs'[s] = certs[s]
      /\ certs'[Len(certs) + 1] = x
  BY <1>1, <1>2, <1>3
<1>5. Serials' = Serials \cup {Len(certs) + 1}
  BY <1>1, <1>4 DEF Serials
<1>. QED
  BY <1>4, <1>5 DEF Serials, x

\* Time and revocations change no key, and revive no certificate.
LEMMA AgeEffect ==
  ASSUME TypeOK, NEW s \in Serials, Age(s) \/ Revoke(s)
  PROVE  /\ certs' \in Seq(Certificates) /\ Len(certs') = Len(certs) /\ Serials' = Serials
         /\ \A t \in Serials : /\ certs'[t].key = certs[t].key
                               /\ certs'[t].late = certs[t].late
                               /\ Live(t)' => Live(t)
<1>1. certs \in Seq(Certificates) /\ Len(certs) \in Nat /\ s \in 1..Len(certs)
  BY DEF TypeOK, Serials
<1>2. certs[s] \in Certificates
  BY <1>1
<1>3. PICK x \in Certificates :
        /\ certs' = [certs EXCEPT ![s] = x] /\ x.key = certs[s].key /\ x.late = certs[s].late
        /\ (x.age # "expired" /\ ~x.revoked) => (certs[s].age # "expired" /\ ~certs[s].revoked)
  <2>1. CASE Age(s)
    <3> DEFINE x == [certs[s] EXCEPT !.age = IF @ = "fresh" THEN "due" ELSE "expired"]
    <3>1. certs' = [certs EXCEPT ![s] = x]
      BY <2>1 DEF Age
    <3>2. x \in Certificates /\ x.key = certs[s].key /\ x.late = certs[s].late /\ x.revoked = certs[s].revoked
      BY <1>2 DEF Certificates, Ages
    <3>3. certs[s].age # "expired"
      BY <2>1 DEF Age
    <3>. HIDE DEF x
    <3>. QED
      BY <3>1, <3>2, <3>3
  <2>2. CASE Revoke(s)
    <3> DEFINE x == [certs[s] EXCEPT !.revoked = TRUE]
    <3>1. certs' = [certs EXCEPT ![s] = x]
      BY <2>2 DEF Revoke
    <3>2. x \in Certificates /\ x.key = certs[s].key /\ x.late = certs[s].late /\ x.revoked
      BY <1>2 DEF Certificates, Ages
    <3>. HIDE DEF x
    <3>. QED
      BY <3>1, <3>2
  <2>. QED
    BY <2>1, <2>2
<1>4. /\ certs' \in Seq(Certificates) /\ Len(certs') = Len(certs)
      /\ \A t \in 1..Len(certs) : certs'[t] = IF t = s THEN x ELSE certs[t]
  BY <1>1, <1>3
<1>5. Serials' = Serials
  BY <1>4 DEF Serials
<1>6. ASSUME NEW t \in Serials
      PROVE /\ certs'[t].key = certs[t].key /\ certs'[t].late = certs[t].late
            /\ Live(t)' => Live(t)
  <2>1. t \in 1..Len(certs)
    BY DEF Serials
  <2>2. t # None
    BY <2>1, EnrollmentConstants
  <2>3. certs'[t].key = certs[t].key /\ certs'[t].late = certs[t].late
    BY <1>3, <1>4, <2>1
  <2>4. certs'[t].age # "expired" /\ ~certs'[t].revoked
          => certs[t].age # "expired" /\ ~certs[t].revoked
    BY <1>3, <1>4, <2>1
  <2>. QED
    BY <2>2, <2>3, <2>4 DEF Live, ValidNow
<1>. QED
  BY <1>4, <1>5, <1>6

-----------------------------------------------------------------------------
(* Requests.                                                               *)

Sending(c) ==
  [req[c] EXCEPT !.pc = "sent", !.ans = None, !.cert = Presentable(bundle),
                 !.usable = FALSE, !.sends = @ + 1]

Refreshing(c) ==
  [req[c] EXCEPT !.pc = "token", !.ans = None, !.cert = None, !.refreshed = TRUE]

Within(r) ==
  /\ r.pc = "token" => r.exchanges <= Of(r.refreshed) /\ r.sends <= 2 * Of(r.refreshed)
  /\ r.pc = "exchanging" =>
       r.exchanges <= Of(r.refreshed) + 1 /\ r.sends <= 2 * Of(r.refreshed)
  /\ r.pc \in Enrolling \cup {"ensure"} =>
       /\ r.exchanges <= Of(r.refreshed) + 1
       /\ r.sends <= 2 * Of(r.refreshed) + Of(r.again)
  /\ r.pc = "sent" =>
       /\ r.exchanges <= Of(r.refreshed) + 1
       /\ r.sends <= 2 * Of(r.refreshed) + Of(r.again) + 1
  /\ r.pc \in {"idle", "ok"} => r.exchanges = 0 /\ r.sends = 0

\* n is a request of its kind and, if the budget was kept, keeps it.
Fits(c, n) ==
  /\ n \in Requests
  /\ n.pc = "exchanging" => n.ans \in {None, "failed", "valid", "stale"}
  /\ n.pc \in {"idle", "ok", "token", "ensure"} => n.ans = None
  /\ Within(req[c]) => Within(n)

\* What a request is, field by field.
LEMMA RequestFields ==
  ASSUME TypeOK, NEW c \in Callers
  PROVE  /\ req[c] \in Requests /\ req[c].cert \in Serials \cup {None}
         /\ req[c].sends \in Nat /\ req[c].exchanges \in Nat
         /\ Of(req[c].refreshed) \in {0, 1} /\ Of(req[c].again) \in {0, 1}
         /\ Presentable(bundle) \in Serials \cup {None}
         /\ Serials \subseteq Nat
BY DEF TypeOK, Requests, Of, Presentable, Serials

\* A request that ends, leaves for the server, or waits for another token keeps
\* its budget.
LEMMA EndFits ==
  ASSUME NEW c \in Callers, NEW outcome \in {"idle", "ok"}
  PROVE  /\ Fits(c, [Idle EXCEPT !.pc = outcome]) /\ [Idle EXCEPT !.pc = outcome].cert = None
         /\ [Idle EXCEPT !.pc = outcome].pc = outcome
BY DEF Fits, Requests, Idle, InFlight, Within, Enrolling, Answers

\* A request that leaves presents a certificate there is, and keeps its budget.
LEMMA SendFits ==
  ASSUME TypeOK, NEW c \in Callers, req[c].pc \in Enrolling \cup {"ensure"}
  PROVE  /\ Fits(c, Sending(c)) /\ Sending(c).cert \in Serials \cup {None}
         /\ Sending(c).pc = "sent"
<1>1. /\ Sending(c) \in Requests
      /\ Sending(c).pc = "sent" /\ Sending(c).cert \in Serials \cup {None}
      /\ Sending(c).sends = req[c].sends + 1 /\ Sending(c).exchanges = req[c].exchanges
      /\ Sending(c).refreshed = req[c].refreshed /\ Sending(c).again = req[c].again
  <2>1. /\ req[c] \in Requests /\ Presentable(bundle) \in Serials \cup {None}
        /\ Presentable(bundle) \in Nat \cup {None} /\ req[c].sends + 1 \in Nat
    BY RequestFields
  <2>2. Sending(c) \in Requests
    <3> DEFINE p == Presentable(bundle)
               q == req[c].sends + 1
    <3>1. p \in Nat \cup {None} /\ q \in Nat
      BY <2>1
    <3>2. Sending(c) = [req[c] EXCEPT !.pc = "sent", !.ans = None, !.cert = p,
                                      !.usable = FALSE, !.sends = q]
      BY DEF Sending
    <3>. HIDE DEF p, q
    <3>. QED
      BY <2>1, <3>1, <3>2 DEF Requests, InFlight
  <2>. QED
    BY <2>1, <2>2 DEF Sending, Requests
<1>2. /\ req[c].sends \in Nat /\ req[c].exchanges \in Nat
      /\ Of(req[c].refreshed) \in {0, 1} /\ Of(req[c].again) \in {0, 1}
  BY RequestFields
<1>3. Within(req[c]) => Within(Sending(c))
  BY <1>1, <1>2 DEF Within, Enrolling
<1>. QED
  BY <1>1, <1>3 DEF Fits

\* A request that refreshes its token for the first time keeps its budget.
LEMMA RefreshFits ==
  ASSUME TypeOK, NEW c \in Callers, req[c].pc \in Enrolling \cup {"sent"}, ~req[c].refreshed
  PROVE  /\ Fits(c, Refreshing(c)) /\ Refreshing(c).cert = None
         /\ Refreshing(c).pc = "token"
<1>1. /\ Refreshing(c) \in Requests
      /\ Refreshing(c).pc = "token" /\ Refreshing(c).cert = None /\ Refreshing(c).ans = None
      /\ Refreshing(c).sends = req[c].sends /\ Refreshing(c).exchanges = req[c].exchanges
      /\ Refreshing(c).refreshed = TRUE /\ Refreshing(c).again = req[c].again
  BY RequestFields DEF Refreshing, Requests, InFlight
<1>. QED
  BY <1>1, RequestFields DEF Fits, Within, Of, Enrolling

\* A failed enrollment ends the request, sends it with the identity there is, or
\* gets another token; it gives the lock back.
LEMMA FailMove ==
  ASSUME TypeOK, NEW c \in Callers, NEW error, EnrollFails(c, error), req[c].pc \in Enrolling
  PROVE  /\ holder' = None /\ backoff' \in BOOLEAN
         /\ \E n : /\ Step(c, n) /\ Fits(c, n) /\ n.cert \in Serials \cup {None}
                   /\ n.pc \in {"idle", "token", "sent"}
<1>1. CASE Step(c, [Idle EXCEPT !.pc = "idle"])
  BY <1>1, EndFits DEF EnrollFails
<1>2. CASE Step(c, Sending(c))
  BY <1>2, SendFits DEF EnrollFails
<1>3. CASE ~req[c].refreshed /\ Step(c, Refreshing(c))
  BY <1>3, RefreshFits DEF EnrollFails
<1>. QED
  BY <1>1, <1>2, <1>3 DEF EnrollFails, RefreshOnce, Send, Sending, Refreshing, Fail, End

-----------------------------------------------------------------------------
(* How a request moves.                                                   *)

\* The latest live certificate of a key is one of them.
LEMMA LatestCertified ==
  ASSUME TypeOK, NEW k, Certified(k) # {}
  PROVE  Max(Certified(k)) \in Serials /\ Max(Certified(k)) \in Certified(k)
<1>1. Len(certs) \in Nat
  BY DEF TypeOK
<1>2. Certified(k) \in SUBSET (0..Len(certs))
  BY <1>1 DEF Certified, Serials
<1>. QED
  BY <1>1, <1>2, MaxInSet DEF Certified

\* Appending adds one serial.
LEMMA LenAppend ==
  ASSUME NEW S, NEW q \in Seq(S), NEW x
  PROVE  Len(q) + 1 \in 1..Len(Append(q, x))
OBVIOUS

\* What a caller, or the server's answer to it, does to its request.
LEMMA Moves ==
  ASSUME TypeOK, NEW c \in Callers,
         \/ Begin(c) \/ Exchange(c) \/ Exchanged(c) \/ EnsureCurrent(c) \/ Enroll(c)
         \/ EnrollUnwritten(c) \/ RecoverAbsent(c) \/ NoIssuer(c) \/ RequestRefused(c)
         \/ Publish(c) \/ Finish(c) \/ FinishFails(c) \/ RecoverCertificate(c) \/ Complete(c)
         \/ ServerAnswers(c) \/ Drop(c)
  PROVE  \E n : Step(c, n) /\ Fits(c, n) /\ n.cert \in Serials' \cup {None}
<1>1. CASE Begin(c)
  <2> DEFINE p == IF token # "none" /\ ~due THEN "ensure" ELSE "token"
             n == [Idle EXCEPT !.pc = p, !.tok = token]
  <2>1. Step(c, n) /\ UNCHANGED certs
    BY <1>1 DEF Begin, server
  <2>2. p \in {"ensure", "token"} /\ token \in {"none", "valid", "stale"}
    BY DEF TypeOK
  <2>. HIDE DEF p
  <2>3. /\ n \in Requests /\ n.pc = p /\ n.ans = None /\ n.cert = None
        /\ n.sends = 0 /\ n.exchanges = 0 /\ n.refreshed = FALSE /\ n.again = FALSE
    BY <2>2 DEF Idle, Requests, InFlight
  <2>. HIDE DEF n
  <2>4. Fits(c, n)
    BY <2>2, <2>3 DEF Fits, Within, Of, Enrolling
  <2>. QED
    BY <2>1, <2>3, <2>4
<1>2. CASE Exchange(c)
  <2> DEFINE n == [req[c] EXCEPT !.pc = "exchanging", !.exchanges = @ + 1]
  <2>1. Step(c, n) /\ UNCHANGED certs
    BY <1>2 DEF Exchange, server, disk, Answer, Issued
  <2>2. req[c].pc = "token" /\ req[c].ans = None
    BY <1>2 DEF Exchange, TypeOK
  <2>3. n \in Requests
    <3> DEFINE q == req[c].exchanges + 1
    <3>1. q \in Nat /\ n = [req[c] EXCEPT !.pc = "exchanging", !.exchanges = q]
      BY RequestFields
    <3>. HIDE DEF n, q
    <3>. QED
      BY <3>1, RequestFields DEF Requests, InFlight
  <2>4. /\ n.pc = "exchanging" /\ n.refreshed = req[c].refreshed /\ n.again = req[c].again
        /\ n.cert = req[c].cert /\ n.ans = req[c].ans
        /\ n.sends = req[c].sends /\ n.exchanges = req[c].exchanges + 1
    BY RequestFields DEF Requests
  <2>. HIDE DEF n
  <2>5. Fits(c, n)
    BY <2>2, <2>3, <2>4, RequestFields DEF Fits, Within, Of, Enrolling
  <2>. QED
    BY <2>1, <2>2, <2>4, <2>5, RequestFields DEF Serials
<1>3. CASE Exchanged(c)
  <2>1. CASE Fail(c)
    BY <2>1, EndFits DEF Fail, End
  <2>2. CASE req[c].ans # "failed"
    <3> DEFINE n == [req[c] EXCEPT !.pc = "ensure", !.tok = req[c].ans, !.ans = None, !.again = FALSE]
    <3>1. Step(c, n) /\ UNCHANGED certs
      BY <1>3, <2>2 DEF Exchanged, server, disk, Answer, Issued
    <3>2. req[c].pc = "exchanging" /\ req[c].ans \in {"valid", "stale"}
      BY <1>3, <2>2 DEF Exchanged, TypeOK
    <3>3. n \in Requests
      BY ZenonT(60), <3>2, RequestFields DEF Requests, InFlight, Answers
    <3>4. /\ n.pc = "ensure" /\ n.refreshed = req[c].refreshed /\ n.again = FALSE
          /\ n.cert = req[c].cert /\ n.ans = None
          /\ n.sends = req[c].sends /\ n.exchanges = req[c].exchanges
      BY RequestFields DEF Requests
    <3>. HIDE DEF n
    <3>5. Fits(c, n)
      BY <3>2, <3>3, <3>4, RequestFields DEF Fits, Within, Of, Enrolling
    <3>. QED
      BY <3>1, <3>2, <3>4, <3>5, RequestFields DEF Serials
  <2>. QED
    BY <1>3, <2>1, <2>2 DEF Exchanged
<1>4. CASE EnsureCurrent(c)
  <2>1. CASE Fail(c)
    BY <2>1, EndFits DEF Fail, End
  <2>2. CASE Send(c)
    <3>1. Step(c, Sending(c)) /\ UNCHANGED certs
      BY <1>4, <2>2 DEF Send, Sending, EnsureCurrent, server
    <3>2. req[c].pc \in Enrolling \cup {"ensure"}
      BY <1>4 DEF EnsureCurrent, Enrolling
    <3>. QED
      BY <3>1, <3>2, SendFits DEF Serials
  <2>. QED
    BY <1>4, <2>1, <2>2 DEF EnsureCurrent
<1>5. CASE Enroll(c)
  <2> DEFINE p == FirstRequest(pending)
             u == ValidNow(bundle)
             n == [req[c] EXCEPT !.pc = p, !.usable = u]
  <2>1. Step(c, n) /\ UNCHANGED certs
    BY <1>5 DEF Enroll, server
  <2>2. req[c].pc = "ensure" /\ req[c].ans = None /\ p \in {"recover", "issue"} /\ u \in BOOLEAN
    BY <1>5 DEF Enroll, TypeOK, FirstRequest, ValidNow
  <2>. HIDE DEF p, u
  <2>3. n \in Requests
    BY ZenonT(60), <2>2, RequestFields DEF Requests, InFlight
  <2>4. /\ n.pc = p /\ n.refreshed = req[c].refreshed /\ n.again = req[c].again
        /\ n.cert = req[c].cert /\ n.ans = req[c].ans
        /\ n.sends = req[c].sends /\ n.exchanges = req[c].exchanges
    BY RequestFields DEF Requests
  <2>. HIDE DEF n
  <2>5. Fits(c, n)
    BY <2>2, <2>3, <2>4, RequestFields DEF Fits, Within, Of, Enrolling
  <2>. QED
    BY <2>1, <2>4, <2>5, RequestFields DEF Serials
<1>6. CASE EnrollUnwritten(c)
  <2>1. CASE Fail(c)
    BY <2>1, EndFits DEF Fail, End
  <2>2. CASE Send(c)
    <3>1. Step(c, Sending(c)) /\ UNCHANGED certs
      BY <1>6, <2>2 DEF Send, Sending, EnrollUnwritten, server
    <3>2. req[c].pc \in Enrolling \cup {"ensure"}
      BY <1>6 DEF EnrollUnwritten, Enrolling
    <3>. QED
      BY <3>1, <3>2, SendFits DEF Serials
  <2>. QED
    BY <1>6, <2>1, <2>2 DEF EnrollUnwritten
<1>7. CASE RecoverAbsent(c)
  <2> DEFINE n == [req[c] EXCEPT !.pc = "issue", !.ans = None]
  <2>1. Step(c, n) /\ UNCHANGED certs
    BY <1>7 DEF RecoverAbsent, server, disk, Answer, Issued
  <2>2. req[c].pc = "recover"
    BY <1>7 DEF RecoverAbsent, TypeOK
  <2>3. n \in Requests
    BY ZenonT(60), <2>2, RequestFields DEF Requests, InFlight, Answers
  <2>4. /\ n.pc = "issue" /\ n.refreshed = req[c].refreshed /\ n.again = req[c].again
        /\ n.cert = req[c].cert /\ n.ans = None
        /\ n.sends = req[c].sends /\ n.exchanges = req[c].exchanges
    BY RequestFields DEF Requests
  <2>. HIDE DEF n
  <2>5. Fits(c, n)
    BY <2>2, <2>3, <2>4, RequestFields DEF Fits, Within, Of, Enrolling
  <2>. QED
    BY <2>1, <2>2, <2>4, <2>5, RequestFields DEF Serials
<1>8. CASE NoIssuer(c)
  <2>1. CASE Fail(c)
    BY <2>1, EndFits DEF Fail, End
  <2>2. CASE Send(c)
    <3>1. Step(c, Sending(c)) /\ UNCHANGED certs
      BY <1>8, <2>2 DEF Send, Sending, NoIssuer, server
    <3>2. req[c].pc \in Enrolling \cup {"ensure"}
      BY <1>8 DEF NoIssuer, Enrolling
    <3>. QED
      BY <3>1, <3>2, SendFits DEF Serials
  <2>. QED
    BY <1>8, <2>1, <2>2 DEF NoIssuer
<1>9. CASE RequestRefused(c)
  <2>1. PICK error : EnrollFails(c, error)
    BY <1>9 DEF RequestRefused
  <2>2. req[c].pc \in Enrolling /\ UNCHANGED certs
    BY <1>9 DEF RequestRefused, Enrolling, server
  <2>. QED
    BY <2>1, <2>2, FailMove DEF Serials
<1>10. CASE Publish(c)
  <2>1. CASE EnrollFails(c, "failed")
    <3>1. req[c].pc \in Enrolling /\ UNCHANGED certs
      BY <1>10 DEF Publish, Enrolling, server
    <3>. QED
      BY <2>1, <3>1, FailMove DEF Serials
  <2>2. CASE ~EnrollFails(c, "failed")
    <3> DEFINE n == [req[c] EXCEPT !.pc = "publish"]
    <3>1. Step(c, n) /\ UNCHANGED certs
      BY <1>10, <2>2 DEF Publish, server, disk, Answer, Issued
    <3>2. req[c].pc \in {"recover", "issue"} /\ req[c].ans = "issued"
      BY <1>10, <2>2 DEF Publish, TypeOK
    <3>3. n \in Requests
      BY <3>2, RequestFields DEF Requests, InFlight, Answers
    <3>4. /\ n.pc = "publish" /\ n.refreshed = req[c].refreshed /\ n.again = req[c].again
          /\ n.cert = req[c].cert /\ n.ans = req[c].ans
          /\ n.sends = req[c].sends /\ n.exchanges = req[c].exchanges
      BY RequestFields DEF Requests
    <3>. HIDE DEF n
    <3>5. Fits(c, n)
      BY <3>2, <3>3, <3>4, RequestFields DEF Fits, Within, Of, Enrolling
    <3>. QED
      BY <3>1, <3>2, <3>4, <3>5, RequestFields DEF Serials
  <2>. QED
    BY <2>1, <2>2
<1>11. CASE Finish(c)
  <2> DEFINE n == [req[c] EXCEPT !.pc = "sent", !.ans = None, !.usable = FALSE, !.sends = @ + 1]
  <2>1. Step(c, n) /\ UNCHANGED certs
    BY <1>11 DEF Finish, server, disk, Answer, Issued
  <2>2. req[c].pc = "publish"
    BY <1>11 DEF Finish, TypeOK
  <2>3. n \in Requests
    <3> DEFINE q == req[c].sends + 1
    <3>1. q \in Nat /\ n = [req[c] EXCEPT !.pc = "sent", !.ans = None, !.usable = FALSE, !.sends = q]
      BY RequestFields
    <3>. HIDE DEF n, q
    <3>. QED
      BY <3>1, RequestFields DEF Requests, InFlight
  <2>4. /\ n.pc = "sent" /\ n.refreshed = req[c].refreshed /\ n.again = req[c].again
        /\ n.cert = req[c].cert /\ n.ans = None
        /\ n.sends = req[c].sends + 1 /\ n.exchanges = req[c].exchanges
    BY RequestFields DEF Requests
  <2>. HIDE DEF n
  <2>5. Fits(c, n)
    BY <2>2, <2>3, <2>4, RequestFields DEF Fits, Within, Of, Enrolling
  <2>. QED
    BY <2>1, <2>2, <2>4, <2>5, RequestFields DEF Serials
<1>12. CASE FinishFails(c)
  <2>1. EnrollFails(c, "failed")
    BY <1>12 DEF FinishFails
  <2>2. req[c].pc \in Enrolling /\ UNCHANGED certs
    BY <1>12 DEF FinishFails, Enrolling, server
  <2>. QED
    BY <2>1, <2>2, FailMove DEF Serials
<1>13. CASE RecoverCertificate(c)
  <2> DEFINE n == [req[c] EXCEPT !.pc = "ensure", !.again = TRUE, !.ans = None, !.cert = None]
  <2>1. Step(c, n) /\ UNCHANGED certs
    BY <1>13 DEF RecoverCertificate, server, disk, Answer, Issued
  <2>2. req[c].pc = "sent" /\ ~req[c].again
    BY <1>13 DEF RecoverCertificate, TypeOK
  <2>3. n \in Requests
    BY ZenonT(60), <2>2, RequestFields DEF Requests, InFlight, Answers
  <2>4. /\ n.pc = "ensure" /\ n.refreshed = req[c].refreshed /\ n.again = TRUE
        /\ n.cert = None /\ n.ans = None
        /\ n.sends = req[c].sends /\ n.exchanges = req[c].exchanges
    BY RequestFields DEF Requests
  <2>. HIDE DEF n
  <2>5. Fits(c, n)
    BY <2>2, <2>3, <2>4, RequestFields DEF Fits, Within, Of, Enrolling
  <2>. QED
    BY <2>1, <2>2, <2>4, <2>5, RequestFields DEF Serials
<1>14. CASE Complete(c)
  <2>. UNCHANGED certs /\ req[c].pc \in Enrolling \cup {"sent"}
    BY <1>14 DEF Complete, server
  <2>1. CASE End(c, "ok") \/ End(c, "idle")
    BY <2>1, EndFits DEF End, Serials
  <2>2. CASE ~req[c].refreshed /\ Step(c, Refreshing(c))
    BY <2>2, RefreshFits DEF Serials
  <2>. QED
    BY <1>14, <2>1, <2>2 DEF Complete, Fail, RefreshOnce, Refreshing
<1>15. CASE ServerAnswers(c)
  <2>1. ASSUME NEW a \in Answers, Answer(c, a), req[c].pc \in InFlight, UNCHANGED certs,
               req[c].pc = "exchanging" => a = "valid"
        PROVE  \E n : Step(c, n) /\ Fits(c, n) /\ n.cert \in Serials' \cup {None}
    <3> DEFINE n == [req[c] EXCEPT !.ans = a]
    <3>1. Step(c, n) /\ UNCHANGED certs
      BY <2>1 DEF Answer, server, disk, Answer, Issued
    <3>2. req[c].pc \in InFlight /\ (req[c].pc = "exchanging" => a = "valid")
      BY <2>1 DEF Answer, TypeOK
    <3>3. n \in Requests
      BY <3>2, RequestFields DEF Requests, InFlight, Answers
    <3>4. /\ n.pc = req[c].pc /\ n.refreshed = req[c].refreshed /\ n.again = req[c].again
          /\ n.cert = req[c].cert /\ n.ans = a
          /\ n.sends = req[c].sends /\ n.exchanges = req[c].exchanges
      BY RequestFields DEF Requests
    <3>. HIDE DEF n
    <3>5. Fits(c, n)
      BY <3>2, <3>3, <3>4, RequestFields DEF Fits, Within, Of, Enrolling, InFlight
    <3>. QED
      BY <3>1, <3>2, <3>4, <3>5, RequestFields DEF Serials
  <2>2. ASSUME NEW s \in Serials', s \in Nat, Issued(c, s), req[c].pc \in {"recover", "issue"}
        PROVE  \E n : Step(c, n) /\ Fits(c, n) /\ n.cert \in Serials' \cup {None}
    <3> DEFINE n == [req[c] EXCEPT !.ans = "issued", !.cert = s]
    <3>1. Step(c, n) /\ s \in Serials'
      BY <2>2 DEF Issued, server, disk, Answer, Issued
    <3>2. req[c].pc \in {"recover", "issue"} /\ s \in Nat
      BY <2>2 DEF Issued, TypeOK
    <3>3. n \in Requests
      BY ZenonT(60), <3>2, RequestFields DEF Requests, InFlight, Answers
    <3>4. /\ n.pc = req[c].pc /\ n.refreshed = req[c].refreshed /\ n.again = req[c].again
          /\ n.cert = s /\ n.ans = "issued"
          /\ n.sends = req[c].sends /\ n.exchanges = req[c].exchanges
      BY RequestFields DEF Requests
    <3>. HIDE DEF n
    <3>5. Fits(c, n)
      BY <3>2, <3>3, <3>4, RequestFields DEF Fits, Within, Of, Enrolling
    <3>. QED
      BY <3>1, <3>2, <3>4, <3>5, RequestFields DEF Serials
  <2>3. CASE AnswerExchange(c)
    BY <2>1, <2>3 DEF AnswerExchange, InFlight, Answers
  <2>4. CASE AnswerProtected(c)
    BY <2>1, <2>4 DEF AnswerProtected, InFlight, Answers
  <2>5. CASE AnswerRefused(c)
    BY <2>1, <2>5 DEF AnswerRefused, InFlight, Answers
  <2>6. CASE Answer(c, "absent") /\ UNCHANGED certs /\ req[c].pc = "recover"
    BY <2>1, <2>6 DEF InFlight, Answers
  <2>7. CASE req[c].pc = "recover" /\ Issued(c, Max(Certified(pending))) /\ UNCHANGED certs
             /\ Certified(pending) # {}
    <3>1. Max(Certified(pending)) \in Serials /\ Max(Certified(pending)) \in Nat
      BY <2>7, LatestCertified, RequestFields
    <3>. QED
      BY <2>2, <2>7, <3>1 DEF Serials
  <2>8. CASE req[c].pc = "issue" /\ Certify(pending, FALSE) /\ Issued(c, Len(certs) + 1)
    <3>1. Len(certs) + 1 \in Serials' /\ Len(certs) + 1 \in Nat
      <4>1. certs' = Append(certs, [key |-> pending, age |-> "fresh", revoked |-> FALSE, late |-> FALSE])
        BY <2>8 DEF Certify
      <4>2. certs \in Seq(Certificates)
        BY DEF TypeOK
      <4>. QED
        BY <4>1, <4>2, LenAppend DEF Serials
    <3>. QED
      BY <2>2, <2>8, <3>1
  <2>. QED
    BY <1>15, <2>3, <2>4, <2>5, <2>6, <2>7, <2>8 DEF ServerAnswers, AnswerEnrollment
<1>16. CASE Drop(c)
  <2> DEFINE n == [req[c] EXCEPT !.ans = "failed"]
  <2>1. Step(c, n) /\ UNCHANGED certs
    BY <1>16 DEF Drop, server, disk, Answer, Issued, InFlight
  <2>2. req[c].pc \in InFlight
    BY <1>16 DEF Drop, TypeOK
  <2>3. n \in Requests
    BY <2>2, RequestFields DEF Requests, InFlight, Answers
  <2>4. /\ n.pc = req[c].pc /\ n.refreshed = req[c].refreshed /\ n.again = req[c].again
        /\ n.cert = req[c].cert /\ n.ans = "failed"
        /\ n.sends = req[c].sends /\ n.exchanges = req[c].exchanges
    BY RequestFields DEF Requests
  <2>. HIDE DEF n
  <2>5. Fits(c, n)
    BY <2>2, <2>3, <2>4, RequestFields DEF Fits, Within, Of, Enrolling, InFlight
  <2>. QED
    BY <2>1, <2>2, <2>4, <2>5, RequestFields DEF Serials
<1>. QED
  BY <1>1, <1>2, <1>3, <1>4, <1>5, <1>6, <1>7, <1>8, <1>9, <1>10,
     <1>11, <1>12, <1>13, <1>14, <1>15, <1>16

-----------------------------------------------------------------------------
(* Types.                                                                  *)

CallerStep(c) ==
  \/ Begin(c) \/ Exchange(c) \/ Exchanged(c) \/ EnsureCurrent(c) \/ Enroll(c)
  \/ EnrollUnwritten(c) \/ RecoverAbsent(c) \/ NoIssuer(c) \/ RequestRefused(c)
  \/ Publish(c) \/ Finish(c) \/ FinishFails(c) \/ RecoverCertificate(c) \/ Complete(c)
  \/ ServerAnswers(c) \/ Drop(c)

\* Every step is one of a caller, one that leaves the requests alone, a restart
\* or a revocation of tokens.
LEMMA StepCases ==
  ASSUME [Next]_vars
  PROVE  \/ \E c \in Callers : CallerStep(c)
         \/ \E k \in late : LateIssue(k)
         \/ \E s \in Serials : Age(s) \/ Revoke(s)
         \/ BackoffEnds \/ Restart \/ Unlock \/ RevokeTokens \/ TokenDue \/ Upgrade
         \/ UNCHANGED vars
BY DEF Next, Locking, Running, CallerStep

\* An enrollment in progress has a pending key.
LEMMA PendingKey ==
  ASSUME TypeOK, LockOK, NEW c \in Callers, req[c].pc \in Enrolling
  PROVE  pending \in Keys /\ pending # None /\ holder = c
BY EnrollmentConstants DEF TypeOK, LockOK, Keys

\* What happens to the certificates: the server answers a submission or sees one
\* late, they age, or are revoked.
LEMMA CertChange ==
  ASSUME TypeOK, LockOK, [Next]_vars
  PROVE  \/ UNCHANGED certs
         \/ \E k \in late : LateIssue(k) /\ mode # "token_only" /\ Certify(k, TRUE)
         \/ \E c \in Callers : /\ ServerAnswers(c) /\ req[c].pc = "issue" /\ req[c].ans = None
                               /\ mode # "token_only" /\ Certify(pending, FALSE)
         \/ \E s \in Serials : Age(s) \/ Revoke(s)
<1>1. ASSUME NEW c \in Callers, CallerStep(c)
      PROVE  \/ UNCHANGED certs
             \/ /\ ServerAnswers(c) /\ req[c].pc = "issue" /\ req[c].ans = None
                /\ mode # "token_only" /\ Certify(pending, FALSE)
  <2>1. CASE ServerAnswers(c)
    BY <2>1 DEF ServerAnswers, AnswerEnrollment, AnswerExchange, AnswerProtected, AnswerRefused
  <2>2. CASE ~ServerAnswers(c)
    BY <1>1, <2>2 DEF CallerStep, Begin, Exchange, Exchanged, EnsureCurrent, Enroll,
       EnrollUnwritten,
       RecoverAbsent, NoIssuer, RequestRefused, Publish, Finish, FinishFails, RecoverCertificate,
       Complete, Drop, server
  <2>. QED
    BY <2>1, <2>2
<1>2. ASSUME NEW k \in late, LateIssue(k)
      PROVE  UNCHANGED certs \/ (mode # "token_only" /\ Certify(k, TRUE))
  BY <1>2 DEF LateIssue
<1>3. BackoffEnds \/ Restart \/ Unlock \/ RevokeTokens \/ TokenDue \/ Upgrade \/ UNCHANGED vars
        => UNCHANGED certs
  BY DEF BackoffEnds, Restart, Unlock, RevokeTokens, TokenDue, Upgrade, vars, server
<1>. QED
  BY <1>1, <1>2, <1>3, StepCases

\* Certificates keep their serials, keys and origins, and none is revived.
LEMMA CertsStep ==
  ASSUME TypeOK, LockOK, [Next]_vars
  PROVE  /\ certs' \in Seq(Certificates) /\ Serials \subseteq Serials'
         /\ \A s \in Serials : /\ certs'[s].key = certs[s].key
                               /\ certs'[s].late = certs[s].late
                               /\ Live(s)' => Live(s)
         /\ \A s \in Serials' : s \notin Serials => certs'[s].key \in Keys
<1>0. certs \in Seq(Certificates) /\ late \subseteq Keys
  BY DEF TypeOK
<1>1. CASE UNCHANGED certs
  BY <1>0, <1>1 DEF Serials, Live, ValidNow
<1>2. ASSUME NEW k \in Keys, NEW isLate \in BOOLEAN, Certify(k, isLate)
      PROVE  /\ certs' \in Seq(Certificates) /\ Serials \subseteq Serials'
             /\ \A s \in Serials : /\ certs'[s].key = certs[s].key
                                   /\ certs'[s].late = certs[s].late
                                   /\ Live(s)' => Live(s)
             /\ \A s \in Serials' : s \notin Serials => certs'[s].key \in Keys
  <2>1. /\ certs' \in Seq(Certificates)
        /\ Serials' = Serials \cup {Len(certs) + 1}
        /\ \A s \in Serials : certs'[s] = certs[s]
        /\ certs'[Len(certs) + 1] = [key |-> k, age |-> "fresh", revoked |-> FALSE, late |-> isLate]
    BY <1>2, CertifyEffect
  <2>3. certs'[Len(certs) + 1].key = k
    BY <2>1
  <2>2. \A s \in Serials : Live(s)' => Live(s)
    BY <2>1 DEF Live, ValidNow
  <2>. QED
    BY <2>1, <2>2, <2>3
<1>3. CASE \E c \in Callers : req[c].pc = "issue" /\ Certify(pending, FALSE)
  BY <1>2, <1>3, PendingKey DEF Enrolling
<1>4. CASE \E k \in late : Certify(k, TRUE)
  BY <1>0, <1>2, <1>4
<1>5. CASE \E s \in Serials : Age(s) \/ Revoke(s)
  BY <1>5, AgeEffect
<1>. QED
  BY <1>1, <1>3, <1>4, <1>5, CertChange

\* Requests keep their kinds and their budgets.
LEMMA RequestsStep ==
  ASSUME TypeOK, LockOK, [Next]_vars
  PROVE  /\ req' \in [Callers -> Requests]
         /\ \A c \in Callers :
              /\ req'[c].cert \in Serials' \cup {None}
              /\ req'[c].pc = "exchanging" => req'[c].ans \in {None, "failed", "valid", "stale"}
              /\ req'[c].pc \in {"idle", "ok", "token", "ensure"} => req'[c].ans = None
              /\ Within(req[c]) => Within(req'[c])
<1>0. req \in [Callers -> Requests] /\ Serials \subseteq Serials'
  BY CertsStep DEF TypeOK
<1>1. ASSUME NEW c \in Callers, CallerStep(c)
      PROVE  /\ req' \in [Callers -> Requests]
             /\ \A t \in Callers :
                  /\ req'[t].cert \in Serials' \cup {None}
                  /\ req'[t].pc = "exchanging" => req'[t].ans \in {None, "failed", "valid", "stale"}
                  /\ req'[t].pc \in {"idle", "ok", "token", "ensure"} => req'[t].ans = None
                  /\ Within(req[t]) => Within(req'[t])
  <2>1. PICK n : Step(c, n) /\ Fits(c, n) /\ n.cert \in Serials' \cup {None}
    BY <1>1, Moves DEF CallerStep
  <2>2. req' \in [Callers -> Requests] /\ \A t \in Callers : req'[t] = IF t = c THEN n ELSE req[t]
    BY <1>0, <2>1 DEF Step, Fits
  <2>. QED
    BY <1>0, <2>1, <2>2 DEF Fits, TypeOK
<1>2. CASE UNCHANGED req
  BY <1>0, <1>2 DEF TypeOK
<1>3. CASE Restart
  <2>1. Idle \in Requests /\ Idle.cert = None /\ Idle.ans = None /\ Idle.pc = "idle" /\ Within(Idle)
    BY DEF Idle, Requests, InFlight, Within, Enrolling
  <2>2. req' = [c \in Callers |-> Idle]
    BY <1>3 DEF Restart
  <2>. QED
    BY <2>1, <2>2
<1>4. CASE RevokeTokens
  <2>1. req' = [c \in Callers |-> [req[c] EXCEPT !.tok = Stale(@), !.ans = Stale(@)]]
    BY <1>4 DEF RevokeTokens
  <2>2. ASSUME NEW c \in Callers
        PROVE  /\ req'[c] \in Requests /\ req'[c].pc = req[c].pc /\ req'[c].cert = req[c].cert
               /\ req'[c].ans = Stale(req[c].ans)
               /\ req'[c].sends = req[c].sends /\ req'[c].exchanges = req[c].exchanges
               /\ req'[c].refreshed = req[c].refreshed /\ req'[c].again = req[c].again
    <3> DEFINE u == Stale(req[c].tok)
               v == Stale(req[c].ans)
    <3>1. req[c] \in Requests
      BY <1>0
    <3>2. u \in {"none", "valid", "stale"} /\ v \in Answers \cup {None}
      BY <3>1 DEF Stale, Requests, Answers
    <3>3. req'[c] = [req[c] EXCEPT !.tok = u, !.ans = v]
      BY <2>1
    <3>. HIDE DEF u, v
    <3>4. /\ req'[c] \in Requests /\ req'[c].pc = req[c].pc /\ req'[c].cert = req[c].cert
          /\ req'[c].ans = v
          /\ req'[c].sends = req[c].sends /\ req'[c].exchanges = req[c].exchanges
          /\ req'[c].refreshed = req[c].refreshed /\ req'[c].again = req[c].again
      BY <3>1, <3>2, <3>3 DEF Requests
    <3>. QED
      BY <3>4 DEF v
  <2>3. req' \in [Callers -> Requests]
    BY <2>1, <2>2
  <2>4. None # "valid" /\ Stale(None) = None
    BY EnrollmentConstants DEF Answers, Stale
  <2>. QED
    BY <1>0, <2>2, <2>3, <2>4 DEF TypeOK, Within, Stale
<1>5. (\E k \in late : LateIssue(k)) \/ (\E s \in Serials : Age(s) \/ Revoke(s))
        \/ BackoffEnds \/ Unlock \/ TokenDue \/ Upgrade \/ UNCHANGED vars
      => UNCHANGED req
  BY DEF LateIssue, Age, Revoke, BackoffEnds, Unlock, TokenDue, Upgrade, vars
<1>. QED
  BY <1>1, <1>2, <1>3, <1>4, <1>5, StepCases

-----------------------------------------------------------------------------
-----------------------------------------------------------------------------
(* Types, continued.                                                       *)

\* The steps that change keys, in memory, on disk or under way.
LEMMA KeyCases ==
  ASSUME [Next]_vars
  PROVE  \/ UNCHANGED <<dPending, pending, dBundle, late, nextKey>> /\ bundle' \in {bundle, None}
         \/ \E c \in Callers : \/ Enroll(c) /\ pending = None
                               \/ EnrollUnwritten(c) \/ Publish(c) \/ Finish(c)
                               \/ FinishFails(c) \/ Drop(c)
         \/ \E k \in late : LateIssue(k)
         \/ Restart
<1> DEFINE Same == UNCHANGED <<dPending, pending, dBundle, late, nextKey>> /\ bundle' \in {bundle, None}
<1>. USE DEF server, disk, memory
<1>1. ASSUME NEW c \in Callers, Begin(c) \/ Exchange(c) \/ Exchanged(c) \/ EnsureCurrent(c)
      PROVE  Same
  BY <1>1 DEF Begin, Exchange, Exchanged, EnsureCurrent
<1>2. ASSUME NEW c \in Callers, RecoverAbsent(c) \/ NoIssuer(c) \/ RequestRefused(c)
      PROVE  Same
  BY <1>2 DEF RecoverAbsent, NoIssuer, RequestRefused
<1>3. ASSUME NEW c \in Callers, RecoverCertificate(c) \/ Complete(c) \/ ServerAnswers(c)
      PROVE  Same
  BY <1>3 DEF RecoverCertificate, Forget, Complete, ServerAnswers
<1>4. ASSUME NEW c \in Callers, Enroll(c), pending # None PROVE Same
  BY <1>4 DEF Enroll
<1>5. ASSUME NEW s \in Serials, Age(s) \/ Revoke(s) PROVE Same
  BY <1>5 DEF Age, Revoke
<1>6. BackoffEnds \/ Unlock \/ RevokeTokens \/ TokenDue \/ Upgrade \/ UNCHANGED vars => Same
  BY DEF BackoffEnds, Unlock, RevokeTokens, TokenDue, Upgrade, vars
<1>. QED
  BY <1>1, <1>2, <1>3, <1>4, <1>5, <1>6, StepCases DEF CallerStep

\* Keys are generated before they are kept, certificates issued before they are
\* in use.
LEMMA KeyTypes ==
  ASSUME TypeOK, LockOK, [Next]_vars
  PROVE  /\ nextKey' \in {nextKey, nextKey + 1} /\ Keys \subseteq Keys'
         /\ late' \subseteq Keys'
         /\ {dPending', pending'} \subseteq Keys' \cup {None}
         /\ {dBundle', bundle'} \subseteq Serials' \cup {None}
<1>0. /\ nextKey \in Nat \ {0} /\ late \subseteq Keys /\ Serials \subseteq Serials'
      /\ {dPending, pending} \subseteq Keys \cup {None}
      /\ {dBundle, bundle} \subseteq Serials \cup {None}
  BY CertsStep DEF TypeOK
<1>1. ASSUME nextKey' = nextKey PROVE Keys' = Keys
  BY <1>1 DEF Keys
<1>2. ASSUME nextKey' = nextKey + 1 PROVE Keys' = Keys \cup {nextKey}
  BY <1>0, <1>2 DEF Keys
<1>3. CASE UNCHANGED <<dPending, pending, dBundle, late, nextKey>> /\ bundle' \in {bundle, None}
  BY <1>0, <1>1, <1>3
<1>4. ASSUME NEW c \in Callers, Enroll(c), pending = None
      PROVE  /\ nextKey' = nextKey + 1 /\ late' = late
             /\ dPending' = nextKey /\ pending' = nextKey
             /\ dBundle' = dBundle /\ bundle' = bundle
  BY <1>4 DEF Enroll, KeepPending, server
<1>5. ASSUME NEW c \in Callers, EnrollUnwritten(c)
      PROVE  /\ nextKey' = nextKey + 1 /\ late' = late
             /\ dPending' \in {dPending, nextKey} /\ pending' = pending
             /\ dBundle' = dBundle /\ bundle' = bundle
  BY <1>5 DEF EnrollUnwritten, server
<1>6. ASSUME NEW c \in Callers, Publish(c)
      PROVE  /\ nextKey' = nextKey /\ late' = late
             /\ dPending' = dPending /\ pending' = pending
             /\ dBundle' \in {dBundle, req[c].cert} /\ bundle' = bundle
  BY <1>6 DEF Publish, server
<1>7. ASSUME NEW c \in Callers, Finish(c)
      PROVE  /\ nextKey' = nextKey /\ late' = late
             /\ dPending' = None /\ pending' = None
             /\ dBundle' = dBundle /\ bundle' = req[c].cert
  BY <1>7 DEF Finish, server
<1>8. ASSUME NEW c \in Callers, FinishFails(c)
      PROVE  /\ nextKey' = nextKey /\ late' = late
             /\ dPending' \in {dPending, None} /\ pending' = pending
             /\ dBundle' = dBundle /\ bundle' = bundle
  BY <1>8 DEF FinishFails, server
<1>9. ASSUME NEW c \in Callers, Drop(c)
      PROVE  /\ nextKey' = nextKey
             /\ late' = late \/ (late' = late \cup {pending} /\ pending \in Keys)
             /\ dPending' = dPending /\ pending' = pending
             /\ dBundle' = dBundle /\ bundle' = bundle
  BY <1>9, PendingKey DEF Drop, disk, memory, Enrolling
<1>10. ASSUME NEW k \in late, LateIssue(k)
       PROVE  /\ nextKey' = nextKey /\ late' = late \ {k}
              /\ dPending' = dPending /\ pending' = pending
              /\ dBundle' = dBundle /\ bundle' = bundle
  BY <1>10 DEF LateIssue, disk, memory
<1>11. ASSUME Restart
       PROVE  /\ nextKey' = nextKey
              /\ late' = late \/ (late' = late \cup {pending} /\ pending \in Keys)
              /\ dPending' = dPending /\ pending' = dPending
              /\ dBundle' = dBundle /\ bundle' = dBundle
  BY <1>11, PendingKey DEF Restart, disk, Enrolling
<1>12. \A c \in Callers : req[c].cert \in Serials \cup {None}
  BY DEF TypeOK
<1>. QED
  BY <1>0, <1>1, <1>2, <1>3, <1>4, <1>5, <1>6, <1>7, <1>8, <1>9, <1>10, <1>11, <1>12, KeyCases

-----------------------------------------------------------------------------
\* The lock is taken with a key pending and given back by the enrollment that
\* holds it.
LEMMA CallerLock ==
  ASSUME TypeOK, LockOK, NEW c \in Callers, CallerStep(c)
  PROVE  \/ UNCHANGED <<holder, pending>>
         \/ Enroll(c) /\ holder = None /\ holder' = c /\ pending' # None
         \/ holder = c /\ holder' = None /\ req[c].pc \in Enrolling
<1>. USE DEF memory
<1>1. CASE \/ Begin(c) \/ Exchange(c) \/ Exchanged(c) \/ EnsureCurrent(c) \/ EnrollUnwritten(c)
           \/ RecoverAbsent(c) \/ RecoverCertificate(c) \/ Complete(c) \/ ServerAnswers(c)
           \/ Drop(c)
  BY <1>1 DEF Begin, Exchange, Exchanged, EnsureCurrent, EnrollUnwritten, RecoverAbsent,
     RecoverCertificate, Complete, ServerAnswers, Drop
<1>2. CASE Enroll(c)
  BY <1>2, EnrollmentConstants DEF Enroll, KeepPending, TypeOK
<1>3. CASE RequestRefused(c) \/ NoIssuer(c) \/ Finish(c) \/ FinishFails(c)
  BY <1>3 DEF RequestRefused, NoIssuer, Finish, FinishFails, EnrollFails, LockOK, Enrolling
<1>4. CASE Publish(c)
  BY <1>4 DEF Publish, EnrollFails, LockOK, Enrolling
<1>. QED
  BY <1>1, <1>2, <1>3, <1>4 DEF CallerStep

\* The lock stays, is free, or is taken with a key pending.
LEMMA LockChange ==
  ASSUME TypeOK, LockOK, [Next]_vars
  PROVE  \/ UNCHANGED <<holder, pending>> \/ holder' = None
         \/ holder' \in Callers /\ pending' # None
<1>. USE DEF memory
<1>1. ASSUME NEW k \in late, LateIssue(k) PROVE UNCHANGED <<holder, pending>>
  BY <1>1 DEF LateIssue
<1>2. ASSUME NEW s \in Serials, Age(s) \/ Revoke(s) PROVE UNCHANGED <<holder, pending>>
  BY <1>2 DEF Age, Revoke
<1>3. BackoffEnds \/ Unlock \/ RevokeTokens \/ TokenDue \/ Upgrade \/ UNCHANGED vars
        => UNCHANGED <<holder, pending>>
  BY DEF BackoffEnds, Unlock, RevokeTokens, TokenDue, Upgrade, vars
<1>4. Restart => holder' = None
  BY DEF Restart
<1>. QED
  BY <1>1, <1>2, <1>3, <1>4, CallerLock, StepCases

\* The flags, the bound on troubles and the token keep their kinds.
LEMMA FlagTypes ==
  ASSUME TypeOK, LockOK, [Next]_vars
  PROVE  /\ mode' \in {"token_only", "optional", "required"}
         /\ locked' \in BOOLEAN /\ unavailable' \in BOOLEAN /\ backoff' \in BOOLEAN
         /\ due' \in BOOLEAN
         /\ token' \in {"none", "valid", "stale"}
<1> DEFINE Goal == /\ mode' \in {"token_only", "optional", "required"}
                   /\ locked' \in BOOLEAN /\ unavailable' \in BOOLEAN /\ backoff' \in BOOLEAN
                   /\ due' \in BOOLEAN
                   /\ token' \in {"none", "valid", "stale"}
<1>. USE DEF server, memory, tokens
<1>0. /\ mode \in {"token_only", "optional", "required"}
      /\ locked \in BOOLEAN /\ unavailable \in BOOLEAN /\ backoff \in BOOLEAN /\ due \in BOOLEAN
      /\ token \in {"none", "valid", "stale"}
  BY DEF TypeOK
<1>1. ASSUME NEW c \in Callers,
             \/ Begin(c) \/ Exchange(c) \/ EnsureCurrent(c) \/ EnrollUnwritten(c)
             \/ RecoverAbsent(c) \/ RecoverCertificate(c) \/ Complete(c) \/ ServerAnswers(c) \/ Drop(c)
      PROVE  Goal
  BY <1>0, <1>1 DEF Begin, Exchange, EnsureCurrent, EnrollUnwritten, RecoverAbsent,
     RecoverCertificate, Complete, ServerAnswers, Drop
<1>2. ASSUME NEW c \in Callers, Enroll(c) \/ NoIssuer(c) \/ Publish(c) \/ Finish(c)
      PROVE  Goal
  BY <1>0, <1>2 DEF Enroll, NoIssuer, Publish, Finish, EnrollFails
<1>3. ASSUME NEW c \in Callers, RequestRefused(c) \/ FinishFails(c)
      PROVE  Goal
  BY <1>0, <1>3 DEF RequestRefused, FinishFails, EnrollFails
<1>4. ASSUME NEW c \in Callers, Exchanged(c) PROVE Goal
  <2>1. req[c].ans \in {"failed", "valid", "stale"}
    BY <1>4 DEF Exchanged, TypeOK
  <2>. QED
    BY <1>0, <1>4, <2>1 DEF Exchanged
<1>5. ASSUME NEW k \in late, LateIssue(k) PROVE Goal
  BY <1>0, <1>5 DEF LateIssue
<1>6. ASSUME NEW s \in Serials, Age(s) \/ Revoke(s) PROVE Goal
  BY <1>0, <1>6 DEF Age, Revoke
<1>7. BackoffEnds \/ Restart \/ Unlock \/ RevokeTokens \/ TokenDue \/ Upgrade \/ UNCHANGED vars
        => Goal
  BY <1>0 DEF BackoffEnds, Restart, Unlock, RevokeTokens, TokenDue, Upgrade, Stale, vars
<1>. QED
  BY <1>1, <1>2, <1>3, <1>4, <1>5, <1>6, <1>7, StepCases DEF CallerStep

\* Troubles are used up one at a time.
LEMMA TroublesLeft ==
  ASSUME left \in Nat, [Next]_vars
  PROVE  left' = left \/ (left > 0 /\ left' = left - 1)
<1>. USE DEF Trouble
<1>1. ASSUME NEW c \in Callers, CallerStep(c) PROVE left' = left \/ Trouble
  BY <1>1 DEF CallerStep, Begin, Exchange, Exchanged, EnsureCurrent, Enroll, EnrollUnwritten,
     RecoverAbsent, NoIssuer, RequestRefused, Publish, Finish, FinishFails, RecoverCertificate,
     Complete, ServerAnswers, Drop
<1>2. ASSUME NEW k \in late, LateIssue(k) PROVE left' = left
  BY <1>2 DEF LateIssue
<1>3. ASSUME NEW s \in Serials, Age(s) \/ Revoke(s) PROVE left' = left \/ Trouble
  BY <1>3 DEF Age, Revoke
<1>4. BackoffEnds \/ Restart \/ Unlock \/ RevokeTokens \/ TokenDue \/ Upgrade \/ UNCHANGED vars
        => left' = left \/ Trouble
  BY DEF BackoffEnds, Restart, Unlock, RevokeTokens, TokenDue, Upgrade, vars
<1>. QED
  BY <1>1, <1>2, <1>3, <1>4, StepCases

\* Every variable keeps its kind, whatever step is taken.
LEMMA TypeStep ==
  ASSUME TypeOK, LockOK, [Next]_vars
  PROVE  TypeOK'
<1>1. nextKey' \in Nat \ {0} /\ left' \in 0..MaxTroubles
  <2>1. nextKey \in Nat \ {0} /\ left \in 0..MaxTroubles /\ left \in Nat
    BY EnrollmentConstants DEF TypeOK
  <2>. QED
    BY <2>1, EnrollmentConstants, KeyTypes, TroublesLeft
<1>2. \A s \in Serials' : certs'[s].key \in Keys'
  <2>1. \A s \in Serials : certs[s].key \in Keys
    BY DEF TypeOK
  <2>. QED
    BY <2>1, CertsStep, KeyTypes
<1>3. holder' \in Callers \cup {None} /\ (holder' # None => pending' # None)
  <2>1. holder \in Callers \cup {None} /\ (holder # None => pending # None)
    BY DEF TypeOK
  <2>. QED
    BY <2>1, LockChange
<1>. QED
  BY <1>1, <1>2, <1>3, CertsStep, RequestsStep, KeyTypes, FlagTypes DEF TypeOK

-----------------------------------------------------------------------------
\* A new agent, and one that renews, start with values of the right kinds.
LEMMA InitTypes == Init => TypeOK /\ certs \in Seq(Certificates)
<1>1. ASSUME Init PROVE TypeOK
  <2>. USE <1>1 DEF Init
  <2>1. /\ certs \in Seq(Certificates) /\ \A s \in Serials : certs[s].key \in Keys
        /\ {dBundle, bundle} \subseteq Serials \cup {None}
        /\ nextKey \in Nat \ {0}
    <3> DEFINE x == [key |-> 1, age |-> "due", revoked |-> FALSE, late |-> FALSE]
    <3>1. CASE certs = <<>> /\ dBundle = None /\ nextKey = 1
      BY <3>1 DEF Serials
    <3>2. CASE certs = <<x>> /\ dBundle = 1 /\ nextKey = 2
      <4>1. x \in Certificates /\ x.key = 1
        BY DEF Certificates, Ages
      <4>. HIDE DEF x
      <4>2. certs \in Seq(Certificates) /\ Len(certs) = 1 /\ certs[1] = x
        BY <3>2, <4>1
      <4>3. Serials = {1} /\ Keys = {1}
        BY <3>2, <4>2 DEF Serials, Keys
      <4>. QED
        BY <3>2, <4>1, <4>2, <4>3
    <3>. QED
      BY <3>1, <3>2
  <2>2. Idle \in Requests /\ Idle.cert = None /\ Idle.ans = None /\ Idle.pc = "idle"
    BY DEF Idle, Requests, InFlight
  <2>3. left \in 0..MaxTroubles /\ {locked, unavailable, backoff, due} \subseteq BOOLEAN
    <3>1. left = MaxTroubles /\ MaxTroubles \in Nat
      BY EnrollmentConstants
    <3>2. locked = FALSE /\ unavailable = FALSE /\ backoff = FALSE /\ due = FALSE
      OBVIOUS
    <3>. HIDE <1>1
    <3>3. left \in 0..MaxTroubles
      BY <3>1
    <3>. QED
      BY <3>2, <3>3
  <2>. QED
    BY <2>1, <2>2, <2>3 DEF TypeOK
<1>. QED
  BY <1>1 DEF TypeOK

-----------------------------------------------------------------------------
(* The lock.                                                               *)

\* How a request comes to be, or stays, in an enrollment.
Sends(c, pc, ans) == req'[c].pc = pc /\ req'[c].ans = ans

Path(c) ==
  \/ Enroll(c) /\ Sends(c, FirstRequest(pending), None)
  \/ RecoverAbsent(c) /\ Sends(c, "issue", None)
  \/ Publish(c) /\ Sends(c, "publish", "issued") /\ req'[c].cert = req[c].cert
       /\ ValidNow(req[c].cert) /\ dBundle' = req[c].cert /\ holder' = holder
  \/ Drop(c) /\ Sends(c, req[c].pc, "failed")
  \/ ServerAnswers(c) /\ req'[c].pc = req[c].pc /\ req[c].ans = None
       /\ req[c].pc \in {"recover", "issue"}
       /\ \/ req'[c].ans \in {"failed", "unauthorized"}
          \/ req'[c].ans = "absent" /\ (mode = "token_only" \/ req[c].pc # "issue")
               /\ (mode = "token_only" \/ Certified(pending) = {}) /\ UNCHANGED certs
          \/ /\ req'[c].ans = "issued" /\ req[c].pc = "recover" /\ UNCHANGED certs
             /\ Certified(pending) # {} /\ req'[c].cert = Max(Certified(pending))
          \/ /\ req'[c].ans = "issued" /\ req[c].pc = "issue"
             /\ Certify(pending, FALSE) /\ req'[c].cert = Len(certs) + 1

\* A step of a caller leaves the other requests alone, and is one of the paths above
\* when its request is then in an enrollment.
LEMMA Paths ==
  ASSUME TypeOK, NEW c \in Callers, CallerStep(c)
  PROVE  /\ \A t \in Callers : t # c => req'[t] = req[t]
         /\ req'[c].pc \in Enrolling => Path(c)
<1>0. req \in [Callers -> Requests] /\ req[c] \in Requests
  BY DEF TypeOK
<1>1. \A n : Step(c, n) => req'[c] = n /\ \A t \in Callers : t # c => req'[t] = req[t]
  BY <1>0 DEF Step
<1>2. \A t \in Callers : t # c => req'[t] = req[t]
  BY <1>1, Moves DEF CallerStep
<1>3. /\ "idle" \notin Enrolling /\ "ok" \notin Enrolling /\ "token" \notin Enrolling
      /\ "sent" \notin Enrolling /\ "ensure" \notin Enrolling /\ "exchanging" \notin Enrolling
  BY DEF Enrolling
<1>4. ASSUME NEW p PROVE [Idle EXCEPT !.pc = p].pc = p
  BY DEF Idle
<1>5. ASSUME End(c, "idle") \/ End(c, "ok") \/ Fail(c) \/ Send(c) \/ RefreshOnce(c)
      PROVE  req'[c].pc \notin Enrolling
  <2>1. ASSUME NEW p, End(c, p) PROVE req'[c].pc = p
    BY <1>1, <1>4, <2>1 DEF End
  <2>2. CASE Send(c)
    BY <1>0, <1>3, <2>2 DEF Send, Requests, Step
  <2>3. CASE RefreshOnce(c)
    BY ZenonT(60), <1>0, <1>3, <2>1, <2>3 DEF RefreshOnce, Requests, Step, Fail
  <2>. QED
    BY <1>3, <1>5, <2>1, <2>2, <2>3 DEF Fail
<1>6. CASE Begin(c)
  <2>1. req'[c].pc \in {"ensure", "token"}
    BY <1>0, <1>6 DEF Begin, Idle, Step
  <2>. QED
    BY <1>2, <1>3, <2>1
<1>7. CASE Exchange(c)
  <2>1. req'[c].pc = "exchanging"
    BY <1>0, <1>7 DEF Exchange, Requests, Step
  <2>. QED
    BY <1>2, <1>3, <2>1
<1>8. CASE Exchanged(c)
  <2>1. Fail(c) \/ req'[c].pc = "ensure"
    <3>1. CASE Fail(c)
      BY <3>1
    <3>2. CASE ~Fail(c)
      <4>1. PICK a : Step(c, [req[c] EXCEPT !.pc = "ensure", !.tok = a, !.ans = None, !.again = FALSE])
        BY <1>8, <3>2 DEF Exchanged
      <4>. QED
        BY <1>0, <4>1 DEF Requests, Step
    <3>. QED
      BY <3>1, <3>2
  <2>. QED
    BY <1>2, <1>3, <1>5, <2>1
<1>9. CASE EnsureCurrent(c) \/ EnrollUnwritten(c) \/ NoIssuer(c) \/ Complete(c)
  <2>1. Send(c) \/ Fail(c) \/ RefreshOnce(c) \/ End(c, "ok")
    BY <1>9 DEF EnsureCurrent, EnrollUnwritten, NoIssuer, Complete
  <2>. QED
    BY <1>2, <1>5, <2>1
<1>10. CASE RequestRefused(c) \/ FinishFails(c)
  <2>1. Send(c) \/ Fail(c) \/ RefreshOnce(c)
    BY <1>10 DEF RequestRefused, FinishFails, EnrollFails
  <2>. QED
    BY <1>2, <1>5, <2>1
<1>11. CASE Enroll(c)
  <2>1. req[c].ans = None
    BY <1>11 DEF Enroll, TypeOK
  <2>2. PICK p, u : Step(c, [req[c] EXCEPT !.pc = p, !.usable = u]) /\ p = FirstRequest(pending)
    BY <1>11 DEF Enroll
  <2>3. req'[c].pc = p /\ req'[c].ans = None
    BY <1>0, <2>1, <2>2 DEF Requests, Step
  <2>. QED
    BY <1>2, <1>11, <2>2, <2>3 DEF Path, Sends
<1>12. CASE RecoverAbsent(c)
  <2>1. req'[c].pc = "issue" /\ req'[c].ans = None
    BY <1>0, <1>12 DEF RecoverAbsent, Requests, Step
  <2>. QED
    BY <1>2, <1>12, <2>1 DEF Path, Sends
<1>13. CASE Publish(c)
  <2>1. CASE EnrollFails(c, "failed")
    <3>1. Send(c) \/ Fail(c)
      BY <2>1 DEF EnrollFails
    <3>. QED
      BY <1>2, <1>5, <3>1
  <2>2. CASE /\ ValidNow(req[c].cert) /\ dBundle' = req[c].cert
             /\ Step(c, [req[c] EXCEPT !.pc = "publish"]) /\ holder' = holder
    <3>1. req'[c].pc = "publish" /\ req'[c].ans = req[c].ans /\ req'[c].cert = req[c].cert
      BY <1>0, <1>1, <2>2 DEF Requests
    <3>2. req[c].ans = "issued"
      BY <1>13 DEF Publish
    <3>. QED
      BY <1>2, <1>13, <2>2, <3>1, <3>2 DEF Path, Sends
  <2>. QED
    BY <1>13, <2>1, <2>2 DEF Publish
<1>14. CASE Finish(c)
  <2>1. PICK q : Step(c, [req[c] EXCEPT !.pc = "sent", !.ans = None, !.usable = FALSE, !.sends = q])
    BY <1>14 DEF Finish
  <2>2. req'[c].pc = "sent"
    BY <1>0, <2>1 DEF Requests, Step
  <2>. QED
    BY <1>2, <1>3, <2>2
<1>15. CASE RecoverCertificate(c)
  <2>1. req'[c].pc = "ensure"
    BY <1>0, <1>15 DEF RecoverCertificate, Requests, Step
  <2>. QED
    BY <1>2, <1>3, <2>1
<1>16. ASSUME NEW a, Answer(c, a)
       PROVE  req'[c].pc = req[c].pc /\ req'[c].ans = a
  BY <1>0, <1>16 DEF Answer, Requests, Step
<1>17. ASSUME NEW s, Issued(c, s)
       PROVE  req'[c].pc = req[c].pc /\ req'[c].ans = "issued" /\ req'[c].cert = s
  BY <1>0, <1>17 DEF Issued, Requests, Step
<1>18. CASE Drop(c)
  BY <1>2, <1>16, <1>18 DEF Drop, Path, Sends
<1>19. CASE ServerAnswers(c)
  <2>0. req[c].ans = None
    BY <1>19 DEF ServerAnswers
  <2>1. CASE AnswerExchange(c) \/ AnswerProtected(c)
    <3>1. PICK a : Answer(c, a) /\ req[c].pc \in {"exchanging", "sent"}
      BY <2>1 DEF AnswerExchange, AnswerProtected
    <3>. QED
      BY <1>2, <1>3, <1>16, <3>1
  <2>2. CASE AnswerRefused(c)
    <3>1. PICK a : /\ Answer(c, a)
                   /\ a \in {"failed", "unauthorized"} \/ (a = "absent" /\ mode = "token_only")
                   /\ UNCHANGED certs /\ req[c].pc \in {"recover", "issue"}
      BY <2>2 DEF AnswerRefused
    <3>2. req'[c].pc = req[c].pc /\ req'[c].ans = a
      BY <1>16, <3>1
    <3>. QED
      BY <1>2, <1>19, <2>0, <3>1, <3>2 DEF Path
  <2>3. CASE AnswerEnrollment(c)
    <3>1. CASE /\ req[c].pc = "recover" /\ Certified(pending) = {} /\ UNCHANGED certs
               /\ Answer(c, "absent")
      <4>1. req'[c].pc = req[c].pc /\ req'[c].ans = "absent"
        BY <1>16, <3>1
      <4>. QED
        BY <1>2, <1>19, <2>0, <3>1, <4>1 DEF Path
    <3>2. CASE /\ req[c].pc = "recover" /\ Certified(pending) # {} /\ UNCHANGED certs
               /\ Issued(c, Max(Certified(pending)))
      <4>1. /\ req'[c].pc = req[c].pc /\ req'[c].ans = "issued"
            /\ req'[c].cert = Max(Certified(pending))
        BY <1>17, <3>2
      <4>. QED
        BY <1>2, <1>19, <2>0, <3>2, <4>1 DEF Path
    <3>3. CASE req[c].pc = "issue" /\ Certify(pending, FALSE) /\ Issued(c, Len(certs) + 1)
      <4>1. /\ req'[c].pc = req[c].pc /\ req'[c].ans = "issued"
            /\ req'[c].cert = Len(certs) + 1
        BY <1>17, <3>3
      <4>. QED
        BY <1>2, <1>19, <2>0, <3>3, <4>1 DEF Path
    <3>. QED
      BY <2>3, <3>1, <3>2, <3>3 DEF AnswerEnrollment
  <2>. QED
    BY <1>19, <2>1, <2>2, <2>3 DEF ServerAnswers
<1>. QED
  BY <1>6, <1>7, <1>8, <1>9, <1>10, <1>11, <1>12, <1>13, <1>14, <1>15, <1>18, <1>19
     DEF CallerStep

\* A restart ends the requests, and a revocation changes their tokens; the other
\* steps of time, the server and the network leave them alone.
LEMMA OtherSteps ==
  ASSUME TypeOK, [Next]_vars, \A c \in Callers : ~CallerStep(c)
  PROVE  \/ req' = req /\ UNCHANGED <<holder, pending, dBundle>>
         \/ Restart /\ \A c \in Callers : req'[c].pc = "idle"
         \/ /\ UNCHANGED <<holder, pending, dBundle, certs, mode>>
            /\ \A c \in Callers : /\ req'[c].pc = req[c].pc /\ req'[c].cert = req[c].cert
                                  /\ req'[c].ans = Stale(req[c].ans)
<1>. USE DEF memory, disk, server
<1> DEFINE Same == req' = req /\ UNCHANGED <<holder, pending, dBundle>>
<1>1. ASSUME NEW k \in late, LateIssue(k) PROVE Same
  BY <1>1 DEF LateIssue
<1>2. ASSUME NEW s \in Serials, Age(s) \/ Revoke(s) PROVE Same
  BY <1>2 DEF Age, Revoke
<1>3. BackoffEnds \/ Unlock \/ TokenDue \/ Upgrade \/ UNCHANGED vars => Same
  BY DEF BackoffEnds, Unlock, TokenDue, Upgrade, vars
<1>4. Restart => \A c \in Callers : req'[c].pc = "idle"
  BY DEF Restart, Idle
<1>5. ASSUME RevokeTokens, NEW c \in Callers
      PROVE  /\ req'[c].pc = req[c].pc /\ req'[c].cert = req[c].cert
             /\ req'[c].ans = Stale(req[c].ans)
  <2>1. PICK u : req'[c] = [req[c] EXCEPT !.tok = u, !.ans = Stale(req[c].ans)]
    BY <1>5 DEF RevokeTokens
  <2>2. req[c] \in Requests
    BY DEF TypeOK
  <2>. QED
    BY <2>1, <2>2 DEF Requests
<1>6. RevokeTokens => UNCHANGED <<holder, pending, dBundle, certs, mode>>
  BY DEF RevokeTokens
<1>. QED
  BY <1>1, <1>2, <1>3, <1>4, <1>5, <1>6, StepCases

\* Two enrollments never hold the lock.
LEMMA LockStep ==
  ASSUME TypeOK, LockOK, [Next]_vars
  PROVE  LockOK'
<1>1. ASSUME NEW c \in Callers, CallerStep(c), NEW t \in Callers, req'[t].pc \in Enrolling
      PROVE  holder' = t
  <2>1. CASE t = c
    <3>1. CASE Enroll(c)
      BY <2>1, <3>1 DEF Enroll
    <3>2. CASE ~Enroll(c)
      <4>1. Path(c) /\ req[c].pc \in Enrolling
        BY <1>1, <2>1, <3>2, Paths DEF Path, Sends, RecoverAbsent, Publish, Enrolling
      <4>2. holder' = holder
        BY <3>2, <4>1 DEF Path, RecoverAbsent, Drop, ServerAnswers
      <4>. QED
        BY <2>1, <4>1, <4>2 DEF LockOK
    <3>. QED
      BY <3>1, <3>2
  <2>2. CASE t # c
    <3>1. req[t].pc \in Enrolling /\ holder = t
      BY <1>1, <2>2, Paths DEF LockOK
    <3>. QED
      BY <1>1, <2>2, <3>1, CallerLock, EnrollmentConstants
  <2>. QED
    BY <2>1, <2>2
<1>2. ASSUME \A c \in Callers : ~CallerStep(c), NEW t \in Callers, req'[t].pc \in Enrolling
      PROVE  holder' = t
  BY <1>2, OtherSteps DEF LockOK, Enrolling
<1>. QED
  BY <1>1, <1>2 DEF LockOK

-----------------------------------------------------------------------------
(* Submissions.                                                            *)

\* A deployment never loses its issuer; when it gets one nothing is issued.
LEMMA ModeStep ==
  ASSUME [Next]_vars
  PROVE  mode' = mode \/ (mode' # "token_only" /\ UNCHANGED certs)
<1>. USE DEF server
<1>1. ASSUME NEW c \in Callers, CallerStep(c) PROVE mode' = mode
  BY <1>1 DEF CallerStep, Begin, Exchange, Exchanged, EnsureCurrent, Enroll, EnrollUnwritten,
     RecoverAbsent, NoIssuer, RequestRefused, Publish, Finish, FinishFails, RecoverCertificate,
     Complete, ServerAnswers, Drop
<1>2. ASSUME NEW k \in late, LateIssue(k) PROVE mode' = mode
  BY <1>2 DEF LateIssue
<1>3. ASSUME NEW s \in Serials, Age(s) \/ Revoke(s) PROVE mode' = mode
  BY <1>3 DEF Age, Revoke
<1>4. BackoffEnds \/ Restart \/ Unlock \/ RevokeTokens \/ TokenDue \/ UNCHANGED vars
        => mode' = mode
  BY DEF BackoffEnds, Restart, Unlock, RevokeTokens, TokenDue, vars
<1>5. Upgrade => mode' # "token_only" /\ UNCHANGED certs
  BY DEF Upgrade
<1>. QED
  BY <1>1, <1>2, <1>3, <1>4, <1>5, StepCases

\* A certificate that appears is late, or that of the submission it answers.
LEMMA NewCertificates ==
  ASSUME TypeOK, LockOK, [Next]_vars
  PROVE  \/ /\ \A s \in Serials' : s \notin Serials => certs'[s].late
            /\ \A s \in Serials' : s \notin Serials => certs'[s].key \in late
         \/ \E c \in Callers : /\ ServerAnswers(c) /\ req[c].pc = "issue" /\ req[c].ans = None
                               /\ mode # "token_only" /\ Certify(pending, FALSE)
<1>1. CASE UNCHANGED certs
  BY <1>1 DEF Serials
<1>2. ASSUME NEW k \in late, Certify(k, TRUE)
      PROVE  \A s \in Serials' : s \notin Serials => certs'[s].late /\ certs'[s].key \in late
  <2>1. k \in Keys
    BY DEF TypeOK
  <2>2. /\ Serials' = Serials \cup {Len(certs) + 1}
        /\ certs'[Len(certs) + 1] = [key |-> k, age |-> "fresh", revoked |-> FALSE, late |-> TRUE]
    BY <1>2, <2>1, CertifyEffect
  <2>3. certs'[Len(certs) + 1].late = TRUE /\ certs'[Len(certs) + 1].key = k
    BY <2>2
  <2>. QED
    BY <2>2, <2>3
<1>3. CASE \E s \in Serials : Age(s) \/ Revoke(s)
  BY <1>3, AgeEffect
<1>. QED
  BY <1>1, <1>2, <1>3, CertChange

\* The server answers every submission, and only then is the key certified.
LEMMA SubmissionsAnswered ==
  ASSUME TypeOK, LockOK, NEW c \in Callers, ServerAnswers(c), req[c].pc = "issue",
         mode # "token_only", NEW t \in Callers
  PROVE  ~Submitting(t)'
<1>1. ASSUME req'[t].pc \in Enrolling PROVE t = c
  BY <1>1, Paths, EnrollmentConstants DEF CallerStep, LockOK, Enrolling
<1>2. ASSUME t = c, req'[c].pc \in Enrolling PROVE req'[c].pc = "issue" /\ req'[c].ans # None
  <2>1. Path(c)
    BY <1>2, Paths DEF CallerStep
  <2>2. req[c].ans = None /\ None \notin {"failed", "unauthorized", "absent", "issued"}
    BY EnrollmentConstants DEF ServerAnswers, Answers
  <2>. QED
    BY <2>1, <2>2 DEF Path, Sends, Enroll, RecoverAbsent, Publish
<1>. QED
  BY <1>1, <1>2 DEF Submitting, Enrolling

\* A pending key stays free until the server answers its submission.
LEMMA FreeKept ==
  ASSUME TypeOK, LockOK, [Next]_vars, Free, pending' = pending,
         \A s \in Serials' : s \notin Serials => certs'[s].late
  PROVE  Free'
BY CertsStep DEF Free

\* A key is submitted only while no certificate of it is live.
LEMMA SubmitStep ==
  ASSUME TypeOK, LockOK, SubmitOK, [Next]_vars
  PROVE  SubmitOK'
<1>1. ASSUME mode' = "token_only" PROVE certs' = <<>>
  <2>1. mode = "token_only" /\ certs = <<>>
    BY <1>1, ModeStep DEF SubmitOK
  <2>2. Serials = {}
    BY <2>1 DEF Serials
  <2>. QED
    BY <2>1, <2>2, CertChange
<1>2. ASSUME NEW t \in Callers, Submitting(t)' PROVE Free'
  <2>1. \A s \in Serials' : s \notin Serials => certs'[s].late
    BY <1>2, NewCertificates, SubmissionsAnswered
  <2>2. ASSUME Submitting(t), pending' = pending PROVE Free'
    BY <2>1, <2>2, FreeKept DEF SubmitOK
  <2>3. ASSUME NEW c \in Callers, CallerStep(c), c # t PROVE Free'
    <3>1. req'[t] = req[t]
      BY <2>3, Paths
    <3>2. Submitting(t)
      BY <1>2, <3>1 DEF Submitting
    <3>3. holder = t
      BY <3>2 DEF Submitting, LockOK, Enrolling
    <3>4. pending' = pending
      BY <2>3, <3>3, CallerLock, EnrollmentConstants
    <3>. QED
      BY <2>2, <3>2, <3>4
  <2>4. ASSUME CallerStep(t) PROVE Free'
    <3>0. None \notin {"failed", "unauthorized", "absent", "issued"}
      BY EnrollmentConstants DEF Answers
    <3>1. req'[t].pc \in Enrolling
      BY <1>2 DEF Submitting, Enrolling
    <3>2. Path(t)
      BY <2>4, <3>1, Paths
    <3>3. CASE Enroll(t)
      <4>1. /\ pending = None /\ pending' = nextKey /\ certs' = certs
        <5>1. req[t].pc = "ensure" /\ req'[t].pc \in {"recover", "issue"}
          BY <1>2, <3>3 DEF Enroll, Submitting
        <5>2. Sends(t, FirstRequest(pending), None)
          BY <3>2, <5>1 DEF Path, Sends, RecoverAbsent, Publish, Drop, InFlight
        <5>3. pending = None
          BY <1>2, <3>0, <5>2 DEF Submitting, Sends, FirstRequest
        <5>. QED
          BY <3>3, <5>3 DEF Enroll, KeepPending, server
      <4>2. \A s \in Serials : certs[s].key # nextKey
        BY DEF TypeOK, Keys
      <4>. QED
        BY <4>1, <4>2 DEF Free, Serials
    <3>4. CASE RecoverAbsent(t)
      <4>1. Submitting(t) /\ pending' = pending
        BY <3>4 DEF RecoverAbsent, NeverIssued, Submitting, memory
      <4>. QED
        BY <2>2, <4>1
    <3>5. CASE ServerAnswers(t) /\ req'[t].pc = req[t].pc
      <4>1. pending' = pending
        BY <3>5 DEF ServerAnswers, memory
      <4>2. req'[t].pc = "recover" /\ req'[t].ans = "absent"
        BY <1>2, <3>0, <3>2, <3>5 DEF Path, Sends, Enroll, RecoverAbsent, Publish,
           Submitting, ServerAnswers
      <4>3. mode = "token_only" \/ Certified(pending) = {}
        BY <3>0, <3>2, <3>5, <4>2 DEF Path, Sends, Enroll, RecoverAbsent, Publish,
           Submitting, ServerAnswers
      <4>4. Free
        BY <4>3 DEF Free, Certified, SubmitOK, Serials
      <4>. QED
        BY <2>1, <4>1, <4>4, FreeKept
    <3>. QED
      BY <1>2, <3>0, <3>2, <3>3, <3>4, <3>5 DEF Path, Sends, Submitting
  <2>5. ASSUME \A c \in Callers : ~CallerStep(c) PROVE Free'
    <3>1. /\ pending' = pending /\ req'[t].pc = req[t].pc
          /\ req'[t].ans = req[t].ans \/ req'[t].ans = Stale(req[t].ans)
      BY <1>2, <2>5, OtherSteps DEF Submitting
    <3>2. None # "valid" /\ None # "stale" /\ \A x : Stale(x) \in {x, "stale"}
      BY EnrollmentConstants DEF Answers, Stale
    <3>3. Submitting(t)
      BY <1>2, <3>1, <3>2 DEF Submitting
    <3>. QED
      BY <2>2, <3>1, <3>3
  <2>. QED
    BY <2>3, <2>4, <2>5
<1>. QED
  BY <1>1, <1>2 DEF SubmitOK

-----------------------------------------------------------------------------
(* Answers.                                                                *)

\* The identity on disk is written by an enrollment.
LEMMA BundleChange ==
  ASSUME NEW c \in Callers, CallerStep(c)
  PROVE  dBundle' = dBundle \/ (Publish(c) /\ req[c].pc \in Enrolling)
<1>. USE DEF disk
<1>1. CASE Publish(c)
  BY <1>1 DEF Publish, Enrolling
<1>2. CASE \/ Begin(c) \/ Exchange(c) \/ Exchanged(c) \/ EnsureCurrent(c) \/ Enroll(c)
           \/ EnrollUnwritten(c) \/ RecoverAbsent(c) \/ NoIssuer(c) \/ RequestRefused(c)
  BY <1>2 DEF Begin, Exchange, Exchanged, EnsureCurrent, Enroll, EnrollUnwritten,
     RecoverAbsent, NoIssuer, RequestRefused
<1>3. CASE \/ Finish(c) \/ FinishFails(c) \/ RecoverCertificate(c) \/ Complete(c)
           \/ ServerAnswers(c) \/ Drop(c)
  BY <1>3 DEF Finish, FinishFails, RecoverCertificate, Complete, ServerAnswers, Drop
<1>. QED
  BY <1>1, <1>2, <1>3 DEF CallerStep

\* What AnswerOK says of one request.
Answered(t) ==
  /\ req[t].pc \in {"recover", "issue"} /\ req[t].ans = "issued"
       => req[t].cert # None /\ certs[req[t].cert].key = pending
  /\ req[t].pc = "publish"
       => req[t].cert # None /\ certs[req[t].cert].key = pending /\ dBundle = req[t].cert

\* A request that is not answered keeps its certificate, and that its key.
LEMMA AnswerKept ==
  ASSUME TypeOK, LockOK, [Next]_vars, NEW t \in Callers, Answered(t),
         req'[t].pc = req[t].pc, req'[t].cert = req[t].cert,
         req'[t].ans = req[t].ans \/ req'[t].ans = Stale(req[t].ans),
         pending' = pending, dBundle' = dBundle
  PROVE  Answered(t)'
<1>1. req[t].cert \in Serials \cup {None}
  BY DEF TypeOK
<1>2. req'[t].ans = "issued" => req[t].ans = "issued"
  BY DEF Stale
<1>3. req[t].cert # None => certs'[req[t].cert].key = certs[req[t].cert].key
  BY <1>1, CertsStep
<1>. QED
  BY <1>2, <1>3 DEF Answered

\* The answer to an enrollment is a certificate for the pending key.
LEMMA AnswerCertifies ==
  ASSUME TypeOK, LockOK, NEW t \in Callers, CallerStep(t), ServerAnswers(t), Path(t),
         req'[t].pc = req[t].pc, req[t].pc \in {"recover", "issue"}, req'[t].ans = "issued"
  PROVE  req'[t].cert # None /\ certs'[req'[t].cert].key = pending
<1>0. None \notin {"failed", "unauthorized", "absent", "issued"} /\ None \notin Nat
      /\ Len(certs) \in Nat
  BY EnrollmentConstants DEF Answers, TypeOK
<1>1. CASE UNCHANGED certs /\ Certified(pending) # {} /\ req'[t].cert = Max(Certified(pending))
  <2> DEFINE m == Max(Certified(pending))
  <2>1. m \in Serials /\ m \in Certified(pending)
    BY <1>1, LatestCertified
  <2>. HIDE DEF m
  <2>2. certs[m].key = pending /\ m # None
    BY <1>0, <2>1 DEF Certified, Serials
  <2>. QED
    BY <1>1, <2>2 DEF m
<1>2. CASE Certify(pending, FALSE) /\ req'[t].cert = Len(certs) + 1
  <2>1. pending \in Keys
    BY PendingKey DEF Enrolling
  <2>2. certs'[Len(certs) + 1] = [key |-> pending, age |-> "fresh", revoked |-> FALSE, late |-> FALSE]
    BY <1>2, <2>1, CertifyEffect
  <2>3. certs'[Len(certs) + 1].key = pending
    BY <2>2
  <2>. QED
    BY <1>0, <1>2, <2>3
<1>3. req[t].ans = None
  BY DEF ServerAnswers
<1>. QED
  BY <1>0, <1>1, <1>2, <1>3 DEF Path, Sends, Enroll, RecoverAbsent, Publish

\* The certificate being published stays that of the pending key.
LEMMA AnswerStep ==
  ASSUME TypeOK, LockOK, AnswerOK, [Next]_vars
  PROVE  AnswerOK'
<1>0. \A t \in Callers : Answered(t)
  BY DEF AnswerOK, Answered
<1>a. None \notin {"failed", "unauthorized", "absent", "issued"}
  BY EnrollmentConstants DEF Answers
<1>1. ASSUME NEW t \in Callers, req'[t].pc \in Enrolling PROVE Answered(t)'
  <2>1. ASSUME NEW c \in Callers, CallerStep(c), c # t PROVE Answered(t)'
    <3>1. req'[t] = req[t]
      BY <2>1, Paths
    <3>2. holder = t
      BY <1>1, <3>1 DEF LockOK
    <3>3. pending' = pending
      BY <2>1, <3>2, CallerLock, EnrollmentConstants
    <3>4. dBundle' = dBundle
      BY <2>1, <3>2, BundleChange DEF LockOK
    <3>. QED
      BY <1>0, <3>1, <3>3, <3>4, AnswerKept
  <2>2. ASSUME CallerStep(t) PROVE Answered(t)'
    <3>1. Path(t)
      BY <1>1, <2>2, Paths
    <3>2. CASE Enroll(t) /\ Sends(t, FirstRequest(pending), None)
      BY <1>a, <3>2 DEF Answered, Sends, FirstRequest
    <3>3. CASE RecoverAbsent(t) /\ Sends(t, "issue", None)
      BY <1>a, <3>3 DEF Answered, Sends
    <3>4. CASE /\ Publish(t) /\ Sends(t, "publish", "issued") /\ req'[t].cert = req[t].cert
               /\ ValidNow(req[t].cert) /\ dBundle' = req[t].cert
      BY <1>0, <3>4 DEF Answered, Sends, Publish, ValidNow, server
    <3>5. CASE Drop(t) /\ Sends(t, req[t].pc, "failed")
      BY <3>5 DEF Answered, Sends, Drop, InFlight
    <3>6. CASE ServerAnswers(t) /\ req'[t].pc = req[t].pc /\ req[t].pc \in {"recover", "issue"}
      <4>1. pending' = pending
        BY <3>6 DEF ServerAnswers, memory
      <4>. QED
        BY <2>2, <3>1, <3>6, <4>1, AnswerCertifies DEF Answered
    <3>. QED
      BY <3>1, <3>2, <3>3, <3>4, <3>5, <3>6 DEF Path
  <2>3. ASSUME \A c \in Callers : ~CallerStep(c) PROVE Answered(t)'
    BY <1>0, <1>1, <2>3, OtherSteps, AnswerKept DEF Enrolling
  <2>. QED
    BY <2>1, <2>2, <2>3
<1>2. ASSUME NEW t \in Callers, req'[t].pc \notin Enrolling PROVE Answered(t)'
  BY <1>2 DEF Answered, Enrolling
<1>. QED
  BY <1>1, <1>2 DEF AnswerOK, Answered

-----------------------------------------------------------------------------
(* Keys.                                                                   *)

\* No step certifies a key that has a live certificate, unless it is a late one.
LEMMA OneCertStep ==
  ASSUME TypeOK, LockOK, SubmitOK, OneCertPerKey, [Next]_vars
  PROVE  OneCertPerKey'
<1> SUFFICES ASSUME NEW s \in Serials', NEW t \in Serials',
                    s < t, certs'[s].key = certs'[t].key, Live(s)'
             PROVE  certs'[s].late \/ certs'[t].late
  BY DEF OneCertPerKey
<1>1. CASE s \in Serials /\ t \in Serials
  BY <1>1, CertsStep DEF OneCertPerKey
<1>2. CASE \A u \in Serials' : u \notin Serials => certs'[u].late
  BY <1>1, <1>2
<1>3. ASSUME NEW c \in Callers, ServerAnswers(c), req[c].pc = "issue", req[c].ans = None,
             Certify(pending, FALSE), s \notin Serials \/ t \notin Serials
      PROVE  certs'[s].late \/ certs'[t].late
  <2>1. pending \in Keys
    BY <1>3, PendingKey DEF Enrolling
  <2>2. /\ Serials' = Serials \cup {Len(certs) + 1}
        /\ certs'[Len(certs) + 1] = [key |-> pending, age |-> "fresh", revoked |-> FALSE, late |-> FALSE]
    BY <1>3, <2>1, CertifyEffect
  <2>3. certs'[Len(certs) + 1].key = pending
    BY <2>2
  <2>4. s \in Serials /\ t = Len(certs) + 1
    <3>1. Serials = 1..Len(certs) /\ Len(certs) \in Nat
      BY DEF Serials, TypeOK
    <3>. HIDE DEF Serials
    <3>. QED
      BY <1>3, <2>2, <3>1
  <2>5. Free
    BY <1>3 DEF SubmitOK, Submitting
  <2>6. certs[s].key = pending /\ Live(s) /\ certs'[s].late = certs[s].late
    BY <2>3, <2>4, CertsStep
  <2>. QED
    BY <2>4, <2>5, <2>6 DEF Free
<1>. QED
  BY <1>1, <1>2, <1>3, NewCertificates

\* Keys are numbers, and what was sent was generated.
LEMMA KeyFacts ==
  ASSUME TypeOK
  PROVE  /\ nextKey \in Nat /\ nextKey >= 1 /\ None \notin Nat
         /\ \A k \in Keys : k \in Nat /\ 1 <= k /\ k < nextKey
         /\ Certifiable \subseteq Keys /\ BundleKey \in Keys \cup {0}
         /\ {dPending, pending} \subseteq Keys \cup {None}
<1>1. /\ nextKey \in Nat /\ nextKey >= 1 /\ None \notin Nat
      /\ \A k \in Keys : k \in Nat /\ 1 <= k /\ k < nextKey
  BY EnrollmentConstants DEF TypeOK, Keys
<1>2. Certifiable \subseteq Keys
  BY DEF TypeOK, Certifiable
<1>3. BundleKey \in Keys \cup {0}
  BY DEF TypeOK, BundleKey
<1>. QED
  BY <1>1, <1>2, <1>3 DEF TypeOK

\* Only the pending key of an enrollment in progress becomes certifiable.
LEMMA CertifiableStep ==
  ASSUME TypeOK, LockOK, [Next]_vars, NEW k \in Certifiable'
  PROVE  k \in Certifiable \/ (k = pending /\ pending \in Keys)
<1>1. ASSUME NEW s \in Serials', k = certs'[s].key
      PROVE  k \in Certifiable \/ (k = pending /\ pending \in Keys)
  <2>1. CASE s \in Serials
    BY <1>1, <2>1, CertsStep DEF Certifiable
  <2>2. CASE s \notin Serials /\ certs'[s].key \in late
    BY <1>1, <2>2 DEF Certifiable
  <2>3. ASSUME NEW c \in Callers, req[c].pc = "issue", Certify(pending, FALSE), s \notin Serials
        PROVE  k = pending /\ pending \in Keys
    <3>1. pending \in Keys
      BY <2>3, PendingKey DEF Enrolling
    <3>2. /\ Serials' = Serials \cup {Len(certs) + 1}
          /\ certs'[Len(certs) + 1] = [key |-> pending, age |-> "fresh", revoked |-> FALSE, late |-> FALSE]
      BY <2>3, <3>1, CertifyEffect
    <3>3. certs'[Len(certs) + 1].key = pending
      BY <3>2
    <3>. QED
      BY <1>1, <2>3, <3>1, <3>2, <3>3
  <2>. QED
    BY <2>1, <2>2, <2>3, NewCertificates
<1>2. ASSUME k \in late' PROVE k \in late \/ (k = pending /\ pending \in Keys)
  <2>1. ASSUME NEW c \in Callers, Drop(c) PROVE late' = late \/ (late' = late \cup {pending} /\ pending \in Keys)
    BY <2>1, PendingKey DEF Drop, Enrolling
  <2>2. ASSUME Restart PROVE late' = late \/ (late' = late \cup {pending} /\ pending \in Keys)
    BY <2>2, PendingKey DEF Restart, Enrolling
  <2>3. ASSUME NEW j \in late, LateIssue(j) PROVE late' = late \ {j}
    BY <2>3 DEF LateIssue
  <2>4. ASSUME NEW c \in Callers,
               Enroll(c) \/ EnrollUnwritten(c) \/ Publish(c) \/ Finish(c) \/ FinishFails(c)
        PROVE  late' = late
    BY <2>4 DEF Enroll, EnrollUnwritten, Publish, Finish, FinishFails, server
  <2>. QED
    BY <1>2, <2>1, <2>2, <2>3, <2>4, KeyCases
<1>. QED
  BY <1>1, <1>2 DEF Certifiable

\* The identity on disk keeps its key until another is written.
LEMMA BundleKeyKept ==
  ASSUME TypeOK, LockOK, [Next]_vars, dBundle' = dBundle
  PROVE  BundleKey' = BundleKey
<1>1. dBundle \in Serials \cup {None}
  BY DEF TypeOK
<1>. QED
  BY <1>1, CertsStep DEF BundleKey

\* What is certifiable stays, while keys and identity do, what KeysOK says.
LEMMA KeptKeys ==
  ASSUME TypeOK, LockOK, KeysOK, [Next]_vars, NEW k \in Certifiable'
  PROVE  k \in Nat /\ (k <= BundleKey \/ k = dPending)
BY CertifiableStep, KeyFacts DEF KeysOK

\* No step loses a key that was or may still be certified.
LEMMA KeysStep ==
  ASSUME TypeOK, LockOK, AnswerOK, KeysOK, [Next]_vars
  PROVE  KeysOK'
<1>. USE KeyFacts
<1>1. ASSUME UNCHANGED <<dPending, pending, dBundle>> PROVE KeysOK'
  BY <1>1, BundleKeyKept, KeptKeys, CertifiableStep DEF KeysOK
<1>2. ASSUME NEW c \in Callers, Enroll(c), pending = None PROVE KeysOK'
  <2>1. dPending' = nextKey /\ pending' = nextKey /\ dBundle' = dBundle
    BY <1>2 DEF Enroll, KeepPending
  <2>2. BundleKey' = BundleKey
    BY <2>1, BundleKeyKept
  <2>3. ASSUME NEW k \in Certifiable' PROVE k <= BundleKey
    BY <1>2, <2>3, CertifiableStep DEF KeysOK
  <2>. QED
    BY <2>1, <2>2, <2>3 DEF KeysOK
<1>3. ASSUME NEW c \in Callers, EnrollUnwritten(c) PROVE KeysOK'
  <2>1. dPending' \in {dPending, nextKey} /\ pending = None /\ pending' = None /\ dBundle' = dBundle
    BY <1>3 DEF EnrollUnwritten
  <2>2. BundleKey' = BundleKey
    BY <2>1, BundleKeyKept
  <2>3. ASSUME NEW k \in Certifiable' PROVE k \in Certifiable /\ k <= BundleKey
    BY <2>1, <2>3, CertifiableStep DEF KeysOK
  <2>4. dPending' \notin Certifiable'
    BY <2>1, <2>3 DEF KeysOK
  <2>5. dPending' # None => BundleKey <= dPending'
    BY <2>1 DEF KeysOK
  <2>. QED
    BY <2>1, <2>2, <2>3, <2>4, <2>5 DEF KeysOK
<1>4. ASSUME NEW c \in Callers, Publish(c) PROVE KeysOK'
  <2>1. /\ UNCHANGED <<dPending, pending, certs, late>> /\ dBundle' \in {dBundle, req[c].cert}
        /\ req[c].cert # None /\ certs[req[c].cert].key = pending
    BY <1>4 DEF Publish, AnswerOK, server
  <2>2. CASE dBundle' = dBundle
    BY <1>1, <2>1, <2>2
  <2>3. CASE dBundle' = req[c].cert
    <3>1. BundleKey' = pending
      BY <2>1, <2>3 DEF BundleKey
    <3>2. pending \in Keys
      BY <1>4, PendingKey DEF Publish, Enrolling
    <3>3. BundleKey <= pending
      BY <3>2 DEF KeysOK
    <3>4. ASSUME NEW k \in Certifiable' PROVE k <= pending \/ k = dPending
      BY <3>2, <3>3, <3>4, KeptKeys
    <3>. QED
      BY <2>1, <3>1, <3>2, <3>4 DEF KeysOK
  <2>. QED
    BY <2>1, <2>2, <2>3
<1>5. ASSUME NEW c \in Callers, req[c].pc = "publish"
      PROVE  BundleKey = pending /\ pending \in Keys /\ dPending \in {pending, None}
  <2>1. BundleKey = pending
    BY <1>5 DEF AnswerOK, BundleKey
  <2>. QED
    BY <1>5, <2>1, PendingKey DEF KeysOK, Enrolling
<1>6. ASSUME NEW c \in Callers, Finish(c) PROVE KeysOK'
  <2>1. dPending' = None /\ pending' = None /\ dBundle' = dBundle
    BY <1>6 DEF Finish
  <2>2. BundleKey' = BundleKey /\ BundleKey = pending /\ pending \in Keys /\ dPending \in {pending, None}
    BY <1>5, <1>6, <2>1, BundleKeyKept DEF Finish
  <2>3. ASSUME NEW k \in Certifiable' PROVE k \in Nat /\ k <= BundleKey
    BY <2>2, <2>3, KeptKeys, CertifiableStep
  <2>. QED
    BY <2>1, <2>2, <2>3 DEF KeysOK
<1>7. ASSUME NEW c \in Callers, FinishFails(c) PROVE KeysOK'
  <2>1. dPending' \in {dPending, None} /\ pending' = pending /\ dBundle' = dBundle
    BY <1>7 DEF FinishFails
  <2>2. BundleKey' = BundleKey /\ BundleKey = pending /\ pending \in Keys /\ dPending \in {pending, None}
    BY <1>5, <1>7, <2>1, BundleKeyKept DEF FinishFails
  <2>3. ASSUME NEW k \in Certifiable' PROVE k \in Nat /\ k <= BundleKey
    BY <2>2, <2>3, KeptKeys, CertifiableStep
  <2>. QED
    BY <2>1, <2>2, <2>3 DEF KeysOK
<1>8. ASSUME Restart PROVE KeysOK'
  <2>1. dPending' = dPending /\ pending' = dPending /\ dBundle' = dBundle
    BY <1>8 DEF Restart, disk
  <2>2. BundleKey' = BundleKey
    BY <2>1, BundleKeyKept
  <2>. QED
    BY <2>1, <2>2, KeptKeys DEF KeysOK
<1>9. ASSUME NEW c \in Callers, Drop(c) PROVE KeysOK'
  BY <1>1, <1>9 DEF Drop, disk, memory
<1>10. ASSUME NEW k \in late, LateIssue(k) PROVE KeysOK'
  BY <1>1, <1>10 DEF LateIssue, disk, memory
<1>. QED
  BY <1>1, <1>2, <1>3, <1>4, <1>6, <1>7, <1>8, <1>9, <1>10, KeyCases

-----------------------------------------------------------------------------
(* Theorems.                                                               *)

\* No step lets a request be sent, or exchange, more often than its budget.
LEMMA BudgetStep ==
  ASSUME TypeOK, LockOK, BudgetOK, [Next]_vars
  PROVE  BudgetOK'
<1>1. BudgetOK <=> \A c \in Callers : Within(req[c])
  BY Zenon DEF BudgetOK, Within
<1>2. BudgetOK' <=> \A c \in Callers : Within(req'[c])
  BY Zenon DEF BudgetOK, Within
<1>. QED
  BY <1>1, <1>2, RequestsStep

\* A new agent, and one that renews, satisfy the invariant.
LEMMA EnrollmentInit == Init => EnrollmentInv
<1> SUFFICES ASSUME Init PROVE EnrollmentInv
  OBVIOUS
<1>0. TypeOK
  BY InitTypes
<1>1. \A c \in Callers : req[c] = Idle
  BY DEF Init
<1>2. Idle.pc = "idle" /\ Idle.ans = None /\ Idle.sends = 0 /\ Idle.exchanges = 0
  BY DEF Idle
<1>3. LockOK /\ AnswerOK /\ \A c \in Callers : ~Submitting(c)
  BY <1>1, <1>2 DEF LockOK, AnswerOK, Submitting, Enrolling
<1>4. BudgetOK
  BY <1>1, <1>2 DEF BudgetOK, Enrolling
<1>5. mode = "token_only" => certs = <<>>
  BY DEF Init
<1>6. dPending = None /\ pending = None /\ late = {} /\ dBundle = (IF certs = <<>> THEN None ELSE 1)
      /\ (certs # <<>> => Serials = {1})
  <2> DEFINE x == [key |-> 1, age |-> "due", revoked |-> FALSE, late |-> FALSE]
  <2>1. \/ certs = <<>> /\ dBundle = None
        \/ certs = <<x>> /\ dBundle = 1
    BY DEF Init
  <2>. HIDE DEF x
  <2>2. certs = <<x>> => certs # <<>> /\ Serials = {1}
    BY DEF Serials
  <2>. QED
    BY <2>1, <2>2 DEF Init
<1>7. KeysOK /\ OneCertPerKey
  <2>1. certs = <<>> => Serials = {}
    BY DEF Serials
  <2>2. \A k \in Certifiable : k = BundleKey
    BY <1>6, <2>1, EnrollmentConstants DEF Certifiable, BundleKey
  <2>3. KeysOK
    BY <1>0, <1>6, <2>2, KeyFacts DEF KeysOK
  <2>4. OneCertPerKey
    BY <1>6, <2>1 DEF OneCertPerKey
  <2>. QED
    BY <2>3, <2>4
<1>. QED
  BY <1>3, <1>4, <1>5, <1>7 DEF EnrollmentInv, SubmitOK

\* The invariant and the types are inductive together.
LEMMA EnrollmentStep == TypeOK /\ EnrollmentInv /\ [Next]_vars => TypeOK' /\ EnrollmentInv'
BY TypeStep, LockStep, SubmitStep, AnswerStep, KeysStep, BudgetStep, OneCertStep
   DEF EnrollmentInv

\* Whatever the callers interleave, however often answers are lost, certificates
\* revoked or the process restarted, the enrollment invariant holds: the lock,
\* what is submitted, what is answered, which key is where, and the budgets.
THEOREM Inductive == Spec => [](TypeOK /\ EnrollmentInv)
<1>. USE InitTypes, EnrollmentInit, EnrollmentStep
<1>. QED
  BY PTL DEF Spec

\* State::ensure: a pending key is recovered before it is submitted again, so no
\* two live certificates are issued for a key, unless the server saw a request
\* after the agent gave up on it.
THEOREM CertifiedOnce == Spec => []OneCertPerKey
<1>1. EnrollmentInv => OneCertPerKey
  BY DEF EnrollmentInv
<1>. QED
  BY <1>1, Inductive, PTL

\* store_pending, publish and the removal of client-enrollment.json: at every
\* moment of an enrollment, the private key of the newest certificate is on disk.
THEOREM NewestKeySurvives == Spec => []NewestKeyKept
<1>1. ASSUME TypeOK, KeysOK PROVE NewestKeyKept
  <2> SUFFICES ASSUME certs # <<>>
               PROVE  LET k == Max({certs[s].key : s \in Serials})
                      IN dPending = k \/ (dBundle # None /\ certs[dBundle].key = k)
    BY DEF NewestKeyKept
  <2> DEFINE T == {certs[s].key : s \in Serials}
             k == Max(T)
  <2>1. T # {} /\ T \in SUBSET (0..nextKey) /\ nextKey \in Nat
    <3>1. certs \in Seq(Certificates) /\ Len(certs) \in Nat
      BY <1>1 DEF TypeOK
    <3>2. 1 \in Serials
      BY <3>1 DEF Serials
    <3>3. T # {}
      BY <3>2
    <3>4. \A s \in Serials : certs[s].key \in Keys
      BY <1>1 DEF TypeOK
    <3>. QED
      BY <1>1, <3>3, <3>4, KeyFacts
  <2>2. k \in T /\ \A y \in T : y <= k
    BY <2>1, MaxInSet
  <2>3. k \in Certifiable
    BY <2>2 DEF Certifiable
  <2>4. dBundle # None => BundleKey = certs[dBundle].key /\ BundleKey \in T
    BY <1>1 DEF TypeOK, BundleKey
  <2>5. dBundle = None => BundleKey = 0
    BY DEF BundleKey
  <2>. HIDE DEF T, k
  <2>6. k \in Keys /\ k \in Nat /\ k >= 1 /\ BundleKey \in Nat
    BY <1>1, <2>3, KeyFacts
  <2>7. k = dPending \/ (dBundle # None /\ BundleKey = k)
    BY <1>1, <2>2, <2>3, <2>4, <2>5, <2>6 DEF KeysOK
  <2>. QED
    BY <2>4, <2>7 DEF k, T
<1>2. TypeOK /\ EnrollmentInv => NewestKeyKept
  BY <1>1 DEF EnrollmentInv
<1>. QED
  BY <1>2, Inductive, PTL

\* request_with_token and post_json: one refresh after a 401 and one recovery
\* after a refused certificate, hence four deliveries and two exchanges at most.
THEOREM RetriesBounded == Spec => []SendBudget
<1>1. ASSUME TypeOK, BudgetOK, NEW c \in Callers
      PROVE  req[c].sends <= 4 /\ req[c].exchanges <= 2
  <2>1. /\ Within(req[c]) /\ req[c] \in Requests
        /\ req[c].sends \in Nat /\ req[c].exchanges \in Nat
        /\ Of(req[c].refreshed) \in {0, 1} /\ Of(req[c].again) \in {0, 1}
    BY <1>1, RequestFields DEF BudgetOK, Within
  <2>2. req[c].pc \in {"exchanging", "recover", "issue", "sent", "idle", "token", "ensure",
                       "publish", "ok"}
    BY <2>1 DEF Requests, InFlight
  <2>. QED
    BY <2>1, <2>2 DEF Within, Enrolling
<1>2. TypeOK /\ EnrollmentInv => SendBudget
  BY <1>1 DEF EnrollmentInv, SendBudget
<1>. QED
  BY <1>2, Inductive, PTL
=============================================================================
