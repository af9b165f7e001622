---------------------------- MODULE ManagedProofs ----------------------------
(***************************************************************************)
(* Theorems about Managed for any settings, offers, intervals and bounds:  *)
(* the revision the agent acknowledges is in force, no partial snapshot is *)
(* sent as version 1, the inventory schedule stays within its bound, and a *)
(* build is tried once.                                                    *)
(***************************************************************************)
EXTENDS Managed, TLAPS

-----------------------------------------------------------------------------
(* The inductive invariant.                                                *)

\* How often the server has published and changed its offer.
Publications == MaxPolicies - budget.policies
OfferChanges == MaxOffers - budget.offers

\* A directive is a policy as it was published.
Genuine(d) ==
  IF d.revision = None
  THEN Unstamped \/ d.settings = None
  ELSE d.revision <= Publications /\ published[d.revision] = d.settings

Heard == hPc \in {"answered", "trying"}

DirectivesOK == Genuine(policy) /\ (Heard => Genuine(answer.directive))

\* What is acknowledged was published, passed validation, and is in force
\* unless a policy without a revision has since been applied.
Obeyed(r) ==
  r # None => /\ r <= Publications
              /\ published[r] # None => ValidSettings(published[r])

AppliedOK ==
  /\ Obeyed(applied) /\ Obeyed(reported)
  /\ ~Unstamped => unversioned = None
  /\ applied # None /\ unversioned = None /\ published[applied] # None
       => InForce(published[applied])

\* What is untried or has come since the answer does not exceed what the
\* server has offered.
Also(condition) == IF condition THEN 1 ELSE 0

TriesOK ==
  /\ offer # None => OfferChanges > 0
  /\ tries <= OfferChanges
  /\ hPc # "trying" => tries + Also(Untried(offer)) <= OfferChanges
  /\ hPc = "answered" /\ Untried(answer.offer)
       => tries + 1 + Also(offer # None /\ offer # answer.offer) <= OfferChanges
  /\ hPc = "trying"
       => tries + Also(offer # None /\ offer # answer.offer) <= OfferChanges

ManagedInv == DirectivesOK /\ AppliedOK /\ TriesOK /\ NextScanBounded /\ PartialOnlyAsV2

-----------------------------------------------------------------------------
(* The schedule.                                                           *)

\* The jitter is at most its bound.
LEMMA JitterBound ==
  ASSUME NEW max \in Nat
  PROVE  StableJitter(max) \in 0..max
BY ManagedConstants DEF StableJitter

\* The product of natural numbers is one.
LEMMA MultNat == \A a, b \in Nat : a * b \in Nat
OBVIOUS

\* On any interval, on battery or not, the delay until the next collection,
\* jitter included, stays within the longest one.
LEMMA DelayBound ==
  ASSUME NEW base \in Nat, NEW battery \in BOOLEAN
  PROVE  ScheduledDelay(base, battery) \in 0..MaxEffective
<1> DEFINE product == base * (IF battery THEN BatteryFactor ELSE 1)
           effective == Lower(product, MaxEffective)
           room == MaxEffective - effective
           jitter == Lower(effective \div JitterDivisor, room)
<1>1. product \in Nat
  <2>. BatteryFactor \in Nat
    BY ManagedConstants
  <2>. QED
    BY MultNat
<1>. HIDE DEF product
<1>2. effective \in 0..MaxEffective
  BY <1>1, ManagedConstants DEF Lower
<1>. HIDE DEF effective
<1>3. effective \div JitterDivisor \in Nat
  BY <1>2, ManagedConstants
<1>4. jitter \in Nat /\ jitter <= room
  BY <1>2, <1>3, ManagedConstants DEF Lower
<1>. HIDE DEF jitter
<1>5. StableJitter(jitter) \in 0..jitter
  BY <1>4, JitterBound
<1>6. effective + StableJitter(jitter) \in 0..MaxEffective
  BY <1>2, <1>4, <1>5, ManagedConstants
<1>. QED
  BY <1>6 DEF ScheduledDelay, product, effective, jitter

\* So does the delay before the first one.
LEMMA StartupBound == StartupDelay(Local.inventory) \in 0..MaxEffective
<1> DEFINE max == Lower(Local.inventory \div JitterDivisor, MaxStartup)
<1>1. Local.inventory \in Nat
  BY ManagedConstants
<1>2. max \in 0..MaxStartup
  BY <1>1, ManagedConstants DEF Lower
<1>. HIDE DEF max
<1>3. StableJitter(max) \in 0..max
  BY <1>2, JitterBound
<1>4. StableJitter(max) \in 0..MaxEffective
  BY <1>2, <1>3, ManagedConstants
<1>. QED
  BY <1>4 DEF StartupDelay, max

\* Settings that pass validation leave intervals within their range.
LEMMA MergedTyped ==
  ASSUME TypeOK, NEW s, ValidSettings(s)
  PROVE  /\ Merged(s) \in [heartbeat : Intervals, inventory : Intervals]
         /\ Override(s.level, level) \in Levels \cup {Local.level}
BY DEF TypeOK, ValidSettings, Merged, Override

\* Applying a directive leaves the settings in force of their kinds.
LEMMA ApplyTyped ==
  ASSUME TypeOK, NEW d \in Directive, ApplySettings(d)
  PROVE  /\ applied' \in Revisions \cup {None}
         /\ runtime' \in [heartbeat : Intervals, inventory : Intervals]
         /\ level' \in Levels \cup {Local.level}
         /\ unversioned' \in Settings \cup {None}
         /\ hChanged' \in BOOLEAN /\ iChanged' \in BOOLEAN
<1>1. applied' \in Revisions \cup {None}
  BY DEF ApplySettings, Acknowledged, Override, Directive, TypeOK
<1>2. CASE UNCHANGED <<runtime, level, unversioned, hChanged, iChanged>>
  BY <1>1, <1>2 DEF TypeOK
<1>3. CASE ~UNCHANGED <<runtime, level, unversioned, hChanged, iChanged>>
  <2>1. d.settings # None /\ ValidSettings(d.settings)
    BY <1>3 DEF ApplySettings
  <2>2. /\ unversioned' = (IF d.revision = None THEN d.settings ELSE unversioned)
        /\ level' = Override(d.settings.level, level)
        /\ \/ runtime' = Merged(d.settings) /\ hChanged' = TRUE /\ iChanged' = TRUE
           \/ UNCHANGED <<runtime, hChanged, iChanged>>
    BY <1>3 DEF ApplySettings
  <2>3. /\ runtime' \in [heartbeat : Intervals, inventory : Intervals]
        /\ level' \in Levels \cup {Local.level}
    BY <2>1, <2>2, MergedTyped DEF TypeOK
  <2>4. unversioned' \in Settings \cup {None}
    BY <2>1, <2>2 DEF TypeOK, Directive
  <2>. QED
    BY <1>1, <2>2, <2>3, <2>4 DEF TypeOK
<1>. QED
  BY <1>2, <1>3

\* A policy can be published while fewer than MaxPolicies were.
LEMMA NextRevision ==
  \A n \in 0..MaxPolicies : n > 0 => MaxPolicies - n + 1 \in Revisions
<1>1. MaxPolicies \in Nat
  BY ManagedConstants
<1>. QED
  BY <1>1 DEF Revisions

\* The variables start with values of their kinds.
LEMMA TypeInit == Init => TypeOK
<1>. SUFFICES ASSUME Init PROVE TypeOK
  OBVIOUS
<1>1. /\ policy \in Directive /\ published \in [Revisions -> Settings \cup {None}]
      /\ runtime \in [heartbeat : Intervals, inventory : Intervals]
  BY ManagedConstants DEF Init, NoPolicy, Directive, Intervals
<1>2. /\ hLeft \in -MaxLag..MaxInterval /\ iLeft \in Nat
      /\ attempt \in 0..MaxRegister /\ tries \in Nat
  BY ManagedConstants, StartupBound DEF Init, Intervals
<1>3. budget \in [policies : 0..MaxPolicies, offers : 0..MaxOffers,
                 downgrades : 0..MaxDowngrades]
  BY ManagedConstants DEF Init
<1>. QED
  BY <1>1, <1>2, <1>3 DEF Init, TypeOK

\* Every step gives each variable a value of its kind.
LEMMA TypeStep ==
  ASSUME TypeOK, [Next]_vars
  PROVE  TypeOK'
<1>. USE ManagedConstants DEF TypeOK, server, beat, inventory
<1>1. CASE Start
  BY <1>1 DEF Start
<1>2. CASE RegisterAccepted
  BY <1>2 DEF RegisterAccepted
<1>3. ASSUME NEW r \in BOOLEAN, RegisterFails(r) PROVE TypeOK'
  <2>1. attempt' \in 0..MaxRegister
    BY <1>3 DEF RegisterFails
  <2>. QED
    BY <1>3, <2>1 DEF RegisterFails
<1>4. CASE Stop
  <2>1. /\ runtime' \in [heartbeat : Intervals, inventory : Intervals]
        /\ iLeft' \in Nat /\ hLeft' \in -MaxLag..MaxInterval
    BY <1>4, StartupBound DEF Stop, Intervals
  <2>2. attempt' \in 0..MaxRegister /\ tries' \in Nat /\ level' = Local.level
    BY <1>4 DEF Stop
  <2>3. {capability', schema', iSchema'} \subseteq {1, 2} /\ {hChanged', iChanged'} \subseteq BOOLEAN
    BY <1>4 DEF Stop
  <2>4. /\ policy' \in Directive /\ published' \in [Revisions -> Settings \cup {None}]
        /\ offer' \in Offers \cup {None}
        /\ budget' \in [policies : 0..MaxPolicies, offers : 0..MaxOffers,
                       downgrades : 0..MaxDowngrades]
    BY <1>4 DEF Stop
  <2>5. /\ {reported', applied'} \subseteq Revisions \cup {None} /\ phase' = "down"
        /\ unversioned' = None /\ hPc' = "idle" /\ iPc' = "waiting"
        /\ declined' = None /\ lastSnap' = None
    BY <1>4 DEF Stop
  <2>. QED
    BY <2>1, <2>2, <2>3, <2>4, <2>5
<1>5. CASE Beat
  <2>1. runtime.heartbeat \in MinInterval..MaxInterval
    BY DEF Intervals
  <2>2. hLeft' \in -MaxLag..MaxInterval
    BY <1>5, <2>1 DEF Beat
  <2>. QED
    BY <1>5, <2>2 DEF Beat
<1>6. CASE Receive
  <2>1. answer \in Answers
    BY <1>6 DEF Receive
  <2>2. answer.directive \in Directive
    BY <2>1 DEF Answers
  <2>3. /\ applied' \in Revisions \cup {None}
        /\ runtime' \in [heartbeat : Intervals, inventory : Intervals]
        /\ level' \in Levels \cup {Local.level}
        /\ unversioned' \in Settings \cup {None}
        /\ hChanged' \in BOOLEAN /\ iChanged' \in BOOLEAN
    BY <1>6, <2>2, ApplyTyped DEF Receive
  <2>4. /\ tries' \in Nat /\ schema' \in {1, 2}
        /\ (hPc' = "trying" /\ answer' = answer) \/ hPc' = "idle"
    BY <1>6 DEF Receive
  <2>. QED
    BY <1>6, <2>1, <2>3, <2>4 DEF Receive
<1>7. CASE Tried
  <2>1. answer.offer \in Offers \cup {None}
    BY <1>7 DEF Tried, Answers
  <2>. QED
    BY <1>7, <2>1 DEF Tried
<1>8. CASE RebuildTicker
  <2>1. runtime.heartbeat \in MinInterval..MaxInterval
    BY DEF Intervals
  <2>2. hLeft' \in -MaxLag..MaxInterval
    BY <1>8, <2>1 DEF RebuildTicker
  <2>. QED
    BY <1>8, <2>2 DEF RebuildTicker
<1>9. CASE ServerAnswers
  <2>1. answer' \in Answers
    BY <1>9 DEF ServerAnswers, Answers
  <2>. QED
    BY <1>9, <2>1 DEF ServerAnswers
<1>10. CASE BeatFails
  BY <1>10 DEF BeatFails
<1>11. CASE CollectBegin
  BY <1>11 DEF CollectBegin
<1>12. ASSUME NEW b \in BOOLEAN, Reschedule(b) PROVE TypeOK'
  <2>1. runtime.inventory \in Nat
    BY ManagedConstants DEF Intervals
  <2>2. iLeft' \in Nat
    BY <1>12, <2>1, DelayBound DEF Reschedule
  <2>. QED
    BY ZenonT(60), <1>12, <2>2 DEF Reschedule
<1>13. ASSUME NEW c \in BOOLEAN, NEW b \in BOOLEAN, CollectEnd(c, b) PROVE TypeOK'
  <2>1. runtime.inventory \in Nat
    BY ManagedConstants DEF Intervals
  <2>2. iLeft' \in Nat
    BY <1>13, <2>1, DelayBound DEF CollectEnd
  <2>. QED
    BY <1>13, <2>2 DEF CollectEnd
<1>14. ASSUME NEW s \in Settings \cup {None}, Publish(s) PROVE TypeOK'
  <2> DEFINE r == MaxPolicies - budget.policies + 1
  <2>1. budget.policies \in 0..MaxPolicies /\ budget.policies > 0
    BY <1>14 DEF Publish
  <2>2. r \in Revisions
    BY <2>1, NextRevision
  <2>3. policy' \in Directive /\ published' \in [Revisions -> Settings \cup {None}]
    BY <1>14, <2>2 DEF Publish, Directive
  <2>4. budget' \in [policies : 0..MaxPolicies, offers : 0..MaxOffers,
                    downgrades : 0..MaxDowngrades]
    BY <1>14, <2>1 DEF Publish
  <2>. QED
    BY <1>14, <2>3, <2>4 DEF Publish
<1>15. ASSUME NEW o \in Offers \cup {None}, Offer(o) PROVE TypeOK'
  <2>1. budget' \in [policies : 0..MaxPolicies, offers : 0..MaxOffers,
                    downgrades : 0..MaxDowngrades]
    BY <1>15 DEF Offer
  <2>. QED
    BY <1>15, <2>1 DEF Offer
<1>16. CASE ChangeCapability
  <2>1. budget' \in [policies : 0..MaxPolicies, offers : 0..MaxOffers,
                    downgrades : 0..MaxDowngrades]
    BY <1>16 DEF ChangeCapability
  <2>. QED
    BY <1>16, <2>1 DEF ChangeCapability
<1>17. CASE Tick
  <2>1. hLeft' \in -MaxLag..MaxInterval /\ iLeft' \in Nat
    BY <1>17 DEF Tick
  <2>. QED
    BY <1>17, <2>1 DEF Tick
<1>18. CASE UNCHANGED vars
  BY <1>18 DEF vars
<1>. QED
  BY <1>1, <1>2, <1>3, <1>4, <1>5, <1>6, <1>7, <1>8, <1>9, <1>10, <1>11, <1>12,
     <1>13, <1>14, <1>15, <1>16, <1>17, <1>18 DEF Next, Heartbeat, InventoryLoop

-----------------------------------------------------------------------------
(* Policies.                                                               *)

\* Publishing gives the next revision and leaves the earlier ones alone.
LEMMA PublishEffect ==
  ASSUME TypeOK, NEW s \in Settings \cup {None}, Publish(s)
  PROVE  /\ Publications \in Nat /\ Publications' = Publications + 1
         /\ \A q \in Revisions : q <= Publications => published'[q] = published[q]
         /\ Genuine(policy)'
<1> DEFINE n == budget.policies
           r == MaxPolicies - n + 1
<1>0. MaxPolicies \in Nat
  BY ManagedConstants
<1>1. n \in 0..MaxPolicies /\ n > 0
  BY DEF TypeOK, Publish
<1>2. r \in Revisions
  BY <1>1, NextRevision
<1>3. budget'.policies = n - 1
  BY DEF TypeOK, Publish
<1>4. published \in [Revisions -> Settings \cup {None}]
  BY DEF TypeOK
<1>5. \/ policy' = [revision |-> r, settings |-> s] /\ published' = [published EXCEPT ![r] = s]
      \/ Unstamped /\ policy' = [revision |-> None, settings |-> s] /\ UNCHANGED published
  BY DEF Publish
<1>. HIDE DEF n
<1>6. Publications \in Nat /\ Publications' = Publications + 1 /\ r = Publications + 1
  BY <1>0, <1>1, <1>3 DEF Publications, n
<1>. HIDE DEF r
<1>7. \A q \in Revisions : q <= Publications => published'[q] = published[q]
  <2>1. \A q \in Revisions : q <= Publications => q # r
    BY <1>6 DEF Revisions
  <2>. QED
    BY <1>4, <1>5, <2>1
<1>8. r # None
  BY <1>2, ManagedConstants DEF Revisions
<1>9. Genuine(policy)'
  <2>1. CASE policy' = [revision |-> r, settings |-> s] /\ published' = [published EXCEPT ![r] = s]
    <3>1. policy'.revision = r /\ policy'.settings = s /\ published'[r] = s
      BY <1>2, <1>4, <2>1
    <3>2. r <= Publications'
      BY <1>6
    <3>. QED
      BY <1>8, <3>1, <3>2 DEF Genuine
  <2>2. CASE Unstamped /\ policy' = [revision |-> None, settings |-> s]
    BY <2>2 DEF Genuine
  <2>. QED
    BY <1>5, <2>1, <2>2
<1>. QED
  BY <1>6, <1>7, <1>9

\* No other step changes what was published.
LEMMA PublicationsKept ==
  ASSUME TypeOK, [Next]_vars, ~(\E s \in Settings \cup {None} : Publish(s))
  PROVE  UNCHANGED <<policy, published, Publications>>
<1>1. budget \in [policies : 0..MaxPolicies, offers : 0..MaxOffers, downgrades : 0..MaxDowngrades]
  BY DEF TypeOK
<1>2. UNCHANGED <<policy, published, budget>> \/ (\E o \in Offers \cup {None} : Offer(o)) \/ ChangeCapability
  BY DEF Next, Heartbeat, InventoryLoop, Start, RegisterAccepted, RegisterFails, Stop, Beat,
     Receive, Tried, RebuildTicker, ServerAnswers, BeatFails, CollectBegin, Reschedule,
     CollectEnd, Tick, vars, server
<1>3. UNCHANGED <<policy, published>> /\ budget'.policies = budget.policies
  BY <1>1, <1>2 DEF Offer, ChangeCapability
<1>. QED
  BY <1>3 DEF Publications

\* A directive that was published stays so.
LEMMA GenuineKept ==
  ASSUME TypeOK, [Next]_vars, NEW d \in Directive, Genuine(d)
  PROVE  IF d.revision = None
         THEN Unstamped \/ d.settings = None
         ELSE d.revision <= Publications' /\ published'[d.revision] = d.settings
<1>1. CASE \E s \in Settings \cup {None} : Publish(s)
  <2>1. /\ Publications \in Nat /\ Publications' = Publications + 1
        /\ \A q \in Revisions : q <= Publications => published'[q] = published[q]
    BY <1>1, PublishEffect
  <2>. QED
    BY <2>1 DEF Genuine, Directive, Revisions
<1>2. CASE ~ \E s \in Settings \cup {None} : Publish(s)
  BY <1>2, PublicationsKept DEF Genuine
<1>. QED
  BY <1>1, <1>2

\* An answer carries the policy the server had when it answered.
LEMMA DirectivesStep ==
  ASSUME TypeOK, DirectivesOK, [Next]_vars
  PROVE  DirectivesOK'
<1>1. Genuine(policy)'
  <2>1. CASE \E s \in Settings \cup {None} : Publish(s)
    BY <2>1, PublishEffect
  <2>2. CASE ~ \E s \in Settings \cup {None} : Publish(s)
    BY <2>2, PublicationsKept DEF DirectivesOK, Genuine
  <2>. QED
    BY <2>1, <2>2
<1>2. ASSUME Heard' PROVE Genuine(answer.directive)'
  <2>1. CASE ServerAnswers
    BY <1>1, <2>1 DEF ServerAnswers, Genuine, server
  <2>2. CASE Heard /\ UNCHANGED answer
    <3>1. answer.directive \in Directive /\ Genuine(answer.directive)
      BY <2>2 DEF Heard, TypeOK, Answers, DirectivesOK
    <3>. QED
      BY <2>2, <3>1, GenuineKept DEF Genuine
  <2>3. ServerAnswers \/ (Heard /\ UNCHANGED answer)
    <3>1. Beat \/ Tried \/ BeatFails \/ Stop => ~Heard'
      BY DEF Beat, Tried, BeatFails, Stop, Heard
    <3>2. Receive => Heard /\ UNCHANGED answer
      BY <1>2 DEF Receive, Heard
    <3>4. UNCHANGED <<hPc, answer>> => Heard /\ UNCHANGED answer
      BY <1>2 DEF Heard
    <3>3. ServerAnswers \/ Receive \/ Beat \/ Tried \/ BeatFails \/ Stop \/ UNCHANGED <<hPc, answer>>
      BY DEF Next, Heartbeat, InventoryLoop, Start, RegisterAccepted, RegisterFails,
         RebuildTicker, CollectBegin, Reschedule, CollectEnd, Publish, Offer,
         ChangeCapability, Tick, vars, beat
    <3>. QED
      BY <1>2, <3>1, <3>2, <3>3, <3>4
  <2>. QED
    BY <2>1, <2>2, <2>3
<1>. QED
  BY <1>1, <1>2 DEF DirectivesOK

\* Settings that pass validation are in force once merged.
LEMMA MergedInForce ==
  ASSUME NEW s, NEW r, NEW l, r = Merged(s), l = Override(s.level, level)
  PROVE  /\ Override(s.heartbeat, r.heartbeat) = r.heartbeat
         /\ Override(s.inventory, r.inventory) = r.inventory
         /\ Override(s.level, l) = l
BY DEF Merged, Override


-----------------------------------------------------------------------------
(* Acknowledgement.                                                        *)

\* The settings of a revision do not change once it is published.
LEMMA PublishedKept ==
  ASSUME TypeOK, [Next]_vars, NEW r \in Revisions, r <= Publications
  PROVE  r <= Publications' /\ published'[r] = published[r]
<1>1. CASE \E s \in Settings \cup {None} : Publish(s)
  <2>1. /\ Publications \in Nat /\ Publications' = Publications + 1
        /\ \A q \in Revisions : q <= Publications => published'[q] = published[q]
    BY <1>1, PublishEffect
  <2>. QED
    BY <2>1 DEF Revisions
<1>2. CASE ~ \E s \in Settings \cup {None} : Publish(s)
  BY <1>2, PublicationsKept
<1>. QED
  BY <1>1, <1>2

\* So an obeyed revision stays so.
LEMMA ObeyedKept ==
  ASSUME TypeOK, [Next]_vars, NEW r \in Revisions \cup {None}, Obeyed(r)
  PROVE  r # None => /\ r <= Publications'
                     /\ published'[r] # None => ValidSettings(published'[r])
BY PublishedKept DEF Obeyed

\* A revision is acknowledged with its settings in force, or because they were
\* before.
LEMMA ReceiveObeys ==
  ASSUME TypeOK, DirectivesOK, AppliedOK, [Next]_vars, Receive
  PROVE  /\ Obeyed(applied)'
         /\ ~Unstamped => unversioned' = None
         /\ applied' # None /\ unversioned' = None /\ published'[applied'] # None
              => InForce(published[applied])'
<1> DEFINE d == answer.directive
<1>1. d \in Directive /\ Genuine(d) /\ ApplySettings(d)
  BY DEF Receive, TypeOK, Answers, DirectivesOK, Heard
<1>2. UNCHANGED <<published, Publications>>
  BY DEF Receive, server, Publications
<1>. HIDE DEF d
<1>3. d.revision \in Revisions \cup {None} /\ None \notin Revisions
  BY <1>1, ManagedConstants DEF Directive, Revisions
<1>4. ASSUME UNCHANGED <<applied, runtime, level, unversioned>>
      PROVE  /\ Obeyed(applied)'
             /\ ~Unstamped => unversioned' = None
             /\ applied' # None /\ unversioned' = None /\ published'[applied'] # None
                  => InForce(published[applied])'
  BY <1>2, <1>4 DEF AppliedOK, Obeyed, InForce
<1>5. CASE d.settings # None /\ ~ValidSettings(d.settings)
  <2>1. UNCHANGED <<applied, runtime, level, unversioned>>
    BY <1>1, <1>5 DEF ApplySettings, Acknowledged
  <2>. QED
    BY <1>4, <2>1
<1>6. CASE d.settings = None
  <2>1. applied' = Override(d.revision, applied) /\ UNCHANGED <<runtime, level, unversioned>>
    BY <1>1, <1>6 DEF ApplySettings, Acknowledged
  <2>2. CASE d.revision = None
    BY <1>4, <2>1, <2>2 DEF Override
  <2>3. CASE d.revision # None
    <3>1. applied' = d.revision /\ d.revision <= Publications' /\ published'[applied'] = None
      BY <1>1, <1>2, <1>6, <2>1, <2>3 DEF Override, Genuine
    <3>. QED
      BY <2>1, <3>1 DEF Obeyed, AppliedOK
  <2>. QED
    BY <2>2, <2>3
<1>7. CASE d.settings # None /\ ValidSettings(d.settings) /\ d.revision = None
  <2>1. applied' = applied
    BY <1>1, <1>7 DEF ApplySettings, Acknowledged, Override
  <2>2. CASE unversioned = d.settings
    <3>1. UNCHANGED <<runtime, level, unversioned>>
      BY <1>1, <1>7, <2>2 DEF ApplySettings
    <3>. QED
      BY <1>4, <2>1, <3>1
  <2>3. CASE unversioned # d.settings
    <3>1. unversioned' = d.settings \/ UNCHANGED <<runtime, level, unversioned>>
      BY <1>1, <1>7 DEF ApplySettings
    <3>2. Unstamped
      BY <1>1, <1>7 DEF Genuine
    <3>3. Obeyed(applied)'
      BY <1>2, <2>1 DEF AppliedOK, Obeyed
    <3>. QED
      BY <1>4, <1>7, <2>1, <3>1, <3>2, <3>3
  <2>. QED
    BY <2>2, <2>3
<1>8. CASE d.settings # None /\ ValidSettings(d.settings) /\ d.revision # None
  <2>1. applied' = d.revision
    BY <1>1, <1>8 DEF ApplySettings, Acknowledged, Override
  <2>2. d.revision <= Publications' /\ published'[applied'] = d.settings
    BY <1>1, <1>2, <1>8, <2>1 DEF Genuine
  <2>3. Obeyed(applied)'
    BY <1>8, <2>1, <2>2 DEF Obeyed, ValidSettings
  <2>4. CASE Repeated(d)
    <3>1. UNCHANGED <<applied, runtime, level, unversioned>>
      BY <1>1, <2>1, <2>4 DEF ApplySettings, Repeated
    <3>. QED
      BY <1>4, <3>1
  <2>5. CASE ~Repeated(d)
    <3>1. /\ unversioned' = unversioned
          /\ level' = Override(d.settings.level, level)
          /\ runtime' = Merged(d.settings)
      BY <1>1, <1>8, <2>5 DEF ApplySettings, Changes
    <3>2. /\ Override(d.settings.heartbeat, runtime'.heartbeat) = runtime'.heartbeat
          /\ Override(d.settings.inventory, runtime'.inventory) = runtime'.inventory
          /\ Override(d.settings.level, level') = level'
      BY <3>1, MergedInForce
    <3>3. InForce(published[applied])'
      BY <2>2, <3>2 DEF InForce
    <3>. QED
      BY <2>3, <3>1, <3>3 DEF AppliedOK
  <2>. QED
    BY <2>4, <2>5
<1>. QED
  BY <1>5, <1>6, <1>7, <1>8

\* Only the answer to a heartbeat changes what is acknowledged, and only a
\* heartbeat what the server has heard.
LEMMA AppliedStep ==
  ASSUME TypeOK, DirectivesOK, AppliedOK, [Next]_vars
  PROVE  AppliedOK'
<1>1. Obeyed(applied) /\ Obeyed(reported) /\ (~Unstamped => unversioned = None)
  BY DEF AppliedOK
<1>2. {applied, reported} \subseteq Revisions \cup {None}
  BY DEF TypeOK
<1>3. reported' \in {reported, applied}
  BY DEF Next, Heartbeat, InventoryLoop, Start, RegisterAccepted, RegisterFails, Stop, Beat,
     Receive, Tried, RebuildTicker, ServerAnswers, BeatFails, CollectBegin, Reschedule,
     CollectEnd, Publish, Offer, ChangeCapability, Tick, vars, beat
<1>4. Obeyed(reported)'
  BY <1>1, <1>2, <1>3, ObeyedKept DEF Obeyed
<1>5. CASE Receive
  BY <1>4, <1>5, ReceiveObeys DEF AppliedOK
<1>6. CASE Stop
  <2>1. applied' = None /\ unversioned' = None
    BY <1>6 DEF Stop
  <2>. QED
    BY <1>4, <2>1 DEF AppliedOK, Obeyed
<1>7. CASE UNCHANGED <<applied, runtime, level, unversioned>>
  <2>1. Obeyed(applied)'
    BY <1>1, <1>2, <1>7, ObeyedKept DEF Obeyed
  <2>2. applied' # None => published'[applied'] = published[applied]
    BY <1>1, <1>2, <1>7, PublishedKept DEF Obeyed
  <2>. QED
    BY <1>4, <1>7, <2>1, <2>2 DEF AppliedOK, InForce
<1>8. Receive \/ Stop \/ UNCHANGED <<applied, runtime, level, unversioned>>
  BY DEF Next, Heartbeat, InventoryLoop, Start, RegisterAccepted, RegisterFails, Beat,
     Tried, RebuildTicker, ServerAnswers, BeatFails, CollectBegin, Reschedule,
     CollectEnd, Publish, Offer, ChangeCapability, Tick, vars, beat
<1>. QED
  BY <1>5, <1>6, <1>7, <1>8

-----------------------------------------------------------------------------
(* Offers.                                                                 *)

\* The number of the server's changes of the offer only grows.
LEMMA OfferEffect ==
  ASSUME TypeOK, NEW o \in Offers \cup {None}, Offer(o)
  PROVE  /\ OfferChanges \in Nat /\ OfferChanges' = OfferChanges + 1
         /\ o # offer /\ offer' = o
<1>1. MaxOffers \in Nat /\ budget.offers \in 0..MaxOffers
  BY ManagedConstants DEF TypeOK
<1>2. budget'.offers = budget.offers - 1
  BY DEF TypeOK, Offer
<1>. QED
  BY <1>1, <1>2 DEF Offer, OfferChanges

\* Whatever else happens, it stays.
LEMMA OffersKept ==
  ASSUME TypeOK, [Next]_vars, ~(\E o \in Offers \cup {None} : Offer(o))
  PROVE  OfferChanges \in Nat /\ UNCHANGED <<offer, OfferChanges>>
<1>1. UNCHANGED <<offer, budget>> \/ (\E s \in Settings \cup {None} : Publish(s)) \/ ChangeCapability
  BY DEF Next, Heartbeat, InventoryLoop, Start, RegisterAccepted, RegisterFails, Stop, Beat,
     Receive, Tried, RebuildTicker, ServerAnswers, BeatFails, CollectBegin, Reschedule,
     CollectEnd, Tick, vars, server
<1>2. UNCHANGED offer /\ budget'.offers = budget.offers
  BY <1>1 DEF Publish, ChangeCapability, TypeOK
<1>3. MaxOffers \in Nat /\ budget.offers \in 0..MaxOffers
  BY ManagedConstants DEF TypeOK
<1>. QED
  BY <1>2, <1>3 DEF OfferChanges

\* A build is tried when it is offered and was not the last one tried; the next
\* try needs another change of the offer.
LEMMA TriesStep ==
  ASSUME TypeOK, TriesOK, [Next]_vars
  PROVE  TriesOK'
<1>. tries \in Nat
  BY DEF TypeOK
<1>1. CASE \E o \in Offers \cup {None} : Offer(o)
  <2>1. PICK o \in Offers \cup {None} : Offer(o)
    BY <1>1
  <2>2. /\ OfferChanges \in Nat /\ OfferChanges' = OfferChanges + 1
        /\ offer' = o
    BY <2>1, OfferEffect
  <2>3. UNCHANGED <<tries, hPc, answer, declined>>
    BY <2>1 DEF Offer, beat
  <2>. QED
    BY <2>2, <2>3 DEF TriesOK, Also, Untried
<1>2. CASE ~ \E o \in Offers \cup {None} : Offer(o)
  <2>1. OfferChanges \in Nat /\ UNCHANGED <<offer, OfferChanges>>
    BY <1>2, OffersKept
  <2>. HIDE DEF OfferChanges
  <2>2. CASE Stop
    <3>1. tries' = 0 /\ declined' = None /\ hPc' = "idle"
      BY <2>2 DEF Stop
    <3>. QED
      BY <2>1, <3>1 DEF TriesOK, Also, Untried
  <2>3. CASE ServerAnswers
    <3>1. /\ hPc = "sent" /\ hPc' = "answered" /\ answer'.offer = offer
          /\ UNCHANGED <<tries, declined>>
      BY <2>3 DEF ServerAnswers
    <3>. QED
      BY <2>1, <3>1 DEF TriesOK, Also, Untried
  <2>4. CASE Receive
    <3>1. /\ hPc = "answered" /\ UNCHANGED declined
          /\ \/ Untried(answer.offer) /\ hPc' = "trying" /\ tries' = tries + 1 /\ UNCHANGED answer
             \/ hPc' = "idle" /\ UNCHANGED tries
      BY <2>4 DEF Receive
    <3>. QED
      BY <2>1, <3>1 DEF TriesOK, Also, Untried
  <2>5. CASE Tried
    <3>1. /\ hPc = "trying" /\ hPc' = "idle" /\ declined' = answer.offer
          /\ UNCHANGED tries
      BY <2>5 DEF Tried
    <3>. QED
      BY <2>1, <3>1 DEF TriesOK, Also, Untried
  <2>6. CASE Beat \/ BeatFails
    <3>1. hPc # "trying" /\ hPc' \in {"idle", "sent"} /\ UNCHANGED <<tries, declined>>
      BY <2>6 DEF Beat, BeatFails
    <3>. QED
      BY <2>1, <3>1 DEF TriesOK, Also, Untried
  <2>7. CASE UNCHANGED <<tries, hPc, answer, declined>>
    BY <2>1, <2>7 DEF TriesOK, Also, Untried
  <2>8. \/ Stop \/ ServerAnswers \/ Receive \/ Tried \/ Beat \/ BeatFails
        \/ UNCHANGED <<tries, hPc, answer, declined>>
    BY <1>2 DEF Next, Heartbeat, InventoryLoop, Start, RegisterAccepted, RegisterFails,
       RebuildTicker, CollectBegin, Reschedule, CollectEnd, Publish, ChangeCapability,
       Tick, vars, beat
  <2>. QED
    BY <2>2, <2>3, <2>4, <2>5, <2>6, <2>7, <2>8
<1>. QED
  BY <1>1, <1>2

-----------------------------------------------------------------------------
(* The inventory loop.                                                     *)

\* The timer is set to a delay the schedule allows, and runs down.
LEMMA ScheduleStep ==
  ASSUME TypeOK, NextScanBounded, [Next]_vars
  PROVE  NextScanBounded'
<1>1. runtime.inventory \in Nat /\ iLeft \in Nat /\ iLeft <= MaxEffective /\ MaxEffective \in Nat
  BY ManagedConstants DEF TypeOK, Intervals, NextScanBounded
<1>2. \A b \in BOOLEAN : ScheduledDelay(runtime.inventory, b) <= MaxEffective
  BY <1>1, DelayBound
<1>3. StartupDelay(Local.inventory) <= MaxEffective
  BY <1>1, StartupBound
<1>4. \/ iLeft' = iLeft \/ iLeft' = StartupDelay(Local.inventory)
      \/ \E b \in BOOLEAN : iLeft' = ScheduledDelay(runtime.inventory, b)
      \/ iLeft' = IF iLeft > 0 THEN iLeft - 1 ELSE 0
  BY DEF Next, Heartbeat, InventoryLoop, Start, RegisterAccepted, RegisterFails, Stop, Beat,
     Receive, Tried, RebuildTicker, ServerAnswers, BeatFails, CollectBegin, Reschedule,
     CollectEnd, Publish, Offer, ChangeCapability, Tick, vars, inventory
<1>. QED
  BY <1>1, <1>2, <1>3, <1>4 DEF NextScanBounded

\* Completeness is judged by the version the collection began with.
LEMMA PartialStep ==
  ASSUME TypeOK, PartialOnlyAsV2, [Next]_vars
  PROVE  PartialOnlyAsV2'
<1>1. ASSUME NEW c \in BOOLEAN, NEW b \in BOOLEAN, CollectEnd(c, b) PROVE PartialOnlyAsV2'
  BY <1>1 DEF CollectEnd, Publishable, PartialOnlyAsV2, TypeOK
<1>2. ASSUME lastSnap' \in {lastSnap, None} PROVE PartialOnlyAsV2'
  BY <1>2 DEF PartialOnlyAsV2
<1>3. lastSnap' \in {lastSnap, None} \/ \E c, b \in BOOLEAN : CollectEnd(c, b)
  BY DEF Next, Heartbeat, InventoryLoop, Start, RegisterAccepted, RegisterFails, Stop, Beat,
     Receive, Tried, RebuildTicker, ServerAnswers, BeatFails, CollectBegin, Reschedule,
     Publish, Offer, ChangeCapability, Tick, vars, inventory
<1>. QED
  BY <1>1, <1>2, <1>3

-----------------------------------------------------------------------------
(* The theorems.                                                           *)

\* A process that has not started has acknowledged and tried nothing.
LEMMA InvInit == Init => ManagedInv
<1>. SUFFICES ASSUME Init PROVE ManagedInv
  OBVIOUS
<1>1. DirectivesOK
  BY DEF Init, DirectivesOK, Genuine, NoPolicy, Heard
<1>2. AppliedOK
  BY DEF Init, AppliedOK, Obeyed
<1>3. OfferChanges = 0
  BY ManagedConstants DEF Init, OfferChanges
<1>4. TriesOK
  BY <1>3 DEF Init, TriesOK, Also, Untried
<1>5. NextScanBounded /\ PartialOnlyAsV2
  BY StartupBound DEF Init, NextScanBounded, PartialOnlyAsV2
<1>. QED
  BY <1>1, <1>2, <1>4, <1>5 DEF ManagedInv

\* The invariant is inductive.
LEMMA InvStep ==
  ASSUME TypeOK, ManagedInv, [Next]_vars
  PROVE  ManagedInv'
BY DirectivesStep, AppliedStep, TriesStep, ScheduleStep, PartialStep DEF ManagedInv

\* The variables keep their types and the parts of the invariant hold whatever
\* the server publishes and however often the process restarts.
THEOREM Inductive == Spec => [](TypeOK /\ ManagedInv)
<1>. QED
  BY TypeInit, TypeStep, InvInit, InvStep, PTL DEF Spec

\* An agent whose console stamps every policy obeys the revision it
\* acknowledges, and the server never hears a revision acknowledged that the
\* agent had to refuse (managed.rs:131).
THEOREM AcknowledgedObeyed == (Unstamped = FALSE) => (Spec => []AcknowledgedInForce)
<1>1. (Unstamped = FALSE) /\ TypeOK /\ ManagedInv => AcknowledgedInForce
  BY DEF ManagedInv, AppliedOK, Obeyed, AcknowledgedInForce, TypeOK
<1>2. CASE Unstamped = FALSE
  <2>1. TypeOK /\ ManagedInv => AcknowledgedInForce
    BY <1>1, <1>2
  <2>. QED
    BY <2>1, Inductive, PTL
<1>. QED
  BY <1>2

\* However the collection ends and the server changes its version meanwhile, a
\* partial inventory is never sent in the form whose gaps mean removals.
THEOREM PartialAsVersionTwo == Spec => []PartialOnlyAsV2
<1>1. ManagedInv => PartialOnlyAsV2
  BY DEF ManagedInv
<1>. QED
  BY <1>1, Inductive, PTL

\* On battery, with any jitter and any interval the console may set, the next
\* collection is at most MAX_EFFECTIVE_INVENTORY_INTERVAL away (app.rs:22).
THEOREM NextScanInTime == Spec => []NextScanBounded
<1>1. ManagedInv => NextScanBounded
  BY DEF ManagedInv
<1>. QED
  BY <1>1, Inductive, PTL

\* A build the console keeps offering is tried once: failed answers, late ones
\* and offers that come and go do not add a try (heartbeat.rs:286).
THEOREM TriedOncePerOffer == Spec => []OneTryPerOffer
<1>1. ManagedInv => OneTryPerOffer
  BY DEF ManagedInv, TriesOK, OfferChanges, OneTryPerOffer
<1>. QED
  BY <1>1, Inductive, PTL
=============================================================================
