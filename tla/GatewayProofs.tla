---------------------------- MODULE GatewayProofs ----------------------------
(***************************************************************************)
(* No text without consent, for any number of requests, windows and        *)
(* changes.  A request passes Authorize because the receipt is current at  *)
(* that moment; the receipt either was so when the request arrived or was  *)
(* made so since, and both are remembered in covered (Current).            *)
(*                                                                         *)
(* And no window is overspent but where the code lets it be: what was paid *)
(* for in a window, and what may still be, is within the reservations made *)
(* in it, and within the count of the window the document is at and the    *)
(* limit of any other, but for refunds taken off the wrong window and for  *)
(* what the count lost when a late transaction took the document away and  *)
(* a later one back (Reckoned).  Nobody uses a moment that is yet to come  *)
(* (Stamped).                                                              *)
(***************************************************************************)
EXTENDS Gateway, Integers, FiniteSetTheorems, TLAPS

Typed ==
  /\ policy \in Nat /\ now \in Nat
  /\ call \in [Calls -> [pc : {"idle", "identity", "reserve", "provider", "refund"},
                         at : Nat, made : Nat, policy : Nat, covered : BOOLEAN]]

\* A request that could be authorised now is covered.
Current == \A c \in Calls : call[c].pc # "idle" /\ Entitled(call[c].policy) => call[c].covered

\* A request that was authorised is covered.
Authorized == \A c \in Calls : call[c].pc \in {"reserve", "provider", "refund"} => call[c].covered

ConsentInv == Typed /\ Current /\ Authorized

LEMMA InitConsent == Init => ConsentInv
  BY DEF Init, ConsentInv, Typed, Current, Authorized, Idle

\* The receipt, the disclosure and the clock.
LEMMA DocumentKeeps ==
  ASSUME ConsentInv,
         StartConsent \/ RecordConsent \/ RevokeEntitlement \/ Block \/ Redeploy \/ Tick
  PROVE  ConsentInv'
<1> USE DEF ConsentInv, Typed, Current, Authorized, Entitled
<1>1. CASE StartConsent
  BY <1>1 DEF StartConsent, document
<1>2. CASE RecordConsent
  <2>1. /\ receipt' = [status |-> "active", version |-> consent.version]
        /\ call' = [c \in Calls |->
                      IF call[c].pc = "idle" THEN call[c]
                      ELSE [call[c] EXCEPT !.covered =
                              @ \/ (receipt'.status = "active" /\ receipt'.version = call[c].policy)]]
        /\ UNCHANGED <<policy, now>>
    BY <1>2 DEF RecordConsent, CoveredBy
  <2>2. ASSUME NEW c \in Calls
        PROVE  /\ call'[c] \in [pc : {"idle", "identity", "reserve", "provider", "refund"},
                                at : Nat, made : Nat, policy : Nat, covered : BOOLEAN]
               /\ call'[c].pc = call[c].pc /\ call'[c].policy = call[c].policy
               /\ call[c].pc # "idle" =>
                    call'[c].covered = (call[c].covered \/ receipt'.version = call[c].policy)
    BY <2>1, <2>2
  <2>3. Typed'
    BY <2>1, <2>2
  <2> QED
    BY <2>1, <2>2, <2>3
<1>3. CASE RevokeEntitlement
  BY <1>3 DEF RevokeEntitlement
<1>4. CASE Block
  BY <1>4 DEF Block
<1>5. CASE Redeploy
  BY <1>5 DEF Redeploy
<1>6. CASE Tick
  BY <1>6 DEF Tick, document
<1> QED
  BY <1>1, <1>2, <1>3, <1>4, <1>5, <1>6

\* The steps of a request.
LEMMA CallKeeps ==
  ASSUME ConsentInv, NEW c \in Calls,
         \/ Receive(c) \/ Authorize(c) \/ Reject(c) \/ Reserve(c) \/ OverQuota(c)
         \/ ProviderAnswers(c) \/ Release(c) \/ ReleaseFails(c)
  PROVE  ConsentInv'
<1> USE DEF ConsentInv, Typed, Current, Authorized, Entitled, Idle
<1>1. CASE Receive(c)
  BY <1>1 DEF Receive, document
<1>2. CASE Authorize(c)
  <2>1. call[c].pc = "identity" /\ UNCHANGED <<now, receipt, policy>>
    BY <1>2 DEF Authorize, document
  <2>2. CASE Entitled(call[c].policy)
    <3>1. call' = [call EXCEPT ![c] = [call[c] EXCEPT !.pc = "reserve", !.at = now]] /\ call[c].covered
      BY <1>2, <2>1, <2>2 DEF Authorize
    <3> QED
      BY <2>1, <3>1
  <2>3. CASE ~Entitled(call[c].policy)
    <3>1. call' = [call EXCEPT ![c] = Idle]
      BY <1>2, <2>3 DEF Authorize
    <3> QED
      BY <2>1, <3>1
  <2> QED
    BY <2>2, <2>3
<1>3. CASE Reject(c)
  BY <1>3 DEF Reject, document
<1>4. CASE Reserve(c)
  <2> DEFINE Requested == [pc : {"idle", "identity", "reserve", "provider", "refund"},
                           at : Nat, made : Nat, policy : Nat, covered : BOOLEAN]
             x == [call[c] EXCEPT !.pc = "provider", !.made = call[c].at]
  <2>1. call[c] \in Requested
    OBVIOUS
  <2>2. /\ x \in Requested /\ x.pc = "provider"
        /\ x.policy = call[c].policy /\ x.covered = call[c].covered
    BY <2>1
  <2>3. /\ call[c].pc = "reserve" /\ UNCHANGED <<now, receipt, policy>>
        /\ call' = [call EXCEPT ![c] = x]
    BY <1>4 DEF Reserve
  <2> HIDE DEF x
  <2>4. Typed'
    BY <2>2, <2>3
  <2>5. Current' /\ Authorized'
    BY <2>2, <2>3
  <2> QED
    BY <2>4, <2>5
<1>5. CASE OverQuota(c)
  BY <1>5 DEF OverQuota, document
<1>6. CASE ProviderAnswers(c)
  <2>1. PICK x \in {[call[c] EXCEPT !.pc = "refund", !.at = now], Idle} :
          call' = [call EXCEPT ![c] = x]
    BY <1>6 DEF ProviderAnswers
  <2>2. call[c].pc = "provider" /\ UNCHANGED <<now, receipt, policy>>
    BY <1>6 DEF ProviderAnswers, document
  <2>3. CASE x = Idle
    BY <2>1, <2>2, <2>3
  <2>4. CASE x = [call[c] EXCEPT !.pc = "refund", !.at = now]
    <3>1. call' = [call EXCEPT ![c] = [call[c] EXCEPT !.pc = "refund", !.at = now]]
      BY <2>1, <2>4
    <3> QED
      BY <2>2, <3>1
  <2> QED
    BY <2>1, <2>3, <2>4
<1>7. CASE Release(c)
  BY <1>7 DEF Release
<1>8. CASE ReleaseFails(c)
  BY <1>8 DEF ReleaseFails, document
<1> QED
  BY <1>1, <1>2, <1>3, <1>4, <1>5, <1>6, <1>7, <1>8

LEMMA NextKeeps == ConsentInv /\ [Next]_vars => ConsentInv'
<1>1. UNCHANGED vars /\ ConsentInv => ConsentInv'
  BY DEF vars, document, ConsentInv, Typed, Current, Authorized, Entitled
<1> QED
  BY <1>1, DocumentKeeps, CallKeeps DEF Next

\* No text of a request reaches the provider unless a receipt for the
\* disclosure published at its start was active during the request, whatever
\* connects, disconnects, blocks and deployments run meanwhile (app.ts:46).
THEOREM ConsentPrecedesCalls == Spec => []NoCallWithoutConsent
<1>1. ConsentInv => NoCallWithoutConsent
  BY DEF ConsentInv, Authorized, NoCallWithoutConsent
<1> QED
  BY <1>1, InitConsent, NextKeeps, PTL DEF Spec

-----------------------------------------------------------------------------
(***************************************************************************)
(* Windows of time.                                                        *)
(***************************************************************************)
LEMMA Multiples ==
  ASSUME NEW n \in Nat \ {0}, NEW p \in Int, NEW q \in Int, p >= q + 1
  PROVE  n * p >= n * q + n
<1>1. PICK d \in Nat : p = q + 1 + d
  <2>1. p - q - 1 \in Nat /\ p = q + 1 + (p - q - 1)
    OBVIOUS
  <2> QED
    BY <2>1
<1>2. n * p = n * q + n + n * d /\ n * d \in Nat /\ n * q \in Int
  BY <1>1
<1> QED
  BY <1>2

LEMMA Quotient ==
  ASSUME NEW n \in Nat \ {0}, NEW a \in Nat
  PROVE  a \div n \in Nat /\ a \div n <= a /\ n * (a \div n) <= a /\ a < n * (a \div n) + n
<1>1. a \div n \in Nat /\ n * (a \div n) <= a /\ a < n * (a \div n) + n
  OBVIOUS
<1>2. PICK m \in Nat : n = m + 1
  <2>1. n - 1 \in Nat /\ n = (n - 1) + 1
    OBVIOUS
  <2> QED
    BY <2>1
<1>3. n * (a \div n) = m * (a \div n) + (a \div n) /\ m * (a \div n) \in Nat
  BY <1>1, <1>2
<1> QED
  BY <1>1, <1>3

\* Later moments are in later windows.
LEMMA WindowsAdvance ==
  ASSUME NEW n \in Nat \ {0}, NEW a \in Nat, NEW b \in Nat, a <= b
  PROVE  a \div n <= b \div n
<1> DEFINE x == n * (a \div n)
           y == n * (b \div n)
<1>1. /\ a \div n \in Int /\ b \div n \in Int /\ x \in Int /\ y \in Int
      /\ x <= a /\ b < y + n
  BY Quotient
<1>2. CASE a \div n >= (b \div n) + 1
  <2>1. x >= y + n
    BY <1>1, <1>2, Multiples
  <2> HIDE DEF x, y
  <2> QED
    BY <1>1, <2>1
<1> QED
  BY <1>1, <1>2

\* The window of a moment of the model is one the observers have.
LEMMA WindowTyped ==
  ASSUME NEW w \in Windows, NEW t \in Times
  PROVE  Window(w, t) \in Times /\ Window(w, t) \in Nat
<1>1. Length[w] \in Nat \ {0} /\ t \in Nat /\ t <= MaxTime /\ MaxTime \in Nat
  BY GatewayAssumption DEF Times
<1>2. t \div Length[w] \in Nat /\ t \div Length[w] <= t
  BY <1>1, Quotient
<1> QED
  BY <1>1, <1>2 DEF Window, Times

-----------------------------------------------------------------------------
(***************************************************************************)
(* The allowance.                                                          *)
(***************************************************************************)
\* Reservations of window k that can still become a paid call, or be refunded.
OpenOf(calls, w, k) ==
  {c \in Calls : calls[c].pc \in {"provider", "refund"} /\ Window(w, calls[c].made) = k}
Open(w, k) == OpenOf(call, w, k)

Bound(w, k) == IF k = usage[w].window THEN usage[w].count ELSE Limit[w]

Reckoned ==
  \A w \in Windows, k \in Times :
    /\ spent[w][k] + Cardinality(Open(w, k)) <= Bound(w, k) + forgotten[w][k] + late[w][k]
    /\ spent[w][k] + Cardinality(Open(w, k)) <= reserved[w][k]

UsageTyped == usage \in [Windows -> [window : Nat, count : Nat]] /\ policy <= changes + 1

Stamped == \A c \in Calls : call[c].at <= now

AllowanceInv == TypeOK /\ UsageTyped /\ Stamped /\ Reckoned /\ NothingCarriedOver

CallType == [pc : {"idle", "identity", "reserve", "provider", "refund"},
             at : Times, made : Times, policy : 1..policy, covered : BOOLEAN]
Tallies == [Windows -> [Times -> Nat]]

LEMMA OpenFinite ==
  ASSUME NEW w, NEW k
  PROVE  IsFiniteSet(Open(w, k)) /\ Cardinality(Open(w, k)) \in Nat
<1>1. Open(w, k) \in SUBSET Calls
  BY DEF Open, OpenOf
<1> QED
  BY <1>1, FS_Subset, FS_CardinalityType, GatewayAssumption

\* A request that changes enters or leaves the open reservations, or stays among them.
LEMMA OpenAfter ==
  ASSUME call \in [Calls -> CallType], NEW c \in Calls, NEW x \in CallType,
         call' = [call EXCEPT ![c] = x], NEW w \in Windows, NEW k \in Times
  PROVE  OpenOf(call', w, k) = IF x.pc \in {"provider", "refund"} /\ Window(w, x.made) = k
                               THEN OpenOf(call, w, k) \cup {c} ELSE OpenOf(call, w, k) \ {c}
<1>1. \A d \in Calls : call'[d] = IF d = c THEN x ELSE call[d]
  OBVIOUS
<1>2. c \in OpenOf(call', w, k) <=> x.pc \in {"provider", "refund"} /\ Window(w, x.made) = k
  BY <1>1 DEF OpenOf
<1>3. \A d \in Calls \ {c} : d \in OpenOf(call', w, k) <=> d \in OpenOf(call, w, k)
  BY <1>1 DEF OpenOf
<1>4. OpenOf(call', w, k) \subseteq Calls /\ OpenOf(call, w, k) \subseteq Calls
  BY DEF OpenOf
<1> QED
  BY <1>2, <1>3, <1>4, Zenon

\* One more in a window of each length.
LEMMA TallyTyped ==
  ASSUME NEW f \in Tallies, NEW t \in Times
  PROVE  /\ Tally(f, t) \in Tallies
         /\ \A w \in Windows, k \in Times :
               Tally(f, t)[w][k] = IF k = Window(w, t) THEN f[w][k] + 1 ELSE f[w][k]
<1>1. \A w \in Windows : f[w] \in [Times -> Nat] /\ Window(w, t) \in Times
  BY WindowTyped DEF Tallies
<1>2. \A w \in Windows : Tally(f, t)[w] = [f[w] EXCEPT ![Window(w, t)] = @ + 1]
  BY DEF Tally
<1>3. \A w \in Windows, k \in Times :
         Tally(f, t)[w][k] = IF k = Window(w, t) THEN f[w][k] + 1 ELSE f[w][k]
  <2> SUFFICES ASSUME NEW w \in Windows, NEW k \in Times
               PROVE  Tally(f, t)[w][k] = IF k = Window(w, t) THEN f[w][k] + 1 ELSE f[w][k]
    OBVIOUS
  <2>1. f[w] \in [Times -> Nat] /\ Tally(f, t)[w] = [f[w] EXCEPT ![Window(w, t)] = @ + 1]
    BY <1>1, <1>2
  <2> QED
    BY <2>1
<1>4. ASSUME NEW w \in Windows PROVE Tally(f, t)[w] \in [Times -> Nat]
  <2>1. f[w] \in [Times -> Nat] /\ f[w][Window(w, t)] + 1 \in Nat
    BY <1>1, <1>4
  <2> QED
    BY <2>1, <1>2, <1>4
<1> QED
  BY <1>3, <1>4 DEF Tallies, Tally

LEMMA InitAllowance == Init => AllowanceInv
<1> SUFFICES ASSUME Init PROVE AllowanceInv
  OBVIOUS
<1>1. 0 \in Times /\ MaxTime \in Nat /\ MaxRequests \in Nat /\ MaxChanges \in Nat
      /\ \A w \in Windows : Limit[w] \in Nat
  BY GatewayAssumption DEF Times
<1>2. \A w \in Windows : Window(w, 0) \in Nat
  BY <1>1, WindowTyped
<1>3. NothingYet \in Tallies /\ \A w \in Windows, k \in Times : NothingYet[w][k] = 0
  BY DEF NothingYet, Tallies
<1>4. UsageTyped
  BY DEF Init, UsageTyped
<1>5. TypeOK
  BY <1>1, <1>2, <1>3 DEF Init, TypeOK, Tallies, Idle
<1>6. Reckoned
  <2> SUFFICES ASSUME NEW w \in Windows, NEW k \in Times
               PROVE  /\ spent[w][k] + Cardinality(Open(w, k)) <= Bound(w, k) + forgotten[w][k] + late[w][k]
                      /\ spent[w][k] + Cardinality(Open(w, k)) <= reserved[w][k]
    BY DEF Reckoned
  <2>1. Open(w, k) = {}
    BY DEF Init, Open, OpenOf, Idle
  <2>2. Cardinality(Open(w, k)) = 0 /\ Bound(w, k) \in Nat /\ Bound(w, k) >= 0
    BY <1>1, <2>1, FS_EmptySet DEF Init, Bound
  <2>3. spent[w][k] = 0 /\ reserved[w][k] = 0 /\ forgotten[w][k] = 0 /\ late[w][k] = 0
    BY <1>3 DEF Init
  <2> QED
    BY <2>2, <2>3
<1>7. NothingCarriedOver
  BY <1>1, <1>3 DEF Init, NothingCarriedOver
<1>8. Stamped
  BY DEF Init, Stamped, Idle
<1> QED
  BY <1>4, <1>5, <1>6, <1>7, <1>8 DEF AllowanceInv

\* Steps that neither count nor refund: reservations may be given up, never taken.
LEMMA NoCounting ==
  ASSUME AllowanceInv, UNCHANGED <<usage, observed>>, policy' <= changes' + 1,
         \A w \in Windows, k \in Times : Open(w, k)' \subseteq Open(w, k)
  PROVE  UsageTyped' /\ Reckoned' /\ NothingCarriedOver'
<1>1. UsageTyped' /\ NothingCarriedOver'
  BY DEF AllowanceInv, UsageTyped, NothingCarriedOver, observed
<1>2. Reckoned'
  <2> SUFFICES ASSUME NEW w \in Windows, NEW k \in Times
               PROVE  /\ spent[w][k] + Cardinality(Open(w, k)') <= Bound(w, k) + forgotten[w][k] + late[w][k]
                      /\ spent[w][k] + Cardinality(Open(w, k)') <= reserved[w][k]
    BY DEF Reckoned, Bound, observed
  <2> DEFINE o == Cardinality(Open(w, k)')
             n == Cardinality(Open(w, k))
             b == Bound(w, k)
  <2>1. o <= n /\ o \in Nat
    BY OpenFinite, FS_Subset, FS_CardinalityType
  <2>2. n \in Nat /\ b \in Nat
    BY OpenFinite, GatewayAssumption DEF UsageTyped, Bound, AllowanceInv
  <2>3. {spent[w][k], reserved[w][k], forgotten[w][k], late[w][k]} \subseteq Nat
    BY DEF AllowanceInv, TypeOK
  <2>4. spent[w][k] + n <= b + forgotten[w][k] + late[w][k] /\ spent[w][k] + n <= reserved[w][k]
    BY DEF AllowanceInv, Reckoned
  <2> HIDE DEF o, n, b
  <2>5. spent[w][k] + o <= b + forgotten[w][k] + late[w][k] /\ spent[w][k] + o <= reserved[w][k]
    BY <2>1, <2>2, <2>3, <2>4
  <2> QED
    BY <2>5 DEF o, b
<1> QED
  BY <1>1, <1>2

LEMMA DocumentAllowance ==
  ASSUME AllowanceInv,
         StartConsent \/ RecordConsent \/ RevokeEntitlement \/ Block \/ Redeploy \/ Tick
  PROVE  AllowanceInv'
<1> USE DEF TypeOK
<1>1. TypeOK
  BY DEF AllowanceInv
<1>2. UNCHANGED <<usage, observed>>
  BY DEF StartConsent, RecordConsent, RevokeEntitlement, Block, Redeploy, Tick, document
<1>3. \A c \in Calls : call'[c].pc = call[c].pc /\ call'[c].at = call[c].at /\ call'[c].made = call[c].made
  <2>1. CASE RecordConsent
    BY <1>1, <2>1 DEF RecordConsent, CoveredBy
  <2>2. CASE ~RecordConsent
    BY <2>2 DEF StartConsent, RevokeEntitlement, Block, Redeploy, Tick
  <2> QED
    BY <2>1, <2>2
<1>4. \A w \in Windows, k \in Times : Open(w, k)' \subseteq Open(w, k)
  BY <1>3 DEF Open, OpenOf, Window
<1>5. policy' <= changes' + 1
  BY <1>1 DEF AllowanceInv, UsageTyped, StartConsent, RecordConsent, RevokeEntitlement, Block,
              Redeploy, Tick, Change, document
<1>6. UsageTyped' /\ Reckoned' /\ NothingCarriedOver'
  BY <1>2, <1>4, <1>5, NoCounting
<1>8. Stamped'
  <2>1. now' = now \/ now' = now + 1
    BY DEF StartConsent, RecordConsent, RevokeEntitlement, Block, Redeploy, Tick, document
  <2> SUFFICES ASSUME NEW c \in Calls PROVE call'[c].at <= now'
    BY DEF Stamped
  <2>2. call[c].at <= now /\ call[c].at \in Nat /\ now \in Nat
    BY <1>1, GatewayAssumption DEF AllowanceInv, Stamped, Times
  <2> QED
    BY <1>3, <2>1, <2>2
<1>7. TypeOK'
  <2>1. CASE StartConsent
    BY <1>1, <2>1, GatewayAssumption DEF StartConsent, Change, document, observed
  <2>2. CASE RecordConsent
    <3>1. call' \in [Calls -> CallType]
      <4> SUFFICES ASSUME NEW c \in Calls
                   PROVE  call'[c] \in CallType
        BY <2>2 DEF RecordConsent, CoveredBy
      <4>1. call[c] \in CallType
        BY <1>1 DEF CallType
      <4>2. call'[c] = call[c] \/
            \E b \in BOOLEAN : call'[c] = [call[c] EXCEPT !.covered = call[c].covered \/ b]
        BY <2>2 DEF RecordConsent, CoveredBy
      <4> QED
        BY <4>1, <4>2 DEF CallType
    <3> QED
      BY <1>1, <2>2, <3>1 DEF RecordConsent, CallType, observed
  <2>3. CASE RevokeEntitlement \/ Block
    BY <1>1, <2>3, GatewayAssumption DEF RevokeEntitlement, Block, Change, observed
  <2>4. CASE Redeploy
    <3>1. call' \in [Calls -> CallType']
      BY <1>1, <2>4 DEF Redeploy, CallType
    <3>2. policy' \in 1..(MaxChanges + 1)
      BY <1>1, <2>4, GatewayAssumption DEF Redeploy, Change, AllowanceInv, UsageTyped
    <3> QED
      BY <1>1, <2>4, <3>1, <3>2, GatewayAssumption DEF Redeploy, Change, CallType, observed
  <2>5. CASE Tick
    <3>1. now' \in Times /\ now \in Nat /\ now' = now + 1
      BY <1>1, <2>5, GatewayAssumption DEF Tick, Times
    <3>2. ASSUME NEW w \in Windows
          PROVE  usage'[w].window \in 0..Window(w, now)' /\ usage'[w].count \in 0..Limit[w]
      <4>1. Length[w] \in Nat \ {0} /\ now <= now + 1
        BY <3>1, GatewayAssumption
      <4>2. Window(w, now) <= Window(w, now + 1)
        BY <3>1, <4>1, WindowsAdvance DEF Window
      <4>5. Window(w, now) \in Nat /\ Window(w, now + 1) \in Nat
        BY <1>1, <3>1, WindowTyped
      <4>3. usage[w].window \in 0..Window(w, now)
        BY <1>1
      <4>4. usage[w].window \in 0..Window(w, now + 1)
        BY <4>2, <4>3, <4>5
      <4> QED
        BY <1>1, <2>5, <3>1, <4>4 DEF Tick, document, Window
    <3> QED
      BY <1>1, <2>5, <3>1, <3>2 DEF Tick, document, observed
  <2> QED
    BY <2>1, <2>2, <2>3, <2>4, <2>5
<1> QED
  BY <1>6, <1>7, <1>8 DEF AllowanceInv

\* The steps of a request that neither reserve, nor end, nor refund it.
LEMMA PassingSteps ==
  ASSUME AllowanceInv, NEW c \in Calls,
         Receive(c) \/ Authorize(c) \/ Reject(c) \/ OverQuota(c) \/ ReleaseFails(c)
  PROVE  AllowanceInv'
<1>1. /\ call \in [Calls -> CallType] /\ policy \in Nat /\ 0 \in Times /\ 1 \in 1..policy
      /\ now \in Times /\ 0 <= now /\ \A d \in Calls : call[d].at <= now
  BY GatewayAssumption DEF AllowanceInv, TypeOK, CallType, Times, Stamped
<1>2. PICK x \in CallType : /\ call' = [call EXCEPT ![c] = x]
                            /\ x.pc \notin {"provider", "refund"} /\ x.at <= now
  <2>1. Idle \in CallType /\ Idle.pc = "idle" /\ Idle.at <= now
    BY <1>1 DEF Idle, CallType
  <2>2. CASE Receive(c)
    <3> DEFINE y == [pc |-> "identity", at |-> 0, made |-> 0, policy |-> policy,
                     covered |-> Entitled(policy)]
    <3>1. call' = [call EXCEPT ![c] = y]
      BY <2>2 DEF Receive
    <3>2. policy \in 1..policy /\ Entitled(policy) \in BOOLEAN
      BY <1>1 DEF Entitled
    <3>3. y \in CallType /\ y.pc = "identity" /\ y.at <= now
      BY <1>1, <3>2 DEF CallType
    <3> QED
      BY <3>1, <3>3
  <2>3. CASE Authorize(c)
    <3> DEFINE y == [call[c] EXCEPT !.pc = "reserve", !.at = now]
    <3>1. call' = [call EXCEPT ![c] = y] \/ call' = [call EXCEPT ![c] = Idle]
      BY <1>1, <2>3 DEF Authorize
    <3>2. y \in CallType /\ y.pc = "reserve" /\ y.at = now
      BY <1>1 DEF CallType
    <3>3. now <= now
      BY <1>1, GatewayAssumption DEF Times
    <3> HIDE DEF y
    <3> QED
      BY <2>1, <3>1, <3>2, <3>3
  <2>4. CASE Reject(c) \/ OverQuota(c) \/ ReleaseFails(c)
    BY <2>1, <2>4 DEF Reject, OverQuota, ReleaseFails
  <2> QED
    BY <2>2, <2>3, <2>4
<1>3. /\ UNCHANGED <<now, document, consent, changes, observed>>
      /\ requests' \in 0..MaxRequests
  BY GatewayAssumption
     DEF Receive, Authorize, Reject, OverQuota, ReleaseFails, document, AllowanceInv, TypeOK
<1>4. \A w \in Windows, k \in Times : Open(w, k)' \subseteq Open(w, k)
  BY <1>1, <1>2, OpenAfter DEF Open, OpenOf, Window
<1>5. policy' <= changes' + 1
  BY <1>3 DEF document, AllowanceInv, UsageTyped
<1>6. UsageTyped' /\ Reckoned' /\ NothingCarriedOver'
  BY <1>3, <1>4, <1>5, NoCounting DEF document
<1>7. call' \in [Calls -> CallType]
  BY <1>1, <1>2
<1>8. TypeOK'
  BY <1>3, <1>7 DEF AllowanceInv, TypeOK, CallType, document, observed, Window
<1>9. Stamped'
  BY <1>1, <1>2, <1>3 DEF Stamped
<1> QED
  BY <1>6, <1>8, <1>9 DEF AllowanceInv

LEMMA ReserveSteps ==
  ASSUME AllowanceInv, NEW c \in Calls, Reserve(c)
  PROVE  AllowanceInv'
<1> DEFINE t == call[c].at
           x == [call[c] EXCEPT !.pc = "provider", !.made = call[c].at]
<1>1. /\ call \in [Calls -> CallType] /\ now \in Times /\ usage \in [Windows -> [window : Nat, count : Nat]]
      /\ reserved \in Tallies /\ forgotten \in Tallies /\ \A w \in Windows : Limit[w] \in Nat
  BY GatewayAssumption DEF AllowanceInv, TypeOK, CallType, UsageTyped, Tallies
<1>2. /\ call[c].pc = "reserve" /\ \A w \in Windows : ~(Count(w, t) >= Limit[w])
      /\ usage' = [w \in Windows |-> [window |-> Window(w, t), count |-> Count(w, t) + 1]]
      /\ reserved' = Tally(reserved, t) /\ forgotten' = Forget(t) /\ call' = [call EXCEPT ![c] = x]
      /\ UNCHANGED <<now, receipt, policy, consent, requests, changes, spent, late>>
  BY <1>1 DEF Reserve, Exhausted, Counted
<1>3. x \in CallType /\ x.pc = "provider" /\ x.at = t /\ x.made = t
  BY <1>1 DEF CallType
<1>4. t \in Times /\ t <= now
  BY <1>1 DEF CallType, AllowanceInv, Stamped
<1> HIDE DEF x, t
<1>5. ASSUME NEW w \in Windows
      PROVE  /\ Window(w, t) \in Times /\ Window(w, t) \in Nat
             /\ Window(w, t) <= Window(w, now) /\ Window(w, now) \in Nat
  <2>1. Length[w] \in Nat \ {0} /\ t \in Nat /\ now \in Nat
    BY <1>1, <1>4, GatewayAssumption DEF Times
  <2> QED
    BY <1>1, <1>4, <2>1, WindowTyped, WindowsAdvance DEF Window
<1>6. ASSUME NEW w \in Windows
      PROVE  /\ Count(w, t) \in Nat /\ Count(w, t) + 1 <= Limit[w]
             /\ usage'[w].window = Window(w, t) /\ usage'[w].count = Count(w, t) + 1
  BY <1>1, <1>2 DEF Count
<1>7. UsageTyped'
  BY <1>2, <1>5, <1>6 DEF UsageTyped, AllowanceInv
<1>8. ASSUME NEW w \in Windows, NEW k \in Times
      PROVE  /\ forgotten'[w] \in [Times -> Nat]
             /\ forgotten'[w][k] = IF k = Window(w, t) /\ k # usage[w].window THEN reserved[w][k]
                                   ELSE forgotten[w][k]
  <2>1. /\ forgotten[w] \in [Times -> Nat] /\ reserved[w] \in [Times -> Nat]
        /\ reserved[w][Window(w, t)] \in Nat /\ Window(w, t) \in Times
    BY <1>1, <1>5 DEF Tallies
  <2>2. forgotten'[w] = IF usage[w].window = Window(w, t) THEN forgotten[w]
                        ELSE [forgotten[w] EXCEPT ![Window(w, t)] = reserved[w][Window(w, t)]]
    BY <1>2 DEF Forget
  <2> QED
    BY <2>1, <2>2
<1>9. reserved' \in Tallies /\ forgotten' \in Tallies /\ call' \in [Calls -> CallType]
  <2>1. reserved' \in Tallies
    BY <1>1, <1>2, <1>4, TallyTyped
  <2>2. forgotten' \in Tallies
    <3>1. 0 \in Times
      BY GatewayAssumption DEF Times
    <3> QED
      BY <1>2, <1>8, <3>1 DEF Tallies, Forget
  <2> QED
    BY <1>1, <1>2, <1>3, <2>1, <2>2
<1>10. Stamped'
  BY <1>1, <1>2, <1>3, <1>4 DEF Stamped, AllowanceInv
<1>11. TypeOK'
  <2>1. TypeOK
    BY DEF AllowanceInv
  <2>2. \A w \in Windows : usage'[w].window \in 0..Window(w, now)' /\ usage'[w].count \in 0..Limit[w]
    <3> SUFFICES ASSUME NEW w \in Windows
                 PROVE  usage'[w].window \in 0..Window(w, now) /\ usage'[w].count \in 0..Limit[w]
      BY <1>2 DEF Window
    <3> QED
      BY <1>1, <1>5, <1>6
  <2>3. \A observer \in {spent', reserved', forgotten', late'} : observer \in Tallies
    BY <1>2, <1>9, <2>1 DEF TypeOK, Tallies
  <2>4. call' \in [Calls -> CallType]'
    BY <1>2, <1>9 DEF CallType
  <2> QED
    BY <1>2, <2>1, <2>2, <2>3, <2>4 DEF TypeOK, CallType, Tallies
<1>12. NothingCarriedOver'
  <2> SUFFICES ASSUME NEW w \in Windows
               PROVE  Count(w, t) + 1 <= reserved'[w][Window(w, t)]
    BY <1>6 DEF NothingCarriedOver
  <2>1. reserved'[w][Window(w, t)] = reserved[w][Window(w, t)] + 1
    BY <1>1, <1>2, <1>4, <1>5, TallyTyped
  <2>2. reserved[w][Window(w, t)] \in Nat
    BY <1>1, <1>5 DEF Tallies
  <2>3. Count(w, t) <= reserved[w][Window(w, t)]
    BY <1>6, <2>2 DEF Count, AllowanceInv, NothingCarriedOver
  <2> QED
    BY <1>6, <2>1, <2>2, <2>3
<1>13. Reckoned'
  <2> SUFFICES ASSUME NEW w \in Windows, NEW k \in Times
               PROVE  /\ spent[w][k] + Cardinality(Open(w, k)') <= Bound(w, k)' + forgotten'[w][k] + late[w][k]
                      /\ spent[w][k] + Cardinality(Open(w, k)') <= reserved'[w][k]
    BY <1>2 DEF Reckoned
  <2> DEFINE o == Cardinality(Open(w, k)')
             n == Cardinality(Open(w, k))
             b == Bound(w, k)
             after == Bound(w, k)'
             here == Window(w, t) = k
             there == usage[w].window = k
  <2>1. /\ spent[w][k] + n <= b + forgotten[w][k] + late[w][k] /\ spent[w][k] + n <= reserved[w][k]
        /\ {spent[w][k], late[w][k], reserved[w][k], forgotten[w][k], n} \subseteq Nat
    BY OpenFinite DEF AllowanceInv, Reckoned, TypeOK
  <2>2. o = IF here THEN n + 1 ELSE n
    <3>1. c \notin Open(w, k)
      BY <1>2 DEF Open, OpenOf
    <3>2. Open(w, k)' = IF here THEN Open(w, k) \cup {c} ELSE Open(w, k) \ {c}
      BY <1>1, <1>2, <1>3, OpenAfter DEF Open, OpenOf, Window
    <3>3. CASE here
      BY <3>1, <3>2, <3>3, OpenFinite, FS_AddElement
    <3>4. CASE ~here
      <4>1. Open(w, k)' = Open(w, k)
        BY <3>1, <3>2, <3>4
      <4> QED
        BY <4>1, <3>4
    <3> QED
      BY <3>3, <3>4
  <2>3. /\ reserved'[w][k] = IF here THEN reserved[w][k] + 1 ELSE reserved[w][k]
        /\ forgotten'[w][k] = IF here /\ ~there THEN reserved[w][k] ELSE forgotten[w][k]
    BY <1>1, <1>2, <1>4, <1>8, TallyTyped
  <2>4. usage[w].count \in Nat /\ usage[w].count <= Limit[w] /\ Limit[w] \in Nat
    BY <1>1 DEF AllowanceInv, TypeOK
  <2>5. b = IF there THEN usage[w].count ELSE Limit[w]
    BY DEF Bound
  <2>6. after = IF here THEN (IF there THEN usage[w].count + 1 ELSE 1) ELSE Limit[w]
    <3>1. after = IF here THEN Count(w, t) + 1 ELSE Limit[w]
      BY <1>2, <1>6 DEF Bound
    <3>2. here => Count(w, t) = IF there THEN usage[w].count ELSE 0
      BY DEF Count
    <3> QED
      BY <3>1, <3>2
  <2> HIDE DEF o, n, b, after, here, there
  <2>7. spent[w][k] + o <= reserved'[w][k]
    BY <2>1, <2>2, <2>3
  <2>8. spent[w][k] + o <= after + forgotten'[w][k] + late[w][k]
    BY <2>1, <2>2, <2>3, <2>4, <2>5, <2>6
  <2> QED
    BY <2>7, <2>8 DEF o, after
<1> QED
  BY <1>7, <1>10, <1>11, <1>12, <1>13 DEF AllowanceInv

LEMMA AnswerSteps ==
  ASSUME AllowanceInv, NEW c \in Calls, ProviderAnswers(c)
  PROVE  AllowanceInv'
<1> DEFINE y == [call[c] EXCEPT !.pc = "refund", !.at = now]
<1>1. /\ call \in [Calls -> CallType] /\ call[c].made \in Times /\ now \in Times
      /\ spent \in Tallies /\ policy \in Nat /\ 0 \in Times /\ 1 \in 1..policy
  BY GatewayAssumption DEF AllowanceInv, TypeOK, CallType, Tallies, Times
<1>2. /\ call[c].pc = "provider"
      /\ UNCHANGED <<now, document, consent, requests, changes, reserved, forgotten, late>>
      /\ \/ spent' = spent /\ call' = [call EXCEPT ![c] = y]
         \/ spent' = spent /\ call' = [call EXCEPT ![c] = Idle]
         \/ spent' = Tally(spent, call[c].made) /\ call' = [call EXCEPT ![c] = Idle]
  <2>1. PICK o \in Outcomes :
          /\ spent' = IF o[2] THEN Tally(spent, call[c].made) ELSE spent
          /\ call' = [call EXCEPT ![c] = IF o[1] \in Refundable THEN y ELSE Idle]
    BY <1>1 DEF ProviderAnswers
  <2>2. o[1] = "rejected" => ~o[2]
    <3>1. o = <<"answered", TRUE>> \/ o = <<"ambiguous", TRUE>> \/ o = <<"ambiguous", FALSE>>
          \/ o = <<"rejected", FALSE>>
      BY DEF Outcomes
    <3>2. o = <<"rejected", FALSE>> => ~o[2]
      OBVIOUS
    <3>3. o = <<"answered", TRUE>> => o[1] = "answered"
      OBVIOUS
    <3>4. o = <<"ambiguous", TRUE>> => o[1] = "ambiguous"
      OBVIOUS
    <3>5. o = <<"ambiguous", FALSE>> => o[1] = "ambiguous"
      OBVIOUS
    <3> QED
      BY <3>1, <3>2, <3>3, <3>4, <3>5
  <2> HIDE DEF y
  <2> QED
    BY <2>1, <2>2 DEF ProviderAnswers, Refundable
<1>3. /\ Idle \in CallType /\ Idle.pc = "idle" /\ Idle.at = 0
      /\ y \in CallType /\ y.pc = "refund" /\ y.at = now /\ y.made = call[c].made
  BY <1>1 DEF Idle, CallType
<1> HIDE DEF y
<1>4. spent' \in Tallies /\ call' \in [Calls -> CallType]
  BY <1>1, <1>2, <1>3, TallyTyped
<1>5. TypeOK' /\ UsageTyped' /\ NothingCarriedOver' /\ Stamped'
  <2>1. UsageTyped' /\ NothingCarriedOver'
    BY <1>2 DEF AllowanceInv, UsageTyped, NothingCarriedOver, document
  <2>2. TypeOK'
    BY <1>2, <1>4 DEF AllowanceInv, TypeOK, CallType, Tallies, document, Window
  <2>3. Stamped'
    <3>1. 0 <= now /\ now <= now
      BY <1>1, GatewayAssumption DEF Times
    <3> QED
      BY <1>1, <1>2, <1>3, <3>1 DEF AllowanceInv, Stamped
  <2> QED
    BY <2>1, <2>2, <2>3
<1>6. Reckoned'
  <2> SUFFICES ASSUME NEW w \in Windows, NEW k \in Times
               PROVE  /\ spent'[w][k] + Cardinality(Open(w, k)') <= Bound(w, k) + forgotten[w][k] + late[w][k]
                      /\ spent'[w][k] + Cardinality(Open(w, k)') <= reserved[w][k]
    BY <1>2 DEF Reckoned, Bound, document
  <2> DEFINE o == Cardinality(Open(w, k)')
             n == Cardinality(Open(w, k))
             here == Window(w, call[c].made) = k
  <2>1. n \in Nat /\ spent[w][k] \in Nat
    BY OpenFinite DEF AllowanceInv, TypeOK
  <2>2. c \in Open(w, k) <=> here
    BY <1>2 DEF Open, OpenOf
  <2>3. spent'[w][k] + o = spent[w][k] + n \/ spent'[w][k] + o = spent[w][k] + n - 1
    <3>1. CASE spent' = spent /\ call' = [call EXCEPT ![c] = y]
      <4>1. Open(w, k)' = IF here THEN Open(w, k) \cup {c} ELSE Open(w, k) \ {c}
        BY <1>1, <1>3, <3>1, OpenAfter DEF Open, OpenOf, Window
      <4>2. Open(w, k)' = Open(w, k)
        BY <2>2, <4>1
      <4> QED
        BY <3>1, <4>2
    <3>2. CASE call' = [call EXCEPT ![c] = Idle]
      <4>1. Open(w, k)' = Open(w, k) \ {c}
        BY <1>1, <1>3, <3>2, OpenAfter DEF Open, OpenOf, Window
      <4>2. o = IF here THEN n - 1 ELSE n
        BY <2>2, <4>1, OpenFinite, FS_RemoveElement
      <4>3. spent'[w][k] = spent[w][k] \/ (here /\ spent'[w][k] = spent[w][k] + 1)
        <5>1. CASE spent' = spent
          BY <5>1
        <5>2. CASE spent' = Tally(spent, call[c].made)
          <6>1. Tally(spent, call[c].made)[w][k] =
                  IF k = Window(w, call[c].made) THEN spent[w][k] + 1 ELSE spent[w][k]
            BY <1>1, TallyTyped
          <6> QED
            BY <5>2, <6>1
        <5> QED
          BY <1>2, <5>1, <5>2
      <4> HIDE DEF o, n, here
      <4> QED
        BY <2>1, <4>2, <4>3
    <3> QED
      BY <1>2, <3>1, <3>2
  <2>4. /\ spent[w][k] + n <= Bound(w, k) + forgotten[w][k] + late[w][k] /\ spent[w][k] + n <= reserved[w][k]
        /\ {late[w][k], reserved[w][k], forgotten[w][k], Bound(w, k)} \subseteq Nat
    BY GatewayAssumption DEF AllowanceInv, Reckoned, TypeOK, Bound, UsageTyped
  <2> DEFINE before == spent[w][k] + n
             sum == spent'[w][k] + o
             b == Bound(w, k)
  <2>5. before \in Nat /\ (sum = before \/ sum = before - 1) /\ b \in Nat
        /\ before <= b + forgotten[w][k] + late[w][k] /\ before <= reserved[w][k]
    BY <2>1, <2>3, <2>4
  <2> HIDE DEF before, sum, b
  <2>6. sum <= b + forgotten[w][k] + late[w][k] /\ sum <= reserved[w][k]
    BY <2>4, <2>5
  <2> QED
    BY <2>6 DEF sum, b
<1> QED
  BY <1>5, <1>6 DEF AllowanceInv

LEMMA ReleaseSteps ==
  ASSUME AllowanceInv, NEW c \in Calls, Release(c)
  PROVE  AllowanceInv'
<1> DEFINE t == call[c].at
<1>1. /\ call \in [Calls -> CallType] /\ late \in Tallies /\ t \in Times /\ now \in Times
      /\ usage \in [Windows -> [window : Nat, count : Nat]]
      /\ \A w \in Windows : Limit[w] \in Nat
  BY GatewayAssumption DEF AllowanceInv, TypeOK, CallType, Tallies, UsageTyped
<1>2. /\ call[c].pc = "refund" /\ call' = [call EXCEPT ![c] = Idle]
      /\ UNCHANGED <<now, receipt, policy, consent, requests, changes, spent, reserved, forgotten>>
      /\ usage' = Refunded(t)
      /\ late' = [w \in Windows |-> [late[w] EXCEPT ![Window(w, t)] =
                                       IF Misplaced(c, w) THEN @ + 1 ELSE @]]
  BY DEF Release
<1>3. Idle \in CallType /\ Idle.pc = "idle" /\ Idle.at = 0
  BY GatewayAssumption DEF Idle, CallType, AllowanceInv, TypeOK, Times
<1>4. \A w \in Windows : Window(w, t) \in Times /\ Window(w, t) \in Nat
  BY <1>1, WindowTyped
<1>5. ASSUME NEW w \in Windows, NEW k \in Times
      PROVE  /\ late'[w][k] \in Nat
             /\ late'[w][k] = IF k = Window(w, t) /\ Misplaced(c, w) THEN late[w][k] + 1
                              ELSE late[w][k]
  <2>1. late[w] \in [Times -> Nat] /\ Window(w, t) \in Times
    BY <1>1, <1>4 DEF Tallies
  <2>2. late'[w] = [late[w] EXCEPT ![Window(w, t)] = IF Misplaced(c, w) THEN @ + 1 ELSE @]
    BY <1>2
  <2> QED
    BY <2>1, <2>2
<1>6. late' \in Tallies
  <2>1. \A w \in Windows : late'[w] = [k \in Times |-> late'[w][k]]
    BY <1>1, <1>2 DEF Tallies
  <2>2. \A w \in Windows : late'[w] \in [Times -> Nat]
    BY <1>5, <2>1
  <2> QED
    BY <1>2, <2>2 DEF Tallies
<1>7. ASSUME NEW w \in Windows
      PROVE  /\ usage'[w].window = usage[w].window /\ usage'[w] \in [window : Nat, count : Nat]
             /\ usage'[w].count = IF usage[w].window = Window(w, t) /\ usage[w].count > 0
                                  THEN usage[w].count - 1 ELSE usage[w].count
  BY <1>1, <1>2 DEF Refunded
<1>8. UsageTyped'
  BY <1>2, <1>7 DEF UsageTyped, Refunded, AllowanceInv
<1>9. TypeOK'
  <2>1. call' \in [Calls -> CallType]
    BY <1>1, <1>2, <1>3
  <2>2. ASSUME NEW w \in Windows
        PROVE  usage'[w].window \in 0..Window(w, now) /\ usage'[w].count \in 0..Limit[w]
    <3>1. usage[w].window \in 0..Window(w, now) /\ usage[w].count \in 0..Limit[w] /\ Limit[w] \in Nat
      BY <1>1, <2>2 DEF AllowanceInv, TypeOK
    <3>2. usage'[w].window = usage[w].window
          /\ (usage'[w].count = usage[w].count \/ (usage[w].count > 0 /\ usage'[w].count = usage[w].count - 1))
      BY <1>7, <2>2
    <3> QED
      BY <3>1, <3>2
  <2> QED
    BY <1>2, <1>6, <2>1, <2>2 DEF AllowanceInv, TypeOK, CallType, Tallies, Window
<1>10. NothingCarriedOver'
  <2> SUFFICES ASSUME NEW w \in Windows
               PROVE  usage'[w].count <= reserved[w][usage[w].window]
    BY <1>2, <1>7 DEF NothingCarriedOver
  <2>1. usage[w].count \in Nat /\ usage[w].count <= reserved[w][usage[w].window]
        /\ usage'[w].count <= usage[w].count /\ usage'[w].count \in Nat
    BY <1>1, <1>7 DEF AllowanceInv, NothingCarriedOver
  <2>2. reserved[w][usage[w].window] \in Nat
    <3>1. usage[w].window \in Nat /\ usage[w].window <= Window(w, now) /\ Window(w, now) <= MaxTime
      BY <1>1, WindowTyped, GatewayAssumption DEF AllowanceInv, TypeOK, Times
    <3>2. usage[w].window \in Times
      BY <1>1, <3>1, WindowTyped, GatewayAssumption DEF Times
    <3> QED
      BY <3>2 DEF AllowanceInv, TypeOK
  <2> QED
    BY <2>1, <2>2
<1>12. Stamped'
  <2>1. 0 <= now
    BY <1>1, GatewayAssumption DEF Times
  <2> QED
    BY <1>1, <1>2, <1>3, <2>1 DEF AllowanceInv, Stamped
<1>11. Reckoned'
  <2> SUFFICES ASSUME NEW w \in Windows, NEW k \in Times
               PROVE  /\ spent[w][k] + Cardinality(Open(w, k)') <= Bound(w, k)' + forgotten[w][k] + late'[w][k]
                      /\ spent[w][k] + Cardinality(Open(w, k)') <= reserved[w][k]
    BY <1>2 DEF Reckoned
  <2> DEFINE o == Cardinality(Open(w, k)')
             n == Cardinality(Open(w, k))
             b == Bound(w, k)
             after == Bound(w, k)'
             here == Window(w, call[c].made) = k
             off == k = Window(w, t) /\ usage[w].window = Window(w, t) /\ usage[w].count > 0
  <2>1. /\ spent[w][k] + n <= b + forgotten[w][k] + late[w][k] /\ spent[w][k] + n <= reserved[w][k]
        /\ {spent[w][k], late[w][k], reserved[w][k], forgotten[w][k], n, b} \subseteq Nat
    BY OpenFinite, GatewayAssumption DEF AllowanceInv, Reckoned, TypeOK, Bound, UsageTyped
  <2>2. o = IF here THEN n - 1 ELSE n
    <3>1. c \in Open(w, k) <=> here
      BY <1>2 DEF Open, OpenOf
    <3>2. Open(w, k)' = Open(w, k) \ {c}
      BY <1>1, <1>2, <1>3, OpenAfter DEF Open, OpenOf, Window
    <3> QED
      BY <3>1, <3>2, OpenFinite, FS_RemoveElement
  <2>3. after = IF off THEN b - 1 ELSE b
    BY <1>1, <1>4, <1>7 DEF Bound
  <2>4. late'[w][k] = IF off /\ ~here THEN late[w][k] + 1 ELSE late[w][k]
    BY <1>5 DEF Misplaced
  <2> HIDE DEF o, n, b, after, here, off
  <2>5. spent[w][k] + o <= after + forgotten[w][k] + late'[w][k] /\ spent[w][k] + o <= reserved[w][k]
    BY <2>1, <2>2, <2>3, <2>4
  <2> QED
    BY <2>5 DEF o, after
<1> QED
  BY <1>8, <1>9, <1>10, <1>11, <1>12 DEF AllowanceInv

LEMMA NextAllowance == AllowanceInv /\ [Next]_vars => AllowanceInv'
<1> SUFFICES ASSUME AllowanceInv, [Next]_vars PROVE AllowanceInv'
  OBVIOUS
<1>1. CASE UNCHANGED vars
  <2>1. UNCHANGED <<usage, observed>> /\ policy' <= changes' + 1
    BY <1>1 DEF vars, observed, AllowanceInv, UsageTyped
  <2>2. \A w \in Windows, k \in Times : Open(w, k)' \subseteq Open(w, k)
    BY <1>1 DEF vars, Open, OpenOf, Window
  <2>3. UsageTyped' /\ Reckoned' /\ NothingCarriedOver'
    BY <2>1, <2>2, NoCounting
  <2>4. TypeOK' /\ Stamped'
    BY <1>1 DEF vars, AllowanceInv, TypeOK, Stamped, Window
  <2> QED
    BY <2>3, <2>4 DEF AllowanceInv
<1> QED
  BY <1>1, DocumentAllowance, PassingSteps, ReserveSteps, AnswerSteps, ReleaseSteps DEF Next

\* The reason why no window is overspent is an invariant of every execution.
THEOREM AllowanceInvariant == Spec => []AllowanceInv
  BY InitAllowance, NextAllowance, PTL DEF Spec

\* No counter passes its limit, no window lies in the future, and every variable keeps its type.
THEOREM TypeCorrect == Spec => []TypeOK
<1>1. AllowanceInv => TypeOK
  BY DEF AllowanceInv
<1> QED
  BY <1>1, AllowanceInvariant, PTL

\* The provider calls paid for in a window exceed its allowance at most by the refunds taken off
\* it for requests counted in another window, and, where a late transaction took the document to
\* another window and a later one back, by the reservations made before (quota.ts:8, quota.ts:57,
\* quota.ts:99).
THEOREM AllowanceHolds == Spec => []AllowanceKept
<1>1. AllowanceInv => AllowanceKept
  <2> SUFFICES ASSUME AllowanceInv, NEW w \in Windows, NEW k \in Times
               PROVE  spent[w][k] <= Limit[w] + forgotten[w][k] + late[w][k]
    BY DEF AllowanceKept
  <2> DEFINE n == Cardinality(Open(w, k))
             b == Bound(w, k)
  <2>1. /\ spent[w][k] + n <= b + forgotten[w][k] + late[w][k]
        /\ {spent[w][k], late[w][k], forgotten[w][k], n} \subseteq Nat
    BY OpenFinite DEF AllowanceInv, Reckoned, TypeOK
  <2>2. Limit[w] \in Nat /\ b \in Nat /\ b <= Limit[w]
    BY GatewayAssumption DEF AllowanceInv, TypeOK, UsageTyped, Bound
  <2> HIDE DEF n, b
  <2> QED
    BY <2>1, <2>2
<1> QED
  BY <1>1, AllowanceInvariant, PTL

\* A user is never charged in a window for what was reserved in another one (quota.ts:65).
THEOREM NothingIsCarriedOver == Spec => []NothingCarriedOver
<1>1. AllowanceInv => NothingCarriedOver
  BY DEF AllowanceInv
<1> QED
  BY <1>1, AllowanceInvariant, PTL
=============================================================================
