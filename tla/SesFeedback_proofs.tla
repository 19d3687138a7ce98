--------------------------- MODULE SesFeedback_proofs ---------------------------
(***************************************************************************)
(* For any number of mails, events, recoveries, keys and keyrings: the     *)
(* recipient stays blocked until a completed recovery has reviewed every   *)
(* bounce and complaint, no event waits for a key that is gone, the rows   *)
(* of his aliases agree, and what the events leave behind does not depend  *)
(* on their order.                                                         *)
(*                                                                         *)
(* None is inductive.  What blocks is an alias; that the running keys      *)
(* find it needs that no alias is of a key that is not configured, and     *)
(* that a recovery ends nothing it has not read needs what it read (IInv). *)
(* That a recovery leaves no row behind needs that what it has not read    *)
(* makes its swap fail (AgreeInv).  That order is forgotten needs what was *)
(* written last, everywhere, and that a mail with an event in the queue    *)
(* was not refused when it was claimed (FollowInv).                        *)
(***************************************************************************)
EXTENDS SesFeedback, FiniteSetTheorems, WellFoundedInduction, TLAPS

(* An alias has a revision, also one that is no row.                      *)
AliasesTyped == \A v \in Version : alias[v].revision \in Nat

AliasesAreOfRunningKeys == \A v \in Version : alias[v] # NoAlias => v \in Lookup

(* What a recovery read is of running keys and no newer than it expects.   *)
ReadAsExpected(r) ==
    /\ r.expected \in Nat
    /\ r.action \in {"REQUESTED", "COMPLETED", "FAILED"}
    /\ DOMAIN r.read \subseteq Lookup
    /\ \A v \in DOMAIN r.read : r.read[v] \in Nat /\ r.read[v] <= r.expected

RecoveriesTyped ==
    /\ recovery = [o \in Operation |-> recovery[o]]
    /\ \A o \in Operation : recovery[o] # NoRecovery => ReadAsExpected(recovery[o])

IInv ==
    /\ keyring \in Keyrings
    /\ AliasesTyped
    /\ AliasesAreOfRunningKeys
    /\ RecoveriesTyped
    /\ \A x \in open : x.revision \in Nat
    /\ BlockedUntilReviewed

-----------------------------------------------------------------------------
(* A set of naturals has a least element, a finite one a greatest.         *)
LEMMA Least == ASSUME NEW T \in SUBSET Nat, T # {} PROVE \E x \in T : \A y \in T : x <= y
<1>1. PICK x \in T : \A y \in T : ~(<<y, x>> \in OpToRel(<, Nat))
  BY NatLessThanWellFounded, WFMin
<1>2. ASSUME NEW y \in T PROVE x <= y
  <2>1. ~(y < x)
    BY <1>1 DEF OpToRel
  <2> QED BY <2>1
<1> QED BY <1>2

LEMMA MaxOfNat ==
  ASSUME NEW S \in SUBSET Nat, IsFiniteSet(S), S # {}
  PROVE  /\ Max(S) \in S
         /\ \A x \in S : x <= Max(S)
<1>1. PICK n \in Nat : ExistsSurjection(1..n, S)
  BY FS_NatSurjection
<1>2. PICK f \in Surjection(1..n, S) : TRUE
  BY <1>1 DEF ExistsSurjection
<1>3. f \in [1..n -> S] /\ \A x \in S : \E i \in 1..n : f[i] = x
  BY <1>2 DEF Surjection
<1> DEFINE Bounded(i) == \E b \in Nat : \A j \in 1..i : f[j] <= b
           Unbounded == {i \in 0..n : ~Bounded(i)}
<1>4. Unbounded = {}
  <2> SUFFICES ASSUME Unbounded # {} PROVE FALSE
    OBVIOUS
  <2>0. Unbounded \in SUBSET Nat
    OBVIOUS
  <2> HIDE DEF Unbounded
  <2>1. PICK i \in Unbounded : \A j \in Unbounded : i <= j
    BY <2>0, Least
  <2> USE DEF Unbounded
  <2>2. Bounded(0)
    <3>1. \A j \in 1..0 : f[j] <= 0
      OBVIOUS
    <3> QED
      BY <3>1
  <2>3. i \in 1..n /\ Bounded(i - 1) /\ ~Bounded(i)
    <3>1. i \in 0..n /\ ~Bounded(i)
      OBVIOUS
    <3> HIDE DEF Bounded
    <3>2. i # 0
      BY <2>2, <3>1
    <3>3. i - 1 \notin Unbounded
      BY <2>1, <3>1
    <3> QED
      BY <3>1, <3>2, <3>3
  <2> HIDE DEF Unbounded
  <2>4. PICK b \in Nat : \A j \in 1..(i - 1) : f[j] <= b
    BY <2>3
  <2>5. PICK c \in Nat : b <= c /\ f[i] <= c
    <3>1. f[i] \in Nat
      BY <1>3, <2>3
    <3> QED
      BY <3>1
  <2>6. ASSUME NEW j \in 1..i PROVE f[j] <= c
    <3>1. i \in 1..n
      BY <2>3
    <3>5. j \in 1..n
      BY <3>1
    <3>2. f[j] \in Nat
      BY <1>3, <3>5
    <3>3. CASE j = i
      BY <2>5, <3>3
    <3>4. CASE j \in 1..(i - 1)
      <4>1. f[j] <= b
        BY <2>4, <3>4
      <4> QED
        BY <2>5, <3>2, <4>1
    <3> QED
      BY <3>1, <3>3, <3>4
  <2> QED
    BY <2>3, <2>6
<1>5. PICK b \in Nat : \A j \in 1..n : f[j] <= b
  <2>1. n \notin Unbounded
    BY <1>4
  <2> QED
    BY <2>1
<1> DEFINE Above == {c \in Nat : \A x \in S : x <= c}
<1>6. b \in Above
  BY <1>3, <1>5
<1>7. PICK c \in Above : \A d \in Above : c <= d
  BY <1>6, Least
<1>8. c \in S
  <2> SUFFICES ASSUME c \notin S PROVE FALSE
    OBVIOUS
  <2>1. \A x \in S : x < c
    BY <1>7
  <2>2. PICK x \in S : TRUE
    OBVIOUS
  <2>3. c - 1 \in Above
    BY <2>1, <2>2
  <2> QED
    BY <1>7, <2>3
<1>9. \A y \in S : c >= y
  BY <1>7
<1> QED
  BY <1>8, <1>9 DEF Max
-----------------------------------------------------------------------------
(* The keys: finitely many, and the active one is among them.              *)
LEMMA KeysFinite ==
    ASSUME keyring \in Keyrings
    PROVE  /\ keyring.active \in Lookup
           /\ Lookup \subseteq Version
           /\ IsFiniteSet(Lookup)
<1>1. keyring.active \in Lookup /\ Lookup \subseteq Version
  BY SesFeedbackAssumption DEF Lookup, Keyring
<1>2. IsFiniteSet(Lookup)
  BY <1>1, SesFeedbackAssumption, FS_Subset
<1> QED
  BY <1>1, <1>2

(* The greatest revision of some aliases.                                  *)
LEMMA GreatestRevision ==
    ASSUME AliasesTyped, NEW V \in SUBSET Version, IsFiniteSet(V), V # {}
    PROVE  /\ Max({alias[v].revision : v \in V}) \in Nat
           /\ \A v \in V : alias[v].revision <= Max({alias[w].revision : w \in V})
<1> DEFINE R == {alias[v].revision : v \in V}
<1>1. R \in SUBSET Nat /\ R # {}
  BY DEF AliasesTyped
<1>2. IsFiniteSet(R)
  <2> DEFINE f == [v \in V |-> alias[v].revision]
  <2>1. f \in Surjection(V, R)
    BY DEF Surjection
  <2> QED
    BY <2>1, FS_Surjection
<1> HIDE DEF R
<1>3. Max(R) \in R /\ \A x \in R : x <= Max(R)
  BY <1>1, <1>2, MaxOfNat
<1> QED
  BY <1>1, <1>3 DEF R

LEMMA InitIInv == Init => IInv
  BY DEF Init, IInv, AliasesTyped, AliasesAreOfRunningKeys, RecoveriesTyped, NoAlias,
         NoRevision, BlockedUntilReviewed

-----------------------------------------------------------------------------
(* A bounce or complaint blocks every alias, with a revision no alias had. *)
LEMMA SuppressStep ==
    ASSUME IInv, NEW e, alias' = Suppressed(e), UNCHANGED <<keyring, recovery>>,
           open' = open \cup {[event |-> e, revision |-> NextRevision]}
    PROVE  IInv'
<1>1. /\ keyring.active \in Lookup /\ Lookup \subseteq Version /\ IsFiniteSet(Lookup)
      /\ Lookup # {}
  BY KeysFinite DEF IInv
<1>2. /\ NextRevision \in Nat
      /\ \A v \in Lookup : alias[v].revision <= NextRevision
  <2> DEFINE M == Max({alias[v].revision : v \in Lookup})
  <2>1. M \in Nat /\ \A v \in Lookup : alias[v].revision <= M
    BY <1>1, GreatestRevision DEF IInv
  <2>2. \A v \in Lookup : alias[v].revision \in Nat
    BY <1>1 DEF IInv, AliasesTyped
  <2>3. NextRevision = M + 1
    BY DEF NextRevision
  <2> HIDE DEF M
  <2> QED
    BY <2>1, <2>2, <2>3
<1>3. Lookup' = Lookup
  BY DEF Lookup
<1>4. PICK l : alias' = [v \in Version |->
                  IF v \in Lookup
                  THEN [status |-> "SUPPRESSED", revision |-> NextRevision, last |-> l]
                  ELSE alias[v]]
  BY DEF Suppressed
<1>5. AliasesTyped'
  BY <1>2, <1>4 DEF IInv, AliasesTyped
<1>6. AliasesAreOfRunningKeys'
  BY <1>3, <1>4 DEF IInv, AliasesAreOfRunningKeys, NoAlias
<1>7. RecoveriesTyped'
  BY <1>3 DEF IInv, RecoveriesTyped, ReadAsExpected
<1>8. \A x \in open' : x.revision \in Nat
  BY <1>2 DEF IInv
<1>9. BlockedUntilReviewed'
  <2> SUFFICES ASSUME NEW x \in open'
               PROVE  \E v \in Lookup : /\ alias'[v].status \in BlockedStatuses
                                          /\ alias'[v].revision >= x.revision
    BY <1>3 DEF BlockedUntilReviewed
  <2>1. x.revision <= NextRevision /\ x.revision \in Nat
    <3>1. CASE x \in open
      <4>1. PICK v \in Lookup : alias[v].revision >= x.revision
        BY <3>1 DEF IInv, BlockedUntilReviewed
      <4>2. alias[v].revision \in Nat /\ x.revision \in Nat
        BY <1>1, <3>1 DEF IInv, AliasesTyped
      <4> QED
        BY <1>2, <4>1, <4>2
    <3>2. CASE x = [event |-> e, revision |-> NextRevision]
      BY <1>2, <3>2
    <3> QED
      BY <3>1, <3>2
  <2>2. /\ alias'[keyring.active].status = "SUPPRESSED"
        /\ alias'[keyring.active].revision = NextRevision
    BY <1>1, <1>4
  <2> QED
    BY <1>1, <1>2, <2>1, <2>2 DEF BlockedStatuses
<1> QED
  BY <1>5, <1>6, <1>7, <1>8, <1>9 DEF IInv

(* Aliases that converge take one status and last event, and keep theirs.  *)
LEMMA ConvergedAliases ==
    ASSUME NEW a
    PROVE  \E s, l : Converge(a) =
             [v \in Version |-> IF v \in Lookup
                                THEN [status |-> s, revision |-> a[v].revision, last |-> l]
                                ELSE a[v]]
BY DEF Converge

(* What tells less than that leaves a blocked recipient alone.             *)
LEMMA NonterminalStep ==
    ASSUME IInv, NEW e, UNCHANGED <<keyring, recovery, open>>,
           alias' = IF DestinationStatus(e) = "none" \/ Blocked THEN alias
                    ELSE Converge(Updated(e))
    PROVE  IInv'
<1>1. Lookup' = Lookup
  BY DEF Lookup
<1>2. RecoveriesTyped' /\ \A x \in open' : x.revision \in Nat
  BY <1>1 DEF IInv, RecoveriesTyped, ReadAsExpected
<1>3. CASE alias' = alias
  BY <1>1, <1>2, <1>3
  DEF IInv, AliasesTyped, AliasesAreOfRunningKeys, BlockedUntilReviewed
<1>4. CASE ~Blocked /\ alias' = Converge(Updated(e))
  <2>1. Lookup \subseteq Version
    BY KeysFinite DEF IInv
  <2>2. open = {}
    BY <1>4 DEF IInv, BlockedUntilReviewed, Blocked
  <2> DEFINE u == Updated(e)
  <2>3. \A v \in Version :
          /\ u[v].revision = alias[v].revision
          /\ v \notin Lookup => u[v] = alias[v]
    BY DEF Updated
  <2> HIDE DEF u
  <2>4. \A v \in Version :
          /\ alias'[v].revision = u[v].revision
          /\ v \notin Lookup => alias'[v] = u[v]
    <3>1. alias' = Converge(u)
      BY <1>4 DEF u
    <3> QED
      BY <3>1, ConvergedAliases
  <2>7. AliasesAreOfRunningKeys'
    BY <1>1, <2>3, <2>4 DEF IInv, AliasesAreOfRunningKeys, NoAlias, NoRevision
  <2>8. AliasesTyped'
    BY <2>3, <2>4 DEF IInv, AliasesTyped
  <2> QED
    BY <1>2, <2>2, <2>7, <2>8 DEF IInv, BlockedUntilReviewed
<1> QED
  BY <1>3, <1>4

LEMMA PersistStep == ASSUME IInv, NEW e \in Event, Persist(e) PROVE IInv'
<1>1. UNCHANGED <<keyring, recovery>> /\ ApplyDestinationTransition(e)
  BY DEF Persist
<1>2. CASE IsTerminalMailboxEvent(e)
  BY <1>1, <1>2, SuppressStep DEF ApplyDestinationTransition
<1>3. CASE ~IsTerminalMailboxEvent(e)
  BY <1>1, <1>3, NonterminalStep DEF ApplyDestinationTransition
<1> QED
  BY <1>2, <1>3

-----------------------------------------------------------------------------
(* A recovery's transaction reads all aliases of the recipient.            *)
LEMMA ReadStep == ASSUME IInv, NEW o \in Operation, ReadDestinations(o) PROVE IInv'
<1>1. UNCHANGED <<keyring, alias, open>>
  BY DEF ReadDestinations
<1>2. /\ keyring' \in Keyrings /\ AliasesTyped' /\ AliasesAreOfRunningKeys'
      /\ \A x \in open' : x.revision \in Nat
      /\ BlockedUntilReviewed'
  BY <1>1 DEF IInv, AliasesTyped, AliasesAreOfRunningKeys, BlockedUntilReviewed, Lookup
<1>3. PICK action \in {"REQUESTED", "COMPLETED", "FAILED"}, n \in 1..Cardinality(Event) :
        /\ AsExpected(action, n)
        /\ recovery' = [recovery EXCEPT ![o] =
                          [action |-> action, expected |-> n,
                           read |-> [v \in Rows(alias) |-> alias[v].revision]]]
  BY DEF ReadDestinations
<1> DEFINE r == [action |-> action, expected |-> n,
                 read |-> [v \in Rows(alias) |-> alias[v].revision]]
<1>6. recovery'[o] = r /\ recovery' = [p \in Operation |-> recovery'[p]]
  BY <1>3 DEF IInv, RecoveriesTyped
<1>4. ReadAsExpected(recovery[o])'
  <2>1. Lookup \subseteq Version /\ IsFiniteSet(Lookup) /\ Lookup' = Lookup
    BY <1>1, KeysFinite DEF IInv, Lookup
  <2>2. Rows(alias) \subseteq Lookup /\ Rows(alias) # {}
    BY DEF ReadDestinations, Rows
  <2>3. IsFiniteSet(Rows(alias)) /\ Rows(alias) \in SUBSET Version
    BY <2>1, <2>2, FS_Subset
  <2>4. n \in Nat /\ \A v \in Rows(alias) : alias[v].revision <= n
    BY <1>3, <2>2, <2>3, GreatestRevision DEF IInv, AsExpected
  <2>5. \A v \in Rows(alias) : alias[v].revision \in Nat
    BY <2>3 DEF IInv, AliasesTyped
  <2> QED
    BY <1>6, <2>1, <2>2, <2>4, <2>5 DEF ReadAsExpected
<1>5. RecoveriesTyped'
  <2>1. \A p \in Operation : p # o => recovery'[p] = recovery[p]
    BY <1>3 DEF IInv, RecoveriesTyped
  <2>3. \A p \in Operation : p # o /\ recovery[p] # NoRecovery => ReadAsExpected(recovery[p])'
    BY <1>1, <2>1 DEF IInv, RecoveriesTyped, ReadAsExpected, Lookup
  <2> QED
    BY <1>4, <1>6, <2>1, <2>3 DEF RecoveriesTyped
<1> QED
  BY <1>2, <1>5 DEF IInv

(* Ending transactions keeps what is said of the others.                   *)
LEMMA RecoveriesEnd ==
    ASSUME IInv, Lookup' = Lookup,
           recovery' = [o \in Operation |-> recovery'[o]],
           \A o \in Operation : recovery'[o] = recovery[o] \/ recovery'[o] = NoRecovery
    PROVE  RecoveriesTyped'
BY DEF IInv, RecoveriesTyped, ReadAsExpected

(* Its swap unblocks nobody with an event newer than the one it reviewed.  *)
LEMMA SwapStep == ASSUME IInv, NEW o \in Operation, SwapDestinations(o) PROVE IInv'
<1> DEFINE r == recovery[o]
           Swapped == [v \in Version |->
                         IF v \in DOMAIN r.read
                         THEN [status |-> After(r.action), revision |-> alias[v].revision,
                               last |-> alias[v].last]
                         ELSE alias[v]]
<1>1. /\ keyring' = keyring /\ Lookup' = Lookup /\ Lookup \subseteq Version
      /\ keyring \in Keyrings
      /\ ReadAsExpected(r) /\ UnchangedSince(r) /\ alias' = Swapped
      /\ open' = IF r.action = "COMPLETED" THEN {x \in open : x.revision > r.expected} ELSE open
  BY KeysFinite DEF IInv, RecoveriesTyped, SwapDestinations, Lookup
<1>2. RecoveriesTyped'
  BY <1>1, RecoveriesEnd DEF SwapDestinations, IInv, RecoveriesTyped
<1> HIDE DEF r
<1>3. \A v \in Version :
        /\ alias'[v].revision = alias[v].revision
        /\ v \in DOMAIN r.read => alias'[v].status = After(r.action)
        /\ v \notin DOMAIN r.read => alias'[v] = alias[v]
  BY <1>1
<1>4. AliasesTyped'
  BY <1>3 DEF IInv, AliasesTyped
<1>5. AliasesAreOfRunningKeys'
  BY <1>1, <1>3 DEF IInv, AliasesAreOfRunningKeys, ReadAsExpected
<1>6. \A x \in open' : x \in open /\ x.revision \in Nat
  BY <1>1 DEF IInv
<1>7. BlockedUntilReviewed'
  <2> SUFFICES ASSUME NEW x \in open'
               PROVE  \E v \in Lookup : /\ alias'[v].status \in BlockedStatuses
                                          /\ alias'[v].revision >= x.revision
    BY <1>1 DEF BlockedUntilReviewed
  <2>1. PICK v \in Lookup : /\ alias[v].status \in BlockedStatuses
                             /\ alias[v].revision >= x.revision
    BY <1>6 DEF IInv, BlockedUntilReviewed
  <2>2. v \in Version /\ alias[v].revision \in Nat /\ alias'[v].revision = alias[v].revision
    BY <1>1, <1>3 DEF IInv, AliasesTyped
  <2>3. CASE v \notin DOMAIN r.read
    BY <1>3, <2>1, <2>2, <2>3
  <2>4. CASE v \in DOMAIN r.read /\ r.action # "COMPLETED"
    <3>1. After(r.action) \in BlockedStatuses
      BY <1>1, <2>4 DEF ReadAsExpected, After, BlockedStatuses
    <3> QED
      BY <1>3, <2>1, <2>2, <2>4, <3>1
  <2>5. CASE v \in DOMAIN r.read /\ r.action = "COMPLETED"
    <3>1. alias[v].revision <= r.expected /\ r.expected \in Nat
      BY <1>1, <2>5 DEF ReadAsExpected, UnchangedSince
    <3>2. x.revision > r.expected /\ x.revision \in Nat
      BY <1>1, <1>6, <2>5
    <3> QED
      BY <2>1, <2>2, <3>1, <3>2
  <2> QED
    BY <2>3, <2>4, <2>5
<1> QED
  BY <1>1, <1>2, <1>4, <1>5, <1>6, <1>7 DEF IInv

(* A step that changes no alias, no key and no open event keeps the rest.  *)
LEMMA QuietStep ==
    ASSUME IInv, UNCHANGED <<keyring, alias, open>>, RecoveriesTyped'
    PROVE  IInv'
BY DEF IInv, AliasesTyped, AliasesAreOfRunningKeys, BlockedUntilReviewed, Lookup

LEMMA ClaimStep == ASSUME IInv, NEW m \in Mail, Claim(m) PROVE IInv'
<1>1. UNCHANGED <<keyring, alias, recovery, open>>
  BY DEF Claim
<1>2. RecoveriesTyped'
  BY <1>1 DEF IInv, RecoveriesTyped, ReadAsExpected, Lookup
<1> QED
  BY <1>1, <1>2, QuietStep

LEMMA DeleteStep == ASSUME IInv, NEW e \in Event, Delete(e) PROVE IInv'
<1>1. UNCHANGED <<keyring, alias, recovery, open>>
  BY DEF Delete
<1>2. RecoveriesTyped'
  BY <1>1 DEF IInv, RecoveriesTyped, ReadAsExpected, Lookup
<1> QED
  BY <1>1, <1>2, QuietStep

LEMMA AbortStep == ASSUME IInv, NEW o \in Operation, AbortRecovery(o) PROVE IInv'
<1>1. UNCHANGED <<keyring, alias, open>> /\ Lookup' = Lookup
  BY DEF AbortRecovery, Lookup
<1>2. RecoveriesTyped'
  BY <1>1, RecoveriesEnd DEF IInv, RecoveriesTyped, AbortRecovery
<1> QED
  BY <1>1, <1>2, QuietStep

(* A blocking alias goes only when the active key's alias repeats it.      *)
LEMMA CleanupStep == ASSUME IInv, Cleanup PROVE IInv'
<1>1. PICK kept \in SUBSET audits :
        LET gone == {v \in Version : DeletableNonBlocking(v, kept) \/ DeletableBlocking(v, kept)}
        IN /\ alias' = [v \in Version |-> IF v \in gone THEN NoAlias ELSE alias[v]]
           /\ recovery' = [o \in Operation |->
                IF recovery[o] # NoRecovery /\ DOMAIN recovery[o].read \cap gone # {}
                THEN NoRecovery ELSE recovery[o]]
           /\ UNCHANGED <<keyring, open>>
  BY DEF Cleanup
<1> DEFINE gone == {v \in Version : DeletableNonBlocking(v, kept) \/ DeletableBlocking(v, kept)}
<1>2. /\ \A v \in Version : alias'[v] = IF v \in gone THEN NoAlias ELSE alias[v]
      /\ keyring' = keyring /\ open' = open /\ Lookup' = Lookup
      /\ keyring.active \in Lookup /\ Lookup \subseteq Version
  BY <1>1, KeysFinite DEF IInv, Lookup
<1>3. /\ keyring.active \notin gone
      /\ \A v \in gone : alias[v].status \in BlockedStatuses =>
                           alias[keyring.active] = alias[v]
  BY DEF DeletableNonBlocking, DeletableBlocking, Retired
<1>4. RecoveriesTyped'
  <2>1. /\ recovery' = [o \in Operation |-> recovery'[o]]
        /\ \A o \in Operation : recovery'[o] = recovery[o] \/ recovery'[o] = NoRecovery
    BY <1>1
  <2> QED
    BY <1>2, <2>1, RecoveriesEnd
<1> HIDE DEF gone
<1>5. AliasesTyped'
  BY <1>2 DEF IInv, AliasesTyped, NoAlias
<1>6. AliasesAreOfRunningKeys'
  BY <1>2 DEF IInv, AliasesAreOfRunningKeys, NoAlias, NoRevision
<1>7. BlockedUntilReviewed'
  <2> SUFFICES ASSUME NEW x \in open
               PROVE  \E v \in Lookup : /\ alias'[v].status \in BlockedStatuses
                                          /\ alias'[v].revision >= x.revision
    BY <1>2 DEF BlockedUntilReviewed
  <2>1. PICK v \in Lookup : /\ alias[v].status \in BlockedStatuses
                             /\ alias[v].revision >= x.revision
    BY DEF IInv, BlockedUntilReviewed
  <2>2. CASE v \in gone
    <3>1. alias'[keyring.active] = alias[v]
      BY <1>2, <1>3, <2>1, <2>2
    <3> QED
      BY <1>2, <2>1, <3>1
  <2>3. CASE v \notin gone
    BY <1>2, <2>1, <2>3
  <2> QED
    BY <2>2, <2>3
<1> QED
  BY <1>2, <1>4, <1>5, <1>6, <1>7 DEF IInv

(* The next keyring has every key an alias is of.                          *)
LEMMA RestartStep == ASSUME IInv, Restart PROVE IInv'
<1>1. /\ keyring' \in Keyrings
      /\ \A v \in Version : alias[v] # NoAlias => v \in keyring'.keys
      /\ recovery' = [o \in Operation |-> NoRecovery]
      /\ UNCHANGED <<alias, open>>
  BY DEF Restart, MayStart
<1>2. RecoveriesTyped'
  BY <1>1 DEF RecoveriesTyped
<1>3. AliasesAreOfRunningKeys' /\ AliasesTyped'
  BY <1>1 DEF IInv, AliasesTyped, AliasesAreOfRunningKeys, Lookup, NoAlias
<1>4. BlockedUntilReviewed'
  <2> SUFFICES ASSUME NEW x \in open
               PROVE  \E v \in keyring'.keys : /\ alias[v].status \in BlockedStatuses
                                                 /\ alias[v].revision >= x.revision
    BY <1>1 DEF BlockedUntilReviewed, Lookup
  <2>1. PICK v \in Lookup : /\ alias[v].status \in BlockedStatuses
                             /\ alias[v].revision >= x.revision
    BY DEF IInv, BlockedUntilReviewed
  <2>2. v \in Version /\ alias[v] # NoAlias
    BY <2>1, KeysFinite DEF IInv, NoAlias, BlockedStatuses
  <2> QED
    BY <1>1, <2>1, <2>2
<1> QED
  BY <1>1, <1>2, <1>3, <1>4 DEF IInv

LEMMA StepIInv == IInv /\ [Next]_vars => IInv'
<1> SUFFICES ASSUME IInv, [Next]_vars PROVE IInv'
  OBVIOUS
<1>1. CASE \E m \in Mail : Claim(m)
  BY <1>1, ClaimStep
<1>2. CASE \E e \in Event : Persist(e) \/ Delete(e)
  BY <1>2, PersistStep, DeleteStep
<1>3. CASE \E o \in Operation : ReadDestinations(o) \/ SwapDestinations(o) \/ AbortRecovery(o)
  BY <1>3, ReadStep, SwapStep, AbortStep
<1>4. CASE Cleanup
  BY <1>4, CleanupStep
<1>5. CASE Restart
  BY <1>5, RestartStep
<1>6. CASE UNCHANGED vars
  <2>1. UNCHANGED <<keyring, alias, recovery, open>>
    BY <1>6 DEF vars
  <2>2. RecoveriesTyped'
    BY <2>1 DEF IInv, RecoveriesTyped, ReadAsExpected, Lookup
  <2> QED
    BY <2>1, <2>2, QuietStep
<1> QED
  BY <1>1, <1>2, <1>3, <1>4, <1>5, <1>6 DEF Next

(* Whoever bounced or complained stays blocked until a completed recovery  *)
(* has reviewed it: suppressDestinationAliases gives every alias the next  *)
(* revision, and a recovery ends at the revision it expected.              *)
THEOREM StaysBlocked == Spec => []BlockedUntilReviewed
<1>1. IInv => BlockedUntilReviewed
  BY DEF IInv
<1> QED
  BY <1>1, InitIInv, StepIInv, PTL DEF Spec

-----------------------------------------------------------------------------
(* A row of email_deliveries is of a command, and stays so.                *)
IsRow(d) == "command" \in DOMAIN d /\ d.command = "mail"

(* The events in the queue are of mails that were sent and are not deleted, *)
(* hashed with a key the service runs with.                                *)
QueueInv ==
    /\ keyring \in Keyrings
    /\ queued \subseteq Event
    /\ DOMAIN delivery = Mail /\ DOMAIN hashed = Mail
    /\ \A m \in Mail : Stored(m) => IsRow(delivery[m])
    /\ QueuedEventsMatch

LEMMA RowsAreStored == ASSUME NEW d, IsRow(d) PROVE d \notin {NoRow, Gone}
BY DEF IsRow, NoRow, Gone

LEMMA FeedbackKeepsRow == ASSUME NEW d, NEW e, IsRow(d) PROVE IsRow(AfterFeedback(d, e))
<1> DEFINE attached == [d EXCEPT !.message = TRUE]
           told == SetCallerResult(attached, "ACCEPTED")
<1>1. IsRow(attached)
  BY DEF IsRow
<1> HIDE DEF attached
<1>2. IsRow(told)
  BY <1>1 DEF IsRow, SetCallerResult
<1> HIDE DEF told
<1>3. IsRow(ApplyDeliveryTransition(told, e))
  BY <1>2 DEF IsRow, ApplyDeliveryTransition
<1> QED
  BY <1>3 DEF AfterFeedback, told, attached

LEMMA InitQueueInv == Init => QueueInv
  BY DEF Init, QueueInv, QueuedEventsMatch, Stored

(* A step that keeps every mail, and every event in the queue but the      *)
(* deleted ones.                                                           *)
LEMMA MailsKept ==
    ASSUME QueueInv, UNCHANGED <<keyring, delivery, hashed>>, queued' \subseteq queued
    PROVE  QueueInv'
BY DEF QueueInv, QueuedEventsMatch, Matches, Stored, Lookup, IsRow, NoRow, Gone

LEMMA ClaimKeepsQueue == ASSUME QueueInv, NEW m \in Mail, Claim(m) PROVE QueueInv'
<1> DEFINE d == NewDelivery("mail", Blocked, NoLease)
<1>1. IsRow(d)
  BY DEF NewDelivery, IsRow
<1> HIDE DEF d
<1>2. /\ delivery' = [delivery EXCEPT ![m] = d]
      /\ hashed' = [hashed EXCEPT ![m] = keyring.active]
      /\ queued' \subseteq queued \cup {e \in Event : e.mail = m}
      /\ keyring' = keyring
  BY DEF Claim, d
<1>3. /\ DOMAIN delivery' = Mail /\ DOMAIN hashed' = Mail
      /\ delivery'[m] = d /\ hashed'[m] = keyring.active
      /\ \A n \in Mail : n # m => delivery'[n] = delivery[n] /\ hashed'[n] = hashed[n]
  BY <1>2 DEF QueueInv
<1>4. \A n \in Mail : Stored(n)' => IsRow(delivery'[n])
  BY <1>1, <1>3 DEF QueueInv, Stored, NoRow, Gone
<1>5. Stored(m)' /\ hashed'[m] \in Lookup'
  BY <1>1, <1>2, <1>3, RowsAreStored, KeysFinite DEF QueueInv, Stored, Lookup, NoRow, Gone
<1>6. \A n \in Mail : n # m /\ Stored(n) /\ hashed[n] \in Lookup =>
                        Stored(n)' /\ hashed'[n] \in Lookup'
  BY <1>2, <1>3 DEF Stored, Lookup, NoRow, Gone
<1>7. \A e \in queued' : e.mail \in Mail /\ (e.mail = m \/ e \in queued)
  BY <1>2, SesFeedbackAssumption DEF QueueInv
<1>8. QueuedEventsMatch'
  BY <1>5, <1>6, <1>7 DEF QueueInv, QueuedEventsMatch, Matches
<1> QED
  BY <1>2, <1>3, <1>4, <1>8 DEF QueueInv, IsRow

LEMMA PersistKeepsQueue == ASSUME QueueInv, NEW e \in Event, Persist(e) PROVE QueueInv'
<1> DEFINE m == e.mail
           d == AfterFeedback(delivery[m], e)
<1>1. /\ delivery' = [delivery EXCEPT ![m] = d]
      /\ UNCHANGED <<keyring, hashed, queued>>
      /\ Stored(m) /\ m \in Mail
  BY SesFeedbackAssumption DEF Persist, Matches
<1>2. IsRow(d)
  BY <1>1, FeedbackKeepsRow DEF QueueInv
<1> HIDE DEF d
<1>3. /\ DOMAIN delivery' = Mail /\ delivery'[m] = d
      /\ \A n \in Mail : n # m => delivery'[n] = delivery[n]
  BY <1>1 DEF QueueInv
<1>4. \A n \in Mail : Stored(n)' => IsRow(delivery'[n])
  BY <1>2, <1>3 DEF QueueInv, Stored, NoRow, Gone
<1>5. \A n \in Mail : Stored(n) => Stored(n)'
  BY <1>2, <1>3, RowsAreStored DEF Stored, NoRow, Gone
<1>6. QueuedEventsMatch'
  BY <1>1, <1>5, SesFeedbackAssumption DEF QueueInv, QueuedEventsMatch, Matches, Lookup
<1> QED
  BY <1>1, <1>3, <1>4, <1>6 DEF QueueInv, IsRow

(* Only mails without an event in the queue are deleted.                   *)
LEMMA CleanupKeepsQueue == ASSUME QueueInv, Cleanup PROVE QueueInv'
<1>1. PICK old \in SUBSET Mail :
        /\ \A e \in queued : e.mail \notin old
        /\ delivery' = [m \in Mail |-> IF m \in old THEN Gone ELSE delivery[m]]
        /\ UNCHANGED <<keyring, hashed, queued>>
  BY DEF Cleanup
<1>2. \A m \in Mail : Stored(m)' => Stored(m) /\ delivery'[m] = delivery[m]
  BY <1>1 DEF Stored, NoRow, Gone
<1>3. \A e \in queued : Stored(e.mail) => Stored(e.mail)'
  BY <1>1, SesFeedbackAssumption DEF QueueInv, Stored, NoRow, Gone
<1>4. QueuedEventsMatch'
  BY <1>1, <1>3 DEF QueueInv, QueuedEventsMatch, Matches, Lookup
<1> QED
  BY <1>1, <1>2, <1>4 DEF QueueInv, IsRow

(* onApplicationBootstrap looks at the keys the mails are hashed with.     *)
LEMMA RestartKeepsQueue == ASSUME QueueInv, Restart PROVE QueueInv'
<1>1. /\ keyring' \in Keyrings /\ UNCHANGED <<delivery, hashed, queued>>
      /\ \A m \in Mail : Stored(m) => hashed[m] \in keyring'.keys
  BY DEF Restart, MayStart, mails
<1>2. QueuedEventsMatch'
  BY <1>1, SesFeedbackAssumption
  DEF QueueInv, QueuedEventsMatch, Matches, Lookup, Stored, NoRow, Gone
<1> QED
  BY <1>1, <1>2 DEF QueueInv, Stored, IsRow, NoRow, Gone

LEMMA StepQueueInv == QueueInv /\ [Next]_vars => QueueInv'
<1> SUFFICES ASSUME QueueInv, [Next]_vars PROVE QueueInv'
  OBVIOUS
<1>1. CASE \E m \in Mail : Claim(m)
  BY <1>1, ClaimKeepsQueue
<1>2. CASE \E e \in Event : Persist(e)
  BY <1>2, PersistKeepsQueue
<1>3. CASE \/ \E e \in Event : Delete(e)
           \/ \E o \in Operation : ReadDestinations(o) \/ SwapDestinations(o) \/ AbortRecovery(o)
           \/ UNCHANGED vars
  <2>1. UNCHANGED <<keyring, delivery, hashed>> /\ queued' \subseteq queued
    BY <1>3 DEF Delete, ReadDestinations, SwapDestinations, AbortRecovery, vars, mails
  <2> QED
    BY <2>1, MailsKept
<1>4. CASE Cleanup
  BY <1>4, CleanupKeepsQueue
<1>5. CASE Restart
  BY <1>5, RestartKeepsQueue
<1> QED
  BY <1>1, <1>2, <1>3, <1>4, <1>5 DEF Next

(* No event is redelivered for ever: the running keyring always finds the  *)
(* mail an event in the queue is about, whatever rotations and cleanups.   *)
THEOREM EventsFindTheirMail == Spec => []QueuedEventsMatch
<1>1. QueueInv => QueuedEventsMatch
  BY DEF QueueInv
<1> QED
  BY <1>1, InitQueueInv, StepQueueInv, PTL DEF Spec
-----------------------------------------------------------------------------
(* Revisions are ordered, and finitely many have a newest.                 *)
Revisions == Nat \X Nat \X Nat

IsNewest(r, R) == r \in R /\ \A s \in R : ~OlderRevision(r, s)

LEMMA OlderIsOrder ==
    ASSUME NEW r \in Revisions, NEW s \in Revisions, NEW t \in Revisions
    PROVE  /\ ~OlderRevision(r, r)
           /\ r # s => OlderRevision(r, s) \/ OlderRevision(s, r)
           /\ OlderRevision(r, s) => ~OlderRevision(s, r)
           /\ OlderRevision(r, s) /\ OlderRevision(s, t) => OlderRevision(r, t)
BY DEF Revisions, OlderRevision

LEMMA NewestIs ==
    ASSUME NEW R \in SUBSET Revisions, NEW r, IsNewest(r, R) PROVE Newest(R) = r
<1>1. \A s \in R : (\A t \in R : ~OlderRevision(s, t)) => s = r
  <2> SUFFICES ASSUME NEW s \in R, \A t \in R : ~OlderRevision(s, t) PROVE s = r
    OBVIOUS
  <2>1. r \in Revisions /\ s \in Revisions /\ ~OlderRevision(r, s) /\ ~OlderRevision(s, r)
    BY DEF IsNewest
  <2> QED
    BY <2>1, OlderIsOrder
<1>2. r \in R /\ \A t \in R : ~OlderRevision(r, t)
  BY DEF IsNewest
<1> QED
  BY <1>1, <1>2 DEF Newest

LEMMA GreatestPart ==
    ASSUME NEW R \in SUBSET Revisions, IsFiniteSet(R), R # {}, NEW i \in 1..3
    PROVE  \E r \in R : \A s \in R : s[i] <= r[i]
<1> DEFINE N == {s[i] : s \in R}
           f == [s \in R |-> s[i]]
<1>1. f \in Surjection(R, N)
  BY DEF Surjection
<1>2. IsFiniteSet(N)
  BY <1>1, FS_Surjection
<1>3. N \in SUBSET Nat /\ N # {}
  <2>1. \A s \in R : s[i] \in Nat
    BY DEF Revisions
  <2> QED
    BY <2>1
<1> HIDE DEF N
<1>4. Max(N) \in N /\ \A x \in N : x <= Max(N)
  BY <1>2, <1>3, MaxOfNat
<1> QED
  BY <1>4 DEF N

LEMMA NewestExists ==
    ASSUME NEW R \in SUBSET Revisions, IsFiniteSet(R), R # {}
    PROVE  IsNewest(Newest(R), R)
<1>1. PICK a \in R : \A s \in R : s[1] <= a[1]
  BY GreatestPart
<1> DEFINE S == {s \in R : s[1] = a[1]}
<1>2. S \in SUBSET Revisions /\ IsFiniteSet(S) /\ S # {}
  BY FS_Subset
<1> HIDE DEF S
<1>3. PICK b \in S : \A s \in S : s[2] <= b[2]
  BY <1>2, GreatestPart
<1> DEFINE T == {s \in S : s[2] = b[2]}
<1>4. T \in SUBSET Revisions /\ IsFiniteSet(T) /\ T # {}
  BY <1>2, FS_Subset
<1> HIDE DEF T
<1>5. PICK c \in T : \A s \in T : s[3] <= c[3]
  BY <1>4, GreatestPart
<1>6. c \in R /\ c[1] = a[1] /\ c[2] = b[2]
  BY <1>5 DEF S, T
<1>7. ASSUME NEW s \in R PROVE ~OlderRevision(c, s)
  <2>1. s[1] <= c[1]
    BY <1>1, <1>6
  <2>2. s[1] = c[1] => s[2] <= c[2]
    BY <1>3, <1>6 DEF S
  <2>3. s[1] = c[1] /\ s[2] = c[2] => s[3] <= c[3]
    BY <1>5, <1>6 DEF S, T
  <2>4. c \in Revisions /\ s \in Revisions
    BY <1>6
  <2> QED
    BY <2>1, <2>2, <2>3, <2>4 DEF OlderRevision, Revisions
<1>8. IsNewest(c, R)
  BY <1>6, <1>7 DEF IsNewest
<1> QED
  BY <1>8, NewestIs

LEMMA EventRevision ==
    ASSUME NEW e \in Event
    PROVE  Revision(e) \in Revisions /\ OlderRevision(NoRevision, Revision(e))
<1>1. e.at \in Nat /\ e.id \in Nat
  BY SesFeedbackAssumption
<1>2. FeedbackPrecedence(e) \in Nat \ {0}
  BY DEF FeedbackPrecedence
<1> QED
  BY <1>1, <1>2 DEF Revision, Revisions, NoRevision, OlderRevision
-----------------------------------------------------------------------------
(* What a row of email_deliveries and an alias hold.                       *)
Delivery ==
    [command : {"mail"}, status : DeliveryStatuses, result : CommandResults \cup {Unset},
     lease : Int, attempts : Nat, message : BOOLEAN, last : Revisions]

Alias ==
    [status : BlockedStatuses \cup {"none", "ACTIVE", "TEMPORARY_FAILURE"},
     revision : Nat, last : Revisions]

Typed ==
    /\ delivery \in [Mail -> Delivery \cup {NoRow, Gone}]
    /\ hashed \in [Mail -> Version]
    /\ alias \in [Version -> Alias]
    /\ \A v \in Version : alias[v] # NoAlias => alias[v].status # "none"
    /\ queued \subseteq Event /\ events \subseteq Event
    /\ \A a \in audits : a.operation \in Operation /\ a.version \in Version
    /\ \A x \in open : x.event \in Event
    /\ plain \in BOOLEAN

Agree ==
    \A v, w \in Rows(alias) : alias[v].status = alias[w].status /\ alias[v].last = alias[w].last

(* A recovery holds all the rows, or its swap is bound to fail: while the  *)
(* recipient is not blocked it does, and what blocks him anew gives every  *)
(* alias a revision it did not read.                                       *)
HoldsAllRows(r) ==
    /\ DOMAIN r.read # {}
    /\ DOMAIN r.read \subseteq Rows(alias)
    /\ \/ Rows(alias) \subseteq DOMAIN r.read
       \/ ~Blocked
       \/ \A v \in DOMAIN r.read : alias[v].revision > r.read[v]
    /\ \A v \in DOMAIN r.read : alias[v].revision >= r.read[v]

AgreeInv ==
    /\ IInv
    /\ Typed
    /\ Agree
    /\ \A o \in Operation : recovery[o] # NoRecovery => HoldsAllRows(recovery[o])

-----------------------------------------------------------------------------
LEMMA FeedbackTyped ==
    ASSUME NEW d \in Delivery, NEW e \in Event PROVE AfterFeedback(d, e) \in Delivery
<1> DEFINE told == SetCallerResult([d EXCEPT !.message = TRUE], "ACCEPTED")
<1>1. told \in Delivery
  <2> DEFINE attached == [d EXCEPT !.message = TRUE]
  <2>1. attached \in Delivery
    BY DEF Delivery
  <2> HIDE DEF attached
  <2>2. SetCallerResult(attached, "ACCEPTED") \in Delivery
    <3>1. NoLease \in Int /\ "ACCEPTED" \in CommandResults \cup {Unset}
      BY DEF NoLease, CommandResults
    <3>2. [attached EXCEPT !.result = "ACCEPTED", !.lease = NoLease] \in Delivery
      BY <2>1, <3>1 DEF Delivery
    <3> QED
      BY <2>1, <3>2 DEF SetCallerResult
  <2> QED
    BY <2>2 DEF attached
<1> HIDE DEF told
<1>2. DeliveryStatus(e) \in DeliveryStatuses
  BY DEF DeliveryStatus, DeliveryStatuses, CommandResults
<1>3. ApplyDeliveryTransition(told, e) \in Delivery
  BY <1>1, <1>2, EventRevision DEF ApplyDeliveryTransition, Delivery
<1> QED
  BY <1>3 DEF AfterFeedback, told

LEMMA NoRowIsNoDelivery == NoRow \notin Delivery /\ Gone \notin Delivery
BY DEF NoRow, Gone, Delivery

LEMMA LookupFinite ==
    ASSUME AgreeInv
    PROVE  /\ Lookup \subseteq Version /\ IsFiniteSet(Lookup) /\ Lookup # {}
           /\ keyring.active \in Lookup
           /\ \A v \in Version : alias[v] # NoAlias => v \in Rows(alias)
           /\ \A v \in Lookup : alias[v] \in Alias
  BY KeysFinite DEF AgreeInv, IInv, AliasesAreOfRunningKeys, Rows, Typed

(* What is said of the aliases has a newest revision.                      *)
LEMMA NewestOfAliases ==
    ASSUME AgreeInv, NEW f \in [Lookup -> Revisions]
    PROVE  IsNewest(Newest({f[v] : v \in Lookup}), {f[v] : v \in Lookup})
<1> DEFINE R == {f[v] : v \in Lookup}
<1>1. f \in Surjection(Lookup, R)
  BY DEF Surjection
<1>2. IsFiniteSet(R) /\ R # {} /\ R \in SUBSET Revisions
  BY <1>1, LookupFinite, FS_Surjection
<1> HIDE DEF R
<1>3. IsNewest(Newest(R), R)
  BY <1>2, NewestExists
<1> QED
  BY <1>3 DEF R

LEMMA SuppressedAliases ==
    ASSUME AgreeInv, NEW e \in Event
    PROVE  \E l \in Revisions :
             /\ NextRevision \in Nat
             /\ \A v \in Lookup : alias[v].revision < NextRevision
             /\ Suppressed(e) = [v \in Version |->
                  IF v \in Lookup
                  THEN [status |-> "SUPPRESSED", revision |-> NextRevision, last |-> l]
                  ELSE alias[v]]
<1>1. NextRevision \in Nat /\ \A v \in Lookup : alias[v].revision < NextRevision
  <2> DEFINE M == Max({alias[v].revision : v \in Lookup})
  <2>1. M \in Nat /\ \A v \in Lookup : alias[v].revision <= M
    BY LookupFinite, GreatestRevision DEF AgreeInv, IInv
  <2>2. \A v \in Lookup : alias[v].revision \in Nat
    BY LookupFinite DEF Alias
  <2>3. NextRevision = M + 1
    BY DEF NextRevision
  <2> HIDE DEF M
  <2> QED
    BY <2>1, <2>2, <2>3
<1> DEFINE touched(v) == IF Supersedes(alias[v], e) THEN Revision(e) ELSE alias[v].last
           f == [v \in Lookup |-> touched(v)]
           l == Newest({touched(v) : v \in Lookup})
<1>2. f \in [Lookup -> Revisions]
  BY LookupFinite, EventRevision DEF Alias
<1>3. {f[v] : v \in Lookup} = {touched(v) : v \in Lookup}
  OBVIOUS
<1> HIDE DEF f
<1>4. l \in Revisions
  BY <1>2, <1>3, NewestOfAliases DEF IsNewest
<1> QED
  BY <1>1, <1>4 DEF Suppressed

(* The aliases converge on one that has the newest event.                  *)
LEMMA Authority ==
    ASSUME AgreeInv, NEW a \in [Version -> Alias]
    PROVE  \E w \in Lookup :
             /\ IsNewest(a[w].last, {a[v].last : v \in Lookup})
             /\ Converge(a) = [v \in Version |->
                  IF v \in Lookup
                  THEN [status |-> a[w].status, revision |-> a[v].revision, last |-> a[w].last]
                  ELSE a[v]]
<1> DEFINE f == [v \in Lookup |-> a[v].last]
           N == Newest({a[v].last : v \in Lookup})
           w == CHOOSE v \in Lookup : a[v].last = N
<1>1. f \in [Lookup -> Revisions] /\ {f[v] : v \in Lookup} = {a[v].last : v \in Lookup}
  BY LookupFinite DEF Alias
<1> HIDE DEF f
<1>2. IsNewest(N, {a[v].last : v \in Lookup})
  BY <1>1, NewestOfAliases
<1>3. \E v \in Lookup : a[v].last = N
  BY <1>2 DEF IsNewest
<1>4. Converge(a) = [v \in Version |->
                  IF v \in Lookup
                  THEN [status |-> a[w].status, revision |-> a[v].revision, last |-> a[w].last]
                  ELSE a[v]]
  BY DEF Converge
<1> HIDE DEF N
<1>5. w \in Lookup /\ a[w].last = N
  BY <1>3
<1> HIDE DEF w
<1> QED
  BY <1>2, <1>4, <1>5

-----------------------------------------------------------------------------
LEMMA InitAgrees == Init => AgreeInv
<1> SUFFICES ASSUME Init PROVE AgreeInv
  OBVIOUS
<1>1. IInv /\ keyring.active \in Version
  BY InitIInv, KeysFinite DEF IInv
<1>2. Typed
  BY <1>1 DEF Init, Typed, NoAlias, Alias, NoRevision, Revisions
<1>3. Rows(alias) = {}
  BY <1>1, KeysFinite DEF Init, IInv, Rows
<1>4. Agree /\ \A o \in Operation : recovery[o] = NoRecovery
  BY <1>3 DEF Init, Agree
<1> QED
  BY <1>1, <1>2, <1>4 DEF AgreeInv

(* A step that changes no alias and no key, and begins no recovery.        *)
LEMMA QuietAgrees ==
    ASSUME AgreeInv, IInv', Typed', UNCHANGED <<keyring, alias>>,
           \A o \in Operation : recovery'[o] \in {recovery[o], NoRecovery}
    PROVE  AgreeInv'
<1>1. Rows(alias)' = Rows(alias) /\ Blocked' = Blocked
  BY DEF Rows, Blocked, Lookup
<1>2. \A o \in Operation : recovery'[o] # NoRecovery => recovery'[o] = recovery[o]
  OBVIOUS
<1>3. \A o \in Operation : recovery'[o] # NoRecovery => HoldsAllRows(recovery[o])'
  BY <1>1, <1>2 DEF AgreeInv, HoldsAllRows
<1> QED
  BY <1>1, <1>3 DEF AgreeInv, Agree

(* A step that makes all aliases of the running keys alike, and blocks the *)
(* recipient, with new revisions, or not.                                  *)
LEMMA MadeAlike ==
    ASSUME AgreeInv, IInv', Typed', UNCHANGED <<keyring, recovery>>, NEW s, NEW l,
           \A v \in Lookup : /\ alias'[v].status = s /\ alias'[v].last = l
                             /\ alias'[v] # NoAlias
                             /\ alias'[v].revision >= alias[v].revision,
           \/ s \notin BlockedStatuses
           \/ \A v \in Lookup : alias'[v].revision > alias[v].revision
    PROVE  AgreeInv'
<1>1. Rows(alias)' = Lookup /\ Lookup' = Lookup /\ Rows(alias) \subseteq Lookup
  BY DEF Rows, Lookup
<1>2. Agree'
  BY <1>1 DEF Agree
<1>3. ASSUME NEW o \in Operation, recovery'[o] # NoRecovery
      PROVE  HoldsAllRows(recovery[o])'
  <2> DEFINE r == recovery[o]
  <2>1. r' = r /\ HoldsAllRows(r) /\ ReadAsExpected(r)
    BY <1>3 DEF AgreeInv, IInv, RecoveriesTyped
  <2> HIDE DEF r
  <2>2. DOMAIN r.read \subseteq Lookup
    BY <1>1, <2>1 DEF HoldsAllRows
  <2>3. \A v \in Lookup : alias[v].revision \in Nat /\ alias'[v].revision \in Nat
    BY LookupFinite DEF Typed, Alias
  <2>4. \A v \in DOMAIN r.read : alias'[v].revision >= r.read[v] /\ r.read[v] \in Nat
    BY <2>1, <2>2, <2>3 DEF HoldsAllRows, ReadAsExpected
  <2>5. CASE s \notin BlockedStatuses
    <3>1. ~Blocked'
      BY <1>1, <2>5 DEF Blocked
    <3> QED
      BY <1>1, <2>1, <2>2, <2>4, <3>1 DEF HoldsAllRows, r
  <2>6. CASE \A v \in Lookup : alias'[v].revision > alias[v].revision
    <3>1. \A v \in DOMAIN r.read : alias'[v].revision > r.read[v]
      BY <2>1, <2>2, <2>3, <2>4, <2>6 DEF HoldsAllRows
    <3> QED
      BY <1>1, <2>1, <2>2, <2>4, <3>1 DEF HoldsAllRows, r
  <2> QED
    BY <2>5, <2>6
<1> QED
  BY <1>2, <1>3 DEF AgreeInv

LEMMA ClaimAgrees == ASSUME AgreeInv, IInv', NEW m \in Mail, Claim(m) PROVE AgreeInv'
<1> DEFINE d == NewDelivery("mail", Blocked, NoLease)
<1>1. d \in Delivery
  BY DEF NewDelivery, Delivery, DeliveryStatuses, CommandResults, Unset, NoLease, NoRevision,
         Revisions
<1> HIDE DEF d
<1>2. /\ delivery' = [delivery EXCEPT ![m] = d]
      /\ hashed' = [hashed EXCEPT ![m] = keyring.active]
      /\ queued' \subseteq queued \cup Event
      /\ UNCHANGED <<keyring, alias, events, audits, recovery, open, plain>>
  BY DEF Claim, d
<1>3. keyring.active \in Version
  BY LookupFinite
<1>4. Typed'
  BY <1>1, <1>2, <1>3 DEF AgreeInv, Typed
<1> QED
  BY <1>2, <1>4, QuietAgrees

LEMMA DeleteAgrees == ASSUME AgreeInv, IInv', NEW e \in Event, Delete(e) PROVE AgreeInv'
<1>1. Typed'
  BY DEF AgreeInv, Typed, Delete, mails
<1> QED
  BY <1>1, QuietAgrees DEF Delete

LEMMA AbortAgrees ==
    ASSUME AgreeInv, IInv', NEW o \in Operation, AbortRecovery(o) PROVE AgreeInv'
<1>1. Typed'
  BY DEF AgreeInv, Typed, AbortRecovery, mails
<1>2. \A p \in Operation : recovery'[p] \in {recovery[p], NoRecovery}
  BY DEF AgreeInv, IInv, RecoveriesTyped, AbortRecovery
<1> QED
  BY <1>1, <1>2, QuietAgrees DEF AbortRecovery

LEMMA PersistTyped ==
    ASSUME AgreeInv, NEW e \in Event, Persist(e)
    PROVE  /\ delivery' \in [Mail -> Delivery \cup {NoRow, Gone}]
           /\ UNCHANGED <<keyring, hashed, queued, audits, recovery, plain>>
           /\ events' \subseteq Event
<1>1. /\ delivery' = [delivery EXCEPT ![e.mail] = AfterFeedback(delivery[e.mail], e)]
      /\ events' = events \cup {e}
      /\ Stored(e.mail) /\ e.mail \in Mail
      /\ UNCHANGED <<keyring, hashed, queued, audits, recovery, plain>>
  BY SesFeedbackAssumption DEF Persist, Matches
<1>2. AfterFeedback(delivery[e.mail], e) \in Delivery
  BY <1>1, FeedbackTyped DEF AgreeInv, Typed, Stored
<1> QED
  BY <1>1, <1>2 DEF AgreeInv, Typed

(* Feedback leaves all aliases alike.                                      *)
LEMMA PersistAgrees == ASSUME AgreeInv, IInv', NEW e \in Event, Persist(e) PROVE AgreeInv'
<1>1. /\ delivery' \in [Mail -> Delivery \cup {NoRow, Gone}]
      /\ UNCHANGED <<keyring, hashed, queued, audits, recovery, plain>>
      /\ events' \subseteq Event
      /\ ApplyDestinationTransition(e)
  BY PersistTyped DEF Persist
<1>2. CASE IsTerminalMailboxEvent(e)
  <2>1. PICK l \in Revisions :
          /\ NextRevision \in Nat
          /\ \A v \in Lookup : alias[v].revision < NextRevision
          /\ alias' = [v \in Version |->
               IF v \in Lookup
               THEN [status |-> "SUPPRESSED", revision |-> NextRevision, last |-> l]
               ELSE alias[v]]
    BY <1>1, <1>2, SuppressedAliases DEF ApplyDestinationTransition
  <2>2. open' = open \cup {[event |-> e, revision |-> NextRevision]}
    BY <1>1, <1>2 DEF ApplyDestinationTransition
  <2>3. \A v \in Lookup : /\ alias'[v].status = "SUPPRESSED" /\ alias'[v].last = l
                          /\ alias'[v].revision = NextRevision
    BY <2>1, LookupFinite
  <2>4. alias' \in [Version -> Alias]
    BY <2>1 DEF AgreeInv, Typed, Alias, BlockedStatuses
  <2>5. \A v \in Version : alias'[v] # NoAlias => alias'[v].status # "none"
    BY <2>1 DEF AgreeInv, Typed
  <2>6. Typed'
    BY <1>1, <2>2, <2>4, <2>5 DEF AgreeInv, Typed
  <2>7. \A v \in Lookup : /\ alias'[v] # NoAlias /\ alias[v].revision \in Nat
                          /\ alias'[v].revision > alias[v].revision
                          /\ alias'[v].revision >= alias[v].revision
    BY <2>1, <2>3, LookupFinite DEF NoAlias, Alias
  <2> QED
    BY <1>1, <2>3, <2>6, <2>7, MadeAlike
<1>3. CASE ~IsTerminalMailboxEvent(e) /\ alias' = alias /\ open' = open
  <2>1. Typed'
    BY <1>1, <1>3 DEF AgreeInv, Typed
  <2> QED
    BY <1>1, <1>3, <2>1, QuietAgrees
<1>4. CASE /\ ~Blocked /\ DestinationStatus(e) # "none" /\ open' = open
           /\ alias' = Converge(Updated(e))
  <2> DEFINE u == Updated(e)
             Open == {"ACTIVE", "TEMPORARY_FAILURE"}
  <2>1. DestinationStatus(e) \in Open
    BY <1>4 DEF DestinationStatus
  <2>2. u \in [Version -> Alias] /\ \A v \in Version : u[v].revision = alias[v].revision
    BY <2>1, EventRevision DEF Updated, AgreeInv, Typed, Alias
  <2>3. \A v \in Lookup : u[v].status \in Open
    <3>1. \A v \in Lookup : alias[v] = NoAlias => OlderRevision(alias[v].last, Revision(e))
      BY EventRevision DEF NoAlias
    <3>2. \A v \in Lookup : alias[v] # NoAlias => alias[v].status \in Open
      BY <1>4, LookupFinite DEF AgreeInv, Typed, Blocked, Alias
    <3> QED
      BY <2>1, <3>1, <3>2, LookupFinite DEF Updated
  <2>4. \A v \in Version : v \notin Lookup => u[v] = alias[v]
    BY DEF Updated
  <2> HIDE DEF u
  <2>5. PICK w \in Lookup : alias' = [v \in Version |->
                  IF v \in Lookup
                  THEN [status |-> u[w].status, revision |-> u[v].revision, last |-> u[w].last]
                  ELSE u[v]]
    BY <1>4, <2>2, Authority DEF u
  <2>6. \A v \in Lookup : /\ alias'[v].status = u[w].status /\ alias'[v].last = u[w].last
                          /\ alias'[v].revision = alias[v].revision
    BY <2>2, <2>5, LookupFinite
  <2>7. u[w].status \in Open /\ u[w].last \in Revisions
    BY <2>2, <2>3, LookupFinite DEF Alias
  <2>8. alias' \in [Version -> Alias]
    BY <2>2, <2>5, <2>7 DEF Alias
  <2>9. \A v \in Version : alias'[v] # NoAlias => alias'[v].status # "none"
    BY <2>4, <2>5, <2>7 DEF AgreeInv, Typed
  <2>10. Typed'
    BY <1>1, <1>4, <2>8, <2>9 DEF AgreeInv, Typed
  <2>11. \A v \in Lookup : /\ alias'[v] # NoAlias
                           /\ alias'[v].revision >= alias[v].revision
    <3>1. \A v \in Lookup : alias[v].revision \in Nat
      BY LookupFinite DEF Alias
    <3> QED
      BY <2>6, <2>7, <3>1 DEF NoAlias
  <2>12. u[w].status \notin BlockedStatuses
    BY <2>7 DEF BlockedStatuses
  <2> QED
    BY <1>1, <2>6, <2>10, <2>11, <2>12, MadeAlike
<1> QED
  BY <1>1, <1>2, <1>3, <1>4 DEF ApplyDestinationTransition

(* What a recovery reads is all there is.                                  *)
LEMMA ReadAgrees ==
    ASSUME AgreeInv, IInv', NEW o \in Operation, ReadDestinations(o) PROVE AgreeInv'
<1>1. UNCHANGED <<keyring, mails, alias, queued, events, audits, open, plain>>
  BY DEF ReadDestinations
<1>2. Typed'
  BY <1>1 DEF AgreeInv, Typed, mails
<1>3. Rows(alias)' = Rows(alias) /\ Blocked' = Blocked
  BY <1>1 DEF Rows, Blocked, Lookup
<1>4. PICK r : /\ recovery' = [recovery EXCEPT ![o] = r]
               /\ r.read = [v \in Rows(alias) |-> alias[v].revision]
  <2>1. PICK action \in {"REQUESTED", "COMPLETED", "FAILED"}, n \in 1..Cardinality(Event) :
          recovery' = [recovery EXCEPT ![o] =
                         [action |-> action, expected |-> n,
                          read |-> [v \in Rows(alias) |-> alias[v].revision]]]
    BY DEF ReadDestinations
  <2> DEFINE q == [action |-> action, expected |-> n,
                   read |-> [v \in Rows(alias) |-> alias[v].revision]]
  <2>2. q.read = [v \in Rows(alias) |-> alias[v].revision]
    OBVIOUS
  <2> QED
    BY <2>1, <2>2
<1>5. recovery'[o] = r /\ \A p \in Operation : p # o => recovery'[p] = recovery[p]
  BY <1>4 DEF AgreeInv, IInv, RecoveriesTyped
<1>6. HoldsAllRows(recovery[o])'
  <2>1. Rows(alias) # {} /\ \A v \in Rows(alias) : alias[v].revision \in Nat
    BY LookupFinite DEF ReadDestinations, Rows, Alias
  <2> QED
    BY <1>1, <1>3, <1>4, <1>5, <2>1 DEF HoldsAllRows
<1>7. \A p \in Operation : p # o /\ recovery'[p] # NoRecovery => HoldsAllRows(recovery[p])'
  BY <1>1, <1>3, <1>5 DEF AgreeInv, HoldsAllRows
<1> QED
  BY <1>1, <1>2, <1>3, <1>6, <1>7 DEF AgreeInv, Agree

(* The swap changes all rows, and all in the same way.                     *)
LEMMA SwapAgrees ==
    ASSUME AgreeInv, IInv', NEW o \in Operation, SwapDestinations(o) PROVE AgreeInv'
<1> DEFINE r == recovery[o]
<1>1. /\ UNCHANGED <<keyring, mails, queued, events>> /\ plain' = FALSE
      /\ open' \subseteq open
      /\ audits' = audits \cup {[operation |-> o, version |-> v] : v \in DOMAIN r.read}
      /\ alias' = [v \in Version |->
                   IF v \in DOMAIN r.read
                   THEN [status |-> After(r.action), revision |-> alias[v].revision,
                         last |-> alias[v].last]
                   ELSE alias[v]]
      /\ recovery' = [recovery EXCEPT ![o] = NoRecovery]
      /\ Lookup' = Lookup
      /\ UnchangedSince(r) /\ HoldsAllRows(r) /\ ReadAsExpected(r)
  BY DEF SwapDestinations, AgreeInv, IInv, RecoveriesTyped, Lookup
<1>2. /\ recovery'[o] = NoRecovery
      /\ \A p \in Operation : p # o => recovery'[p] = recovery[p]
  BY <1>1 DEF AgreeInv, IInv, RecoveriesTyped
<1> HIDE DEF r
<1>3. After(r.action) \in {"RECOVERY_PENDING", "ACTIVE", "SUPPRESSED"}
      /\ Expected(r.action) \in BlockedStatuses
  BY <1>1 DEF ReadAsExpected, After, Expected, BlockedStatuses
<1>4. Blocked /\ DOMAIN r.read = Rows(alias)
  <2>1. DOMAIN r.read \subseteq Rows(alias) /\ DOMAIN r.read \subseteq Lookup /\ DOMAIN r.read # {}
    BY <1>1 DEF HoldsAllRows, Rows
  <2>2. Blocked
    BY <1>1, <1>3, <2>1 DEF UnchangedSince, Blocked
  <2>3. \A v \in DOMAIN r.read : alias[v].revision = r.read[v] /\ alias[v].revision \in Nat
    BY <1>1, <2>1, LookupFinite DEF UnchangedSince, Alias
  <2>4. \A v \in DOMAIN r.read : ~(alias[v].revision > r.read[v])
    BY <2>3
  <2>5. Rows(alias) \subseteq DOMAIN r.read
    BY <1>1, <2>1, <2>2, <2>4 DEF HoldsAllRows
  <2> QED
    BY <2>1, <2>2, <2>5
<1>5. \A v \in Version :
        /\ alias'[v].revision = alias[v].revision /\ alias'[v].last = alias[v].last
        /\ v \in Rows(alias) => alias'[v].status = After(r.action)
        /\ v \notin Rows(alias) => alias'[v] = alias[v]
  BY <1>1, <1>4
<1>6. Rows(alias)' = Rows(alias) /\ Rows(alias) \subseteq Version
  BY <1>1, <1>3, <1>5, LookupFinite DEF Rows, NoAlias
<1>7. Agree'
  BY <1>5, <1>6 DEF AgreeInv, Agree
<1>8. Typed'
  <2>1. alias' \in [Version -> Alias]
    BY <1>1, <1>3 DEF AgreeInv, Typed, Alias, BlockedStatuses
  <2>2. \A v \in Version : alias'[v] # NoAlias => alias'[v].status # "none"
    BY <1>3, <1>5 DEF AgreeInv, Typed
  <2>3. \A a \in audits' : a.operation \in Operation /\ a.version \in Version
    BY <1>1, <1>4, <1>6 DEF AgreeInv, Typed
  <2> QED
    BY <1>1, <2>1, <2>2, <2>3 DEF AgreeInv, Typed, mails
<1>9. ASSUME NEW p \in Operation, recovery'[p] # NoRecovery
      PROVE  HoldsAllRows(recovery[p])'
  <2> DEFINE q == recovery[p]
  <2>1. q' = q /\ HoldsAllRows(q)
    BY <1>2, <1>9 DEF AgreeInv
  <2> HIDE DEF q
  <2>2. DOMAIN q.read \subseteq Version
    BY <1>6, <2>1 DEF HoldsAllRows
  <2>3. HoldsAllRows(q)'
    BY <1>4, <1>5, <1>6, <2>1, <2>2 DEF HoldsAllRows
  <2> QED
    BY <2>3 DEF q
<1> QED
  BY <1>7, <1>8, <1>9 DEF AgreeInv

(* The cleanup ends the recoveries that read what it deletes.              *)
LEMMA CleanupAgrees == ASSUME AgreeInv, IInv', Cleanup PROVE AgreeInv'
<1>1. PICK kept \in SUBSET audits, old \in SUBSET {m \in Mail : Stored(m)},
           gone \in SUBSET Version :
        /\ audits' = kept
        /\ delivery' = [m \in Mail |-> IF m \in old THEN Gone ELSE delivery[m]]
        /\ events' = {e \in events : e.mail \notin old}
        /\ alias' = [v \in Version |-> IF v \in gone THEN NoAlias ELSE alias[v]]
        /\ recovery' = [o \in Operation |->
              IF recovery[o] # NoRecovery /\ DOMAIN recovery[o].read \cap gone # {}
              THEN NoRecovery ELSE recovery[o]]
        /\ plain' = FALSE
        /\ UNCHANGED <<keyring, hashed, queued, open>>
  <2>1. PICK kept \in SUBSET audits, old \in SUBSET {m \in Mail : Stored(m)} :
          LET gone == {v \in Version : DeletableNonBlocking(v, kept)
                                         \/ DeletableBlocking(v, kept)}
          IN /\ audits' = kept
             /\ delivery' = [m \in Mail |-> IF m \in old THEN Gone ELSE delivery[m]]
             /\ events' = {e \in events : e.mail \notin old}
             /\ alias' = [v \in Version |-> IF v \in gone THEN NoAlias ELSE alias[v]]
             /\ recovery' = [o \in Operation |->
                   IF recovery[o] # NoRecovery /\ DOMAIN recovery[o].read \cap gone # {}
                   THEN NoRecovery ELSE recovery[o]]
             /\ plain' = FALSE
             /\ UNCHANGED <<keyring, hashed, queued, open>>
    BY DEF Cleanup
  <2> QED
    BY <2>1
<1>2. /\ \A v \in Version : alias'[v] = IF v \in gone THEN NoAlias ELSE alias[v]
      /\ Lookup' = Lookup
  BY <1>1 DEF Lookup
<1>3. Typed'
  <2>1. NoAlias \in Alias
    BY DEF NoAlias, Alias, NoRevision, Revisions
  <2> QED
    BY <1>1, <2>1 DEF AgreeInv, Typed
<1>4. Rows(alias)' = Rows(alias) \ gone
  BY <1>2, LookupFinite DEF Rows
<1>5. ~Blocked => ~Blocked'
  BY <1>2, LookupFinite DEF Blocked, NoAlias, BlockedStatuses
<1>6. Rows(alias) \subseteq Version
  BY LookupFinite DEF Rows
<1>7. Agree'
  BY <1>2, <1>4, <1>6 DEF AgreeInv, Agree
<1>8. ASSUME NEW o \in Operation, recovery'[o] # NoRecovery
      PROVE  HoldsAllRows(recovery[o])'
  <2> DEFINE r == recovery[o]
  <2>1. r' = r /\ HoldsAllRows(r) /\ DOMAIN r.read \cap gone = {}
    BY <1>1, <1>8 DEF AgreeInv
  <2> HIDE DEF r
  <2>2. \A v \in DOMAIN r.read : alias'[v] = alias[v] /\ v \in Rows(alias)'
    BY <1>2, <1>4, <1>6, <2>1 DEF HoldsAllRows
  <2>3. HoldsAllRows(r)'
    BY <1>4, <1>5, <2>1, <2>2 DEF HoldsAllRows
  <2> QED
    BY <2>3 DEF r
<1> QED
  BY <1>3, <1>7, <1>8 DEF AgreeInv

LEMMA RestartAgrees == ASSUME AgreeInv, IInv', Restart PROVE AgreeInv'
<1>1. /\ UNCHANGED <<mails, alias, queued, events, audits, open, plain>>
      /\ recovery' = [o \in Operation |-> NoRecovery]
  BY DEF Restart
<1>2. Typed'
  BY <1>1 DEF AgreeInv, Typed, mails
<1>3. \A v \in Rows(alias)' : v \in Version /\ alias[v] # NoAlias
  BY <1>1, SesFeedbackAssumption DEF IInv, Rows, Lookup, Keyring
<1>4. Agree'
  BY <1>1, <1>3, LookupFinite DEF AgreeInv, Agree
<1> QED
  BY <1>1, <1>2, <1>4 DEF AgreeInv

LEMMA StepAgreeInv == AgreeInv /\ [Next]_vars => AgreeInv'
<1> SUFFICES ASSUME AgreeInv, [Next]_vars PROVE AgreeInv'
  OBVIOUS
<1>0. IInv'
  BY StepIInv DEF AgreeInv
<1>1. CASE \E m \in Mail : Claim(m)
  BY <1>0, <1>1, ClaimAgrees
<1>2. CASE \E e \in Event : Persist(e) \/ Delete(e)
  BY <1>0, <1>2, PersistAgrees, DeleteAgrees
<1>3. CASE \E o \in Operation : ReadDestinations(o) \/ SwapDestinations(o) \/ AbortRecovery(o)
  BY <1>0, <1>3, ReadAgrees, SwapAgrees, AbortAgrees
<1>4. CASE Cleanup
  BY <1>0, <1>4, CleanupAgrees
<1>5. CASE Restart
  BY <1>0, <1>5, RestartAgrees
<1>6. CASE UNCHANGED vars
  <2>1. Typed'
    BY <1>6 DEF AgreeInv, Typed, vars, mails
  <2> QED
    BY <1>0, <1>6, <2>1, QuietAgrees DEF vars
<1> QED
  BY <1>1, <1>2, <1>3, <1>4, <1>5, <1>6 DEF Next

LEMMA AgreeInvHolds == Spec => []AgreeInv
  BY InitAgrees, StepAgreeInv, PTL DEF Spec

(* However feedback, recoveries, cleanups and key rotations interleave,    *)
(* the rows of a recipient's aliases say the same of him, so that an       *)
(* operator's next recovery finds the status it expects everywhere.        *)
THEOREM AliasesStayAlike == Spec => []AliasesAgree
<1>1. ASSUME AgreeInv PROVE AliasesAgree
  <2>1. \A m \in Mail : Stored(m) => delivery[m].status \in DeliveryStatuses
    BY <1>1 DEF AgreeInv, Typed, Stored, Delivery
  <2>2. \A v \in Version :
         /\ alias[v].status \in BlockedStatuses \cup {"none", "ACTIVE", "TEMPORARY_FAILURE"}
         /\ alias[v].revision \in Nat
    BY <1>1 DEF AgreeInv, Typed, Alias
  <2>3. TypeOK
    BY <1>1, <2>1, <2>2 DEF AgreeInv, IInv, Typed, TypeOK
  <2> QED
    BY <1>1, <2>3 DEF AgreeInv, Agree, AliasesAgree
<1> QED
  BY <1>1, AgreeInvHolds, PTL
-----------------------------------------------------------------------------
RevisionsOf(E) == {Revision(e) : e \in E}

Terminal(E) == {e \in E : IsTerminalMailboxEvent(e)}
Telling(E) == {e \in E : DestinationStatus(e) # "none"}
EventsOf(m) == {e \in events : e.mail = m}

Transient(E) == \E e \in E : e.kind \in {"TRANSIENT_BOUNCE", "UNDETERMINED_BOUNCE"}

(* While nobody has stepped in, a terminal event decides what every row    *)
(* says and counts in its revision; before there is one, what tells newest. *)
Told(v) ==
    /\ alias[v].revision = Cardinality(Terminal(events))
    /\ IF Terminal(events) # {}
       THEN /\ alias[v].status = "SUPPRESSED"
            /\ IsNewest(alias[v].last, RevisionsOf(Terminal(events)))
       ELSE \E e \in Telling(events) :
              /\ alias[v].status = DestinationStatus(e)
              /\ alias[v].last = Revision(e)
              /\ IsNewest(Revision(e), RevisionsOf(Telling(events)))

DestinationTold ==
    plain =>
      /\ Terminal(events) # {} \/ Telling(events) # {} => Rows(alias) # {}
      /\ \A v \in Rows(alias) : Told(v)

(* A mail is decided by the newest of its terminal events, or of all while *)
(* there is none.  Nothing was written before the first.                   *)
Decided(m, E) ==
    \E e \in E : /\ delivery[m].status = DeliveryStatus(e)
                 /\ delivery[m].last = Revision(e)
                 /\ IsNewest(Revision(e), RevisionsOf(E))

MailTold(m) ==
    /\ EventsOf(m) # {} => Stored(m)
    /\ EventsOf(m) = {} /\ (\E e \in queued : e.mail = m) =>
         delivery[m].status = "PENDING" /\ delivery[m].last = NoRevision
    /\ EventsOf(m) # {} /\ ~Transient(EventsOf(m)) =>
         Decided(m, IF Terminal(EventsOf(m)) # {} THEN Terminal(EventsOf(m)) ELSE EventsOf(m))

FollowInv ==
    /\ AgreeInv
    /\ QueueInv
    /\ IsFiniteSet(events)
    /\ DestinationTold
    /\ \A m \in Mail : MailTold(m)

-----------------------------------------------------------------------------
LEMMA NewestGrows ==
    ASSUME NEW R \in SUBSET Revisions, NEW r, IsNewest(r, R), NEW s \in Revisions
    PROVE  IF OlderRevision(r, s) THEN IsNewest(s, R \cup {s}) ELSE IsNewest(r, R \cup {s})
<1>1. r \in R /\ r \in Revisions /\ \A t \in R : ~OlderRevision(r, t)
  BY DEF IsNewest
<1>2. CASE OlderRevision(r, s)
  <2>1. ASSUME NEW t \in R PROVE ~OlderRevision(s, t)
    <3>1. t \in Revisions
      OBVIOUS
    <3>2. ~(OlderRevision(r, s) /\ OlderRevision(s, t))
      BY <1>1, <3>1, OlderIsOrder
    <3> QED
      BY <1>2, <3>2
  <2>2. ~OlderRevision(s, s)
    BY OlderIsOrder
  <2> QED
    BY <1>2, <2>1, <2>2 DEF IsNewest
<1>3. CASE ~OlderRevision(r, s)
  BY <1>1, <1>3 DEF IsNewest
<1> QED
  BY <1>2, <1>3

LEMMA RevisionsOfTyped == ASSUME NEW E \in SUBSET Event PROVE RevisionsOf(E) \in SUBSET Revisions
BY EventRevision DEF RevisionsOf

LEMMA RevisionsOfMore ==
    ASSUME NEW E, NEW e PROVE RevisionsOf(E \cup {e}) = RevisionsOf(E) \cup {Revision(e)}
BY DEF RevisionsOf

LEMMA OnlyNewest == ASSUME NEW e \in Event PROVE IsNewest(Revision(e), RevisionsOf({e}))
<1>1. ~OlderRevision(Revision(e), Revision(e))
  BY EventRevision, OlderIsOrder
<1> QED
  BY <1>1 DEF IsNewest, RevisionsOf

(* What one event more does to a newest one.                               *)
LEMMA NewestEvent ==
    ASSUME NEW E \in SUBSET Event, NEW r, IsNewest(r, RevisionsOf(E)), NEW e \in Event
    PROVE  IF OlderRevision(r, Revision(e))
           THEN IsNewest(Revision(e), RevisionsOf(E \cup {e}))
           ELSE IsNewest(r, RevisionsOf(E \cup {e}))
<1>1. RevisionsOf(E) \in SUBSET Revisions /\ Revision(e) \in Revisions
  BY RevisionsOfTyped, EventRevision
<1> DEFINE R == RevisionsOf(E)
<1> HIDE DEF R
<1>2. IF OlderRevision(r, Revision(e)) THEN IsNewest(Revision(e), R \cup {Revision(e)})
      ELSE IsNewest(r, R \cup {Revision(e)})
  BY <1>1, NewestGrows DEF R
<1> QED
  BY <1>2, RevisionsOfMore DEF R

(* Terminal events tell a destination nothing but that it is blocked.      *)
LEMMA TellingKinds ==
    ASSUME NEW e
    PROVE  /\ IsTerminalMailboxEvent(e) => DestinationStatus(e) = "none"
           /\ DestinationStatus(e) \in {"none", "ACTIVE", "TEMPORARY_FAILURE"}
BY DEF IsTerminalMailboxEvent, DestinationStatus

LEMMA DeliveryKinds ==
    ASSUME NEW e \in Event, ~Transient({e})
    PROVE  DeliveryStatus(e) \in TerminalDeliveryStatuses <=> IsTerminalMailboxEvent(e)
BY SesFeedbackAssumption
DEF EventKinds, Transient, DeliveryStatus, TerminalDeliveryStatuses, IsTerminalMailboxEvent

-----------------------------------------------------------------------------
(* What an event does to a row: it is written when it applies.             *)
LEMMA FeedbackWrites ==
    ASSUME NEW d \in Delivery, NEW e \in Event
    PROVE  LET n == AfterFeedback(d, e) IN
           IF AppliesToDelivery(d, e)
           THEN n.status = DeliveryStatus(e) /\ n.last = Revision(e)
           ELSE n.status = d.status /\ n.last = d.last
<1> DEFINE attached == [d EXCEPT !.message = TRUE]
           told == SetCallerResult(attached, "ACCEPTED")
<1>1. attached \in Delivery /\ attached.status = d.status /\ attached.last = d.last
  BY DEF Delivery
<1> HIDE DEF attached
<1>2. /\ told.status = d.status /\ told.last = d.last
      /\ DOMAIN told = DOMAIN attached
  BY <1>1 DEF SetCallerResult, Delivery
<1>3. "status" \in DOMAIN told /\ "last" \in DOMAIN told
  BY <1>1, <1>2 DEF Delivery
<1> HIDE DEF told
<1>4. AppliesToDelivery(told, e) <=> AppliesToDelivery(d, e)
  BY <1>2 DEF AppliesToDelivery
<1>5. LET n == ApplyDeliveryTransition(told, e) IN
      IF AppliesToDelivery(d, e)
      THEN n.status = DeliveryStatus(e) /\ n.last = Revision(e)
      ELSE n.status = d.status /\ n.last = d.last
  BY <1>2, <1>3, <1>4 DEF ApplyDeliveryTransition
<1> QED
  BY <1>5 DEF AfterFeedback, told, attached

(* One event more of a mail.                                               *)
LEMMA MailTellsMore ==
    ASSUME FollowInv, AgreeInv', QueueInv', NEW e \in Event, Persist(e)
    PROVE  MailTold(e.mail)'
<1> DEFINE m == e.mail
           d == delivery[m]
           n == AfterFeedback(d, e)
           E == EventsOf(m)
           F == E \cup {e}
           T == Terminal(E)
<1>1. /\ m \in Mail /\ d \in Delivery /\ delivery'[m] = n /\ n \in Delivery
      /\ events' = events \cup {e} /\ queued' = queued /\ e \in queued \ events
      /\ MailTold(m) /\ events \subseteq Event
  <2>1. m \in Mail /\ Stored(m) /\ delivery' = [delivery EXCEPT ![m] = n]
    BY SesFeedbackAssumption DEF Persist, Matches
  <2>2. d \in Delivery /\ DOMAIN delivery = Mail
    BY <2>1 DEF FollowInv, AgreeInv, Typed, Stored
  <2>3. n \in Delivery
    BY <2>2, FeedbackTyped
  <2> HIDE DEF n, d
  <2> QED
    BY <2>1, <2>2, <2>3 DEF Persist, FollowInv, AgreeInv, Typed
<1>2. EventsOf(m)' = F
  BY <1>1 DEF EventsOf
<1>3. Stored(m)'
  BY <1>1, NoRowIsNoDelivery DEF Stored
<1>4. E \subseteq Event /\ T \subseteq E /\ F \subseteq Event
  BY <1>1 DEF EventsOf, Terminal
<1>5. IF AppliesToDelivery(d, e)
      THEN n.status = DeliveryStatus(e) /\ n.last = Revision(e)
      ELSE n.status = d.status /\ n.last = d.last
  BY <1>1, FeedbackWrites
<1> DEFINE G == IF Terminal(F) # {} THEN Terminal(F) ELSE F
           Tells(f) == /\ n.status = DeliveryStatus(f) /\ n.last = Revision(f)
                       /\ IsNewest(Revision(f), RevisionsOf(G))
<1>6. ASSUME ~Transient(F) PROVE \E f \in G : Tells(f)
  <2>1. /\ ~Transient(E) /\ ~Transient({e})
        /\ \A f \in E : ~Transient({f})
    BY <1>6 DEF Transient
  <2>2. Terminal(F) = IF IsTerminalMailboxEvent(e) THEN T \cup {e} ELSE T
    BY DEF Terminal
  <2>3. CASE E = {}
    <3>1. d.status = "PENDING" /\ d.last = NoRevision
      BY <1>1, <2>3 DEF MailTold
    <3>2. OlderRevision(NoRevision, Revision(e)) /\ "PENDING" \notin TerminalDeliveryStatuses
      BY EventRevision DEF TerminalDeliveryStatuses
    <3>3. AppliesToDelivery(d, e)
      BY <3>1, <3>2 DEF AppliesToDelivery
    <3>4. G = {e}
      BY <1>4, <2>2, <2>3
    <3>5. IsNewest(Revision(e), RevisionsOf({e}))
      BY OnlyNewest
    <3> QED
      BY <1>5, <3>3, <3>4, <3>5
  <2>4. CASE E # {} /\ T = {}
    <3>1. PICK f \in E : /\ d.status = DeliveryStatus(f) /\ d.last = Revision(f)
                         /\ IsNewest(Revision(f), RevisionsOf(E))
      BY <1>1, <2>1, <2>4 DEF MailTold, Decided
    <3>2. d.status \notin TerminalDeliveryStatuses
      BY <1>4, <2>1, <2>4, <3>1, DeliveryKinds DEF Terminal
    <3>3. CASE IsTerminalMailboxEvent(e)
      <4>1. AppliesToDelivery(d, e) /\ G = {e}
        BY <2>2, <2>4, <3>2, <3>3 DEF AppliesToDelivery
      <4>2. IsNewest(Revision(e), RevisionsOf({e}))
        BY OnlyNewest
      <4> QED
        BY <1>5, <4>1, <4>2
    <3>4. CASE ~IsTerminalMailboxEvent(e)
      <4>1. AppliesToDelivery(d, e) <=> OlderRevision(d.last, Revision(e))
        BY <3>2, <3>4 DEF AppliesToDelivery
      <4>2. G = F
        BY <2>2, <2>4, <3>4
      <4>3. IF OlderRevision(d.last, Revision(e))
            THEN IsNewest(Revision(e), RevisionsOf(F))
            ELSE IsNewest(Revision(f), RevisionsOf(F))
        BY <1>4, <3>1, NewestEvent
      <4>4. Tells(e) \/ Tells(f)
        BY <1>5, <3>1, <4>1, <4>2, <4>3
      <4> QED
        BY <4>2, <4>4
    <3> QED
      BY <3>3, <3>4
  <2>5. CASE T # {}
    <3>1. PICK f \in T : /\ d.status = DeliveryStatus(f) /\ d.last = Revision(f)
                         /\ IsNewest(Revision(f), RevisionsOf(T))
      BY <1>1, <1>4, <2>1, <2>5 DEF MailTold, Decided
    <3>2. d.status \in TerminalDeliveryStatuses
      <4>1. f \in E /\ f \in Event /\ IsTerminalMailboxEvent(f)
        BY <1>4, <3>1 DEF Terminal
      <4> QED
        BY <2>1, <3>1, <4>1, DeliveryKinds
    <3>3. CASE IsTerminalMailboxEvent(e)
      <4>1. AppliesToDelivery(d, e) <=> OlderRevision(d.last, Revision(e))
        BY <3>2, <3>3 DEF AppliesToDelivery
      <4>2. G = T \cup {e}
        BY <2>2, <3>3
      <4>3. T \subseteq Event
        BY <1>4
      <4>4. IF OlderRevision(d.last, Revision(e))
            THEN IsNewest(Revision(e), RevisionsOf(T \cup {e}))
            ELSE IsNewest(Revision(f), RevisionsOf(T \cup {e}))
        BY <3>1, <4>3, NewestEvent
      <4>5. Tells(e) \/ Tells(f)
        BY <1>5, <3>1, <4>1, <4>2, <4>4
      <4> QED
        BY <4>2, <4>5
    <3>4. CASE ~IsTerminalMailboxEvent(e)
      <4>1. ~AppliesToDelivery(d, e) /\ G = T
        BY <2>2, <2>5, <3>2, <3>4 DEF AppliesToDelivery
      <4> QED
        BY <1>5, <3>1, <4>1
    <3> QED
      BY <3>3, <3>4
  <2> QED
    BY <2>3, <2>4, <2>5
<1>7. e \in F /\ delivery'[m] = n
  BY <1>1
<1> HIDE DEF m, n, F
<1>8. MailTold(m)'
  BY <1>2, <1>3, <1>6, <1>7 DEF MailTold, Decided
<1> QED
  BY <1>8 DEF m
-----------------------------------------------------------------------------
(* What the rows say when a bounce or complaint blocks them.               *)
LEMMA TerminalTold ==
    ASSUME FollowInv, NEW e \in Event, e \notin events, IsTerminalMailboxEvent(e), plain,
           alias' = Suppressed(e), events' = events \cup {e}, keyring' = keyring
    PROVE  DestinationTold'
<1> DEFINE T == Terminal(events)
           U == T \cup {e}
           touched(v) == IF Supersedes(alias[v], e) THEN Revision(e) ELSE alias[v].last
           W == {touched(v) : v \in Lookup}
           l == Newest(W)
<1>1. /\ AgreeInv /\ Lookup' = Lookup /\ Lookup # {} /\ events \subseteq Event
      /\ T \subseteq Event /\ IsFiniteSet(T)
      /\ \A v \in Rows(alias) : Told(v)
  <2>1. Lookup # {}
    BY LookupFinite DEF FollowInv
  <2>2. events \subseteq Event /\ IsFiniteSet(events)
    BY DEF FollowInv, AgreeInv, Typed
  <2>3. T \subseteq events
    BY DEF Terminal
  <2> HIDE DEF T
  <2>4. IsFiniteSet(T)
    BY <2>2, <2>3, FS_Subset
  <2> QED
    BY <2>1, <2>2, <2>3, <2>4 DEF FollowInv, DestinationTold, Lookup
<1>2. /\ Terminal(events') = U /\ e \notin T
      /\ Cardinality(U) = Cardinality(T) + 1 /\ Cardinality(T) \in Nat
      /\ T = {} => Cardinality(T) = 0
  <2>1. Terminal(events') = U /\ e \notin T
    BY DEF Terminal
  <2> HIDE DEF T
  <2> QED
    BY <1>1, <2>1, FS_AddElement, FS_CardinalityType, FS_EmptySet
<1>3. NextRevision = Cardinality(U)
  <2> DEFINE R == {alias[v].revision : v \in Lookup}
             f == [v \in Lookup |-> alias[v].revision]
  <2>1. \A v \in Lookup : alias[v].revision \in {0, Cardinality(T)}
    <3>1. \A v \in Lookup : v \notin Rows(alias) => alias[v].revision = 0
      BY DEF Rows, NoAlias
    <3> QED
      BY <1>1, <3>1 DEF Told
  <2>2. Cardinality(T) # 0 => \E v \in Lookup : alias[v].revision = Cardinality(T)
    <3>1. T # {} => Rows(alias) # {}
      BY DEF FollowInv, DestinationTold
    <3>2. Rows(alias) \subseteq Lookup
      BY DEF Rows
    <3> QED
      BY <1>1, <1>2, <3>1, <3>2 DEF Told
  <2>3. f \in Surjection(Lookup, R)
    BY DEF Surjection
  <2>4. IsFiniteSet(R)
    BY <1>1, <2>3, LookupFinite, FS_Surjection
  <2>5. R \in SUBSET Nat /\ R # {}
    BY <1>1, <1>2, <2>1
  <2>6. R \subseteq {0, Cardinality(T)} /\ (Cardinality(T) # 0 => Cardinality(T) \in R)
    BY <2>1, <2>2
  <2>7. NextRevision = Max(R) + 1
    BY DEF NextRevision
  <2> HIDE DEF R, f, T
  <2>8. Max(R) \in R /\ \A x \in R : x <= Max(R)
    BY <2>4, <2>5, MaxOfNat
  <2> DEFINE c == Cardinality(T)
             x == Max(R)
  <2>9. x = c
    <3>1. x \in {0, c} /\ c \in Nat /\ (c # 0 => c <= x)
      BY <1>2, <2>6, <2>8
    <3> HIDE DEF c, x
    <3> QED
      BY <3>1
  <2> QED
    BY <1>2, <2>7, <2>9
<1>4. IsNewest(l, RevisionsOf(U))
  <2>1. IsNewest(l, W) /\ W \in SUBSET Revisions
    <3> DEFINE f == [v \in Lookup |-> touched(v)]
    <3>1. f \in [Lookup -> Revisions]
      BY <1>1, LookupFinite, EventRevision DEF Alias
    <3>2. {f[v] : v \in Lookup} = W
      OBVIOUS
    <3>3. W \in SUBSET Revisions
      BY <3>1
    <3> HIDE DEF f, W
    <3> QED
      BY <1>1, <3>1, <3>2, <3>3, NewestOfAliases
  <2>2. \A v \in Lookup : v \notin Rows(alias) => touched(v) = Revision(e)
    BY DEF Rows, NoAlias, Supersedes
  <2>3. CASE T = {}
    <3>1. \A v \in Rows(alias) : alias[v].status # "SUPPRESSED"
      BY <1>1, <2>3, TellingKinds DEF Told
    <3>2. \A v \in Lookup : touched(v) = Revision(e)
      BY <2>2, <3>1 DEF Supersedes
    <3>3. l = Revision(e)
      BY <1>1, <2>1, <3>2 DEF IsNewest
    <3>4. U = {e}
      BY <2>3
    <3> QED
      BY <3>3, <3>4, OnlyNewest
  <2>4. CASE T # {}
    <3>1. PICK v0 \in Rows(alias) : TRUE
      BY <2>4 DEF FollowInv, DestinationTold
    <3> DEFINE n == alias[v0].last
    <3>2. \A v \in Rows(alias) : alias[v].status = "SUPPRESSED" /\ alias[v].last = n
      BY <1>1, <2>4, <3>1 DEF Told, AgreeInv, Agree
    <3>3. IsNewest(n, RevisionsOf(T)) /\ v0 \in Lookup
      BY <1>1, <2>4, <3>1 DEF Told, Rows
    <3>4. n \in Revisions
      BY <1>1, <3>3, LookupFinite DEF Alias
    <3>5. \A v \in Rows(alias) : touched(v) = IF OlderRevision(n, Revision(e)) THEN Revision(e) ELSE n
      BY <3>2 DEF Supersedes
    <3>6. IF OlderRevision(n, Revision(e)) THEN IsNewest(Revision(e), RevisionsOf(U))
          ELSE IsNewest(n, RevisionsOf(U))
      BY <1>1, <3>3, NewestEvent
    <3> HIDE DEF n
    <3>7. CASE OlderRevision(n, Revision(e))
      <4>1. \A v \in Lookup : touched(v) = Revision(e)
        BY <2>2, <3>5, <3>7
      <4>2. l = Revision(e)
        BY <1>1, <2>1, <4>1 DEF IsNewest
      <4> QED
        BY <3>6, <3>7, <4>2
    <3>8. CASE ~OlderRevision(n, Revision(e))
      <4>1. n \in W /\ W \subseteq {n, Revision(e)}
        BY <2>2, <3>1, <3>3, <3>5, <3>8
      <4>2. IsNewest(n, W)
        BY <3>4, <3>8, <4>1, OlderIsOrder DEF IsNewest
      <4> HIDE DEF W
      <4>3. l = n
        BY <2>1, <4>2, NewestIs
      <4> QED
        BY <3>6, <3>8, <4>3
    <3> QED
      BY <3>7, <3>8
  <2> QED
    BY <2>3, <2>4
<1>5. \A v \in Version :
        alias'[v] = IF v \in Lookup
                    THEN [status |-> "SUPPRESSED", revision |-> NextRevision, last |-> l]
                    ELSE alias[v]
  BY DEF Suppressed
<1> HIDE DEF l, W, U, T
<1>6. \A v \in Lookup : /\ alias'[v].status = "SUPPRESSED"
                        /\ alias'[v].revision = Cardinality(U)
                        /\ alias'[v].last = l
  BY <1>1, <1>3, <1>5, LookupFinite
<1>7. Rows(alias)' = Lookup
  <2>1. \A v \in Lookup : alias'[v] # NoAlias
    BY <1>6 DEF NoAlias
  <2> QED
    BY <1>1, <2>1 DEF Rows
<1>8. Terminal(events)' = U /\ U # {}
  BY <1>2 DEF U
<1>9. \A v \in Rows(alias)' : Told(v)'
  BY <1>4, <1>6, <1>7, <1>8 DEF Told
<1> QED
  BY <1>1, <1>7, <1>9 DEF DestinationTold

(* What they say when an event tells of a recipient who is not blocked.    *)
LEMMA TellingTold ==
    ASSUME FollowInv, NEW e \in Event, plain, ~Blocked, DestinationStatus(e) # "none",
           alias' = Converge(Updated(e)), events' = events \cup {e}, keyring' = keyring
    PROVE  DestinationTold'
<1> DEFINE G == Telling(events)
           H == G \cup {e}
           u == Updated(e)
<1>1. /\ AgreeInv /\ Lookup' = Lookup /\ Lookup # {} /\ G \subseteq Event
      /\ \A v \in Rows(alias) : Told(v)
      /\ Rows(alias) \subseteq Lookup
      /\ G # {} => Rows(alias) # {}
      /\ Terminal(events) # {} => Rows(alias) # {}
  <2>1. Lookup # {}
    BY LookupFinite DEF FollowInv
  <2>2. events \subseteq Event
    BY DEF FollowInv, AgreeInv, Typed
  <2> QED
    BY <2>1, <2>2 DEF FollowInv, DestinationTold, Lookup, Rows, Telling
<1>2. Terminal(events) = {} /\ Terminal(events') = {}
  <2>1. ASSUME Terminal(events) # {} PROVE FALSE
    <3>1. PICK v \in Rows(alias) : alias[v].status = "SUPPRESSED"
      BY <1>1, <2>1 DEF Told
    <3> QED
      BY <1>1, <3>1 DEF Blocked, BlockedStatuses
  <2>2. ~IsTerminalMailboxEvent(e)
    BY TellingKinds
  <2> QED
    BY <2>1, <2>2 DEF Terminal
<1>3. Telling(events') = H
  BY DEF Telling
<1>4. u \in [Version -> Alias] /\ \A v \in Lookup : u[v].revision = alias[v].revision
  <2>1. DestinationStatus(e) \in {"ACTIVE", "TEMPORARY_FAILURE"}
    BY TellingKinds
  <2> QED
    BY <1>1, <2>1, EventRevision, LookupFinite DEF Updated, AgreeInv, Typed, Alias
<1>5. \A v \in Lookup :
        \/ u[v].status = DestinationStatus(e) /\ u[v].last = Revision(e)
        \/ v \in Rows(alias) /\ u[v] = alias[v] /\ ~OlderRevision(alias[v].last, Revision(e))
  <2>1. \A v \in Lookup : v \notin Rows(alias) => OlderRevision(alias[v].last, Revision(e))
    BY EventRevision DEF Rows, NoAlias
  <2>2. \A v \in Lookup : v \in Version
    BY <1>1, LookupFinite
  <2> QED
    BY <2>1, <2>2 DEF Updated
<1>6. \A v \in Rows(alias) : ~OlderRevision(alias[v].last, Revision(e)) => u[v] = alias[v]
  BY <1>1, LookupFinite DEF Updated
<1> HIDE DEF u
<1>7. PICK w \in Lookup :
        /\ IsNewest(u[w].last, {u[v].last : v \in Lookup})
        /\ alias' = [v \in Version |->
             IF v \in Lookup
             THEN [status |-> u[w].status, revision |-> u[v].revision, last |-> u[w].last]
             ELSE u[v]]
  BY <1>1, <1>4, Authority DEF u
<1>8. \E g \in H : /\ u[w].status = DestinationStatus(g) /\ u[w].last = Revision(g)
                   /\ IsNewest(Revision(g), RevisionsOf(H))
  <2>1. CASE u[w].status = DestinationStatus(e) /\ u[w].last = Revision(e)
    <3>1. CASE Rows(alias) = {}
      <4>1. H = {e}
        BY <1>1, <3>1
      <4> QED
        BY <2>1, <4>1, OnlyNewest
    <3>2. CASE Rows(alias) # {}
      <4>1. PICK v \in Rows(alias) : TRUE
        BY <3>2
      <4>2. PICK f \in G : /\ alias[v].last = Revision(f)
                           /\ IsNewest(Revision(f), RevisionsOf(G))
        BY <1>1, <1>2, <4>1 DEF Told
      <4>3. IF OlderRevision(Revision(f), Revision(e))
            THEN IsNewest(Revision(e), RevisionsOf(H))
            ELSE IsNewest(Revision(f), RevisionsOf(H))
        BY <1>1, <4>2, NewestEvent
      <4>4. CASE OlderRevision(Revision(f), Revision(e))
        BY <2>1, <4>3, <4>4
      <4>5. CASE ~OlderRevision(Revision(f), Revision(e))
        <5>1. u[v].last = Revision(f)
          BY <1>6, <4>1, <4>2, <4>5
        <5>2. ~OlderRevision(Revision(e), Revision(f))
          BY <1>1, <1>7, <2>1, <4>1, <5>1 DEF IsNewest
        <5>3. Revision(e) = Revision(f)
          BY <1>1, <4>2, <4>5, <5>2, EventRevision, OlderIsOrder
        <5> QED
          BY <2>1, <4>3, <4>5, <5>3
      <4> QED
        BY <4>4, <4>5
    <3> QED
      BY <3>1, <3>2
  <2>2. CASE /\ w \in Rows(alias) /\ u[w] = alias[w]
             /\ ~OlderRevision(alias[w].last, Revision(e))
    <3>1. PICK f \in G : /\ alias[w].status = DestinationStatus(f)
                         /\ alias[w].last = Revision(f)
                         /\ IsNewest(Revision(f), RevisionsOf(G))
      BY <1>1, <1>2, <2>2 DEF Told
    <3>2. IsNewest(Revision(f), RevisionsOf(H))
      BY <1>1, <2>2, <3>1, NewestEvent
    <3> QED
      BY <2>2, <3>1, <3>2
  <2> QED
    BY <1>5, <2>1, <2>2
<1>9. \A v \in Lookup : /\ alias'[v].status = u[w].status /\ alias'[v].last = u[w].last
                        /\ alias'[v].revision = 0
  <2>1. \A v \in Lookup : alias[v].revision = 0
    <3>1. \A v \in Lookup : v \notin Rows(alias) => alias[v].revision = 0
      BY DEF Rows, NoAlias
    <3>2. Cardinality(Terminal(events)) = 0
      BY <1>2, FS_EmptySet
    <3> QED
      BY <1>1, <3>1, <3>2 DEF Told
  <2> QED
    BY <1>1, <1>4, <1>7, <2>1, LookupFinite
<1>10. Rows(alias)' = Lookup
  <2>1. PICK g : u[w].status = DestinationStatus(g) /\ u[w].last = Revision(g) /\ g \in Event
    BY <1>1, <1>8
  <2>2. u[w].last # NoRevision
    <3>1. OlderRevision(NoRevision, Revision(g)) /\ ~OlderRevision(NoRevision, NoRevision)
      BY <2>1, EventRevision DEF OlderRevision, NoRevision
    <3> QED
      BY <2>1, <3>1
  <2>3. \A v \in Lookup : alias'[v] # NoAlias
    BY <1>9, <2>2 DEF NoAlias
  <2> QED
    BY <1>1, <2>3 DEF Rows
<1>11. Terminal(events)' = {} /\ Telling(events)' = H /\ Cardinality({}) = 0
  BY <1>2, <1>3, FS_EmptySet
<1> HIDE DEF H, G
<1>12. \A v \in Rows(alias)' : Told(v)'
  BY <1>8, <1>9, <1>10, <1>11 DEF Told
<1> QED
  BY <1>1, <1>10, <1>12 DEF DestinationTold

(* A step that leaves what the rows say, and what tells it, as they are.   *)
LEMMA SameTold ==
    ASSUME FollowInv, alias' = alias, Rows(alias)' = Rows(alias), plain' = plain,
           Terminal(events)' = Terminal(events),
           Telling(events)' = Telling(events) \/ Terminal(events) # {}
    PROVE  DestinationTold'
<1>1. \A v \in Rows(alias) : Told(v) => Told(v)'
  BY DEF Told
<1> QED
  BY <1>1 DEF FollowInv, DestinationTold

LEMMA PersistTold ==
    ASSUME FollowInv, NEW e \in Event, Persist(e) PROVE DestinationTold'
<1>1. /\ e \notin events /\ events' = events \cup {e}
      /\ UNCHANGED <<keyring, plain>> /\ ApplyDestinationTransition(e)
  BY DEF Persist
<1>2. CASE ~plain
  BY <1>1, <1>2 DEF DestinationTold
<1>3. CASE plain /\ IsTerminalMailboxEvent(e)
  BY <1>1, <1>3, TerminalTold DEF ApplyDestinationTransition
<1>4. CASE plain /\ ~IsTerminalMailboxEvent(e) /\ DestinationStatus(e) # "none" /\ ~Blocked
  BY <1>1, <1>4, TellingTold DEF ApplyDestinationTransition
<1>5. CASE plain /\ ~IsTerminalMailboxEvent(e) /\ (DestinationStatus(e) = "none" \/ Blocked)
  <2>1. alias' = alias /\ Rows(alias)' = Rows(alias)
    BY <1>1, <1>5 DEF ApplyDestinationTransition, Rows, Lookup
  <2>2. Terminal(events)' = Terminal(events)
    BY <1>1, <1>5 DEF Terminal
  <2>3. CASE DestinationStatus(e) = "none"
    <3>1. Telling(events)' = Telling(events)
      BY <1>1, <2>3 DEF Telling
    <3> QED
      BY <1>1, <2>1, <2>2, <3>1, SameTold
  <2>4. CASE Blocked
    <3>1. PICK v \in Lookup : alias[v].status \in BlockedStatuses
      BY <2>4 DEF Blocked
    <3>2. v \in Rows(alias)
      BY <3>1 DEF Rows, NoAlias, BlockedStatuses
    <3>3. Terminal(events) # {}
      BY <1>5, <3>1, <3>2, TellingKinds DEF FollowInv, DestinationTold, Told, BlockedStatuses
    <3> QED
      BY <1>1, <2>1, <2>2, <3>3, SameTold
  <2> QED
    BY <1>5, <2>3, <2>4
<1> QED
  BY <1>2, <1>3, <1>4, <1>5

-----------------------------------------------------------------------------
LEMMA InitFollows == Init => FollowInv
<1> SUFFICES ASSUME Init PROVE FollowInv
  OBVIOUS
<1>1. AgreeInv /\ QueueInv
  BY InitAgrees, InitQueueInv
<1>2. IsFiniteSet(events) /\ events = {} /\ queued = {}
  BY FS_EmptySet DEF Init
<1>3. Rows(alias) = {}
  BY <1>1, KeysFinite DEF Init, AgreeInv, IInv, Rows
<1>4. DestinationTold
  BY <1>2, <1>3 DEF DestinationTold, Terminal, Telling
<1>5. \A m \in Mail : MailTold(m)
  BY <1>2 DEF MailTold, EventsOf
<1> QED
  BY <1>1, <1>2, <1>4, <1>5 DEF FollowInv

LEMMA SameMail ==
    ASSUME NEW m \in Mail, MailTold(m), EventsOf(m)' = EventsOf(m),
           delivery'[m] = delivery[m], \A e \in queued' : e.mail = m => e \in queued
    PROVE  MailTold(m)'
BY DEF MailTold, Decided, Stored

(* A step that changes no row of a mail, and no event.                     *)
LEMMA QuietFollows ==
    ASSUME FollowInv, AgreeInv', QueueInv', UNCHANGED <<delivery, events>>,
           queued' \subseteq queued, DestinationTold'
    PROVE  FollowInv'
<1>1. ASSUME NEW m \in Mail PROVE MailTold(m)'
  <2>1. EventsOf(m)' = EventsOf(m) /\ MailTold(m)
    BY DEF EventsOf, FollowInv
  <2> QED
    BY <2>1, SameMail
<1> QED
  BY <1>1 DEF FollowInv

LEMMA ClaimFollows ==
    ASSUME FollowInv, AgreeInv', QueueInv', NEW m \in Mail, Claim(m) PROVE FollowInv'
<1> DEFINE d == NewDelivery("mail", Blocked, NoLease)
<1>1. /\ delivery[m] = NoRow /\ delivery' = [delivery EXCEPT ![m] = d]
      /\ queued' = IF Blocked THEN queued ELSE queued \cup {e \in Event : e.mail = m}
      /\ UNCHANGED <<keyring, alias, events, plain>>
  BY DEF Claim
<1>2. d.status = (IF Blocked THEN "SUPPRESSED" ELSE "PENDING") /\ d.last = NoRevision
  BY DEF NewDelivery
<1> HIDE DEF d
<1>3. /\ delivery'[m] = d /\ ~Stored(m) /\ EventsOf(m)' = EventsOf(m)
      /\ \A n \in Mail : n # m => delivery'[n] = delivery[n]
  BY <1>1 DEF FollowInv, QueueInv, Stored, EventsOf
<1>4. EventsOf(m) = {} /\ ~\E e \in queued : e.mail = m
  BY <1>3 DEF FollowInv, MailTold, QueueInv, QueuedEventsMatch, Matches
<1>5. MailTold(m)'
  BY <1>1, <1>2, <1>3, <1>4 DEF MailTold
<1>6. ASSUME NEW n \in Mail, n # m PROVE MailTold(n)'
  <2>1. EventsOf(n)' = EventsOf(n) /\ MailTold(n)
    BY <1>1 DEF EventsOf, FollowInv
  <2>2. \A e \in queued' : e.mail = n => e \in queued
    BY <1>1, <1>6
  <2> QED
    BY <1>3, <1>6, <2>1, <2>2, SameMail
<1>7. DestinationTold'
  BY <1>1, SameTold DEF Rows, Lookup
<1> QED
  BY <1>1, <1>5, <1>6, <1>7 DEF FollowInv

LEMMA PersistFollows ==
    ASSUME FollowInv, AgreeInv', QueueInv', NEW e \in Event, Persist(e) PROVE FollowInv'
<1>1. /\ events' = events \cup {e} /\ queued' = queued /\ e.mail \in Mail
      /\ delivery' = [delivery EXCEPT ![e.mail] = AfterFeedback(delivery[e.mail], e)]
  BY SesFeedbackAssumption DEF Persist
<1>2. IsFiniteSet(events')
  BY <1>1, FS_AddElement DEF FollowInv
<1>3. MailTold(e.mail)'
  BY MailTellsMore
<1>4. ASSUME NEW n \in Mail, n # e.mail PROVE MailTold(n)'
  <2>1. EventsOf(n)' = EventsOf(n) /\ MailTold(n)
    BY <1>1, <1>4 DEF EventsOf, FollowInv
  <2>2. delivery'[n] = delivery[n]
    BY <1>1, <1>4 DEF FollowInv, QueueInv
  <2> QED
    BY <1>1, <2>1, <2>2, SameMail
<1>5. DestinationTold'
  BY PersistTold
<1> QED
  BY <1>2, <1>3, <1>4, <1>5 DEF FollowInv

(* A deleted mail has no events any more, and none to come.                *)
LEMMA CleanupFollows == ASSUME FollowInv, AgreeInv', QueueInv', Cleanup PROVE FollowInv'
<1>1. PICK old \in SUBSET {m \in Mail : Stored(m)} :
        /\ \A e \in queued : e.mail \notin old
        /\ delivery' = [m \in Mail |-> IF m \in old THEN Gone ELSE delivery[m]]
        /\ events' = {e \in events : e.mail \notin old}
        /\ plain' = FALSE /\ queued' = queued
  BY DEF Cleanup
<1>2. IsFiniteSet(events')
  <2>1. events' \subseteq events
    BY <1>1
  <2> QED
    BY <2>1, FS_Subset DEF FollowInv
<1>3. ASSUME NEW m \in Mail PROVE MailTold(m)'
  <2>1. CASE m \in old
    <3>1. EventsOf(m)' = {} /\ ~\E e \in queued' : e.mail = m
      BY <1>1, <2>1 DEF EventsOf
    <3> QED
      BY <3>1 DEF MailTold
  <2>2. CASE m \notin old
    <3>1. EventsOf(m)' = EventsOf(m) /\ MailTold(m) /\ delivery'[m] = delivery[m]
      BY <1>1, <2>2 DEF EventsOf, FollowInv
    <3> QED
      BY <1>1, <3>1, SameMail
  <2> QED
    BY <2>1, <2>2
<1> QED
  BY <1>1, <1>2, <1>3 DEF FollowInv, DestinationTold

(* The rows there are, are found with the next keyring, too.               *)
LEMMA RestartFollows == ASSUME FollowInv, AgreeInv', QueueInv', Restart PROVE FollowInv'
<1>1. UNCHANGED <<mails, alias, queued, events, plain>>
  BY DEF Restart
<1>2. Rows(alias) = {v \in Version : alias[v] # NoAlias}
  BY LookupFinite DEF FollowInv, Rows
<1>3. Rows(alias)' = {v \in Version : alias'[v] # NoAlias}
  <2>1. keyring'.keys \subseteq Version
    BY SesFeedbackAssumption DEF AgreeInv, IInv, Keyring
  <2>2. \A v \in Version : alias'[v] # NoAlias => v \in keyring'.keys
    BY DEF AgreeInv, IInv, AliasesAreOfRunningKeys, Lookup
  <2> QED
    BY <2>1, <2>2 DEF Rows, Lookup
<1>4. DestinationTold'
  BY <1>1, <1>2, <1>3, SameTold
<1> QED
  BY <1>1, <1>4, QuietFollows DEF mails

LEMMA StepFollowInv == FollowInv /\ [Next]_vars => FollowInv'
<1> SUFFICES ASSUME FollowInv, [Next]_vars PROVE FollowInv'
  OBVIOUS
<1>0. AgreeInv' /\ QueueInv'
  BY StepAgreeInv, StepQueueInv DEF FollowInv
<1>1. CASE \E m \in Mail : Claim(m)
  BY <1>0, <1>1, ClaimFollows
<1>2. CASE \E e \in Event : Persist(e)
  BY <1>0, <1>2, PersistFollows
<1>3. CASE Cleanup
  BY <1>0, <1>3, CleanupFollows
<1>4. CASE Restart
  BY <1>0, <1>4, RestartFollows
<1>5. CASE \E o \in Operation : SwapDestinations(o)
  <2>1. UNCHANGED <<delivery, events, queued>> /\ DestinationTold'
    BY <1>5 DEF SwapDestinations, mails, DestinationTold
  <2> QED
    BY <1>0, <2>1, QuietFollows
<1>6. CASE \/ \E e \in Event : Delete(e)
           \/ \E o \in Operation : ReadDestinations(o) \/ AbortRecovery(o)
           \/ UNCHANGED vars
  <2>1. UNCHANGED <<delivery, events, alias, keyring, plain>> /\ queued' \subseteq queued
    BY <1>6 DEF Delete, ReadDestinations, AbortRecovery, vars, mails
  <2>2. DestinationTold'
    BY <2>1, SameTold DEF Rows, Lookup
  <2> QED
    BY <1>0, <2>1, <2>2, QuietFollows
<1> QED
  BY <1>1, <1>2, <1>3, <1>4, <1>5, <1>6 DEF Next

(* What the events left in the rows depends on which came, not on the      *)
(* order: the newest terminal one decides, and counts, and before there is *)
(* one the newest that tells something.                                    *)
THEOREM OrderIsForgotten == Spec => []OrderDoesNotMatter
<1>1. ASSUME FollowInv PROVE DestinationFollowsEvents
  <2> DEFINE terminal == {e \in events : IsTerminalMailboxEvent(e)}
             telling == {e \in events : DestinationStatus(e) # "none"}
  <2>1. /\ terminal = Terminal(events) /\ telling = Telling(events)
        /\ terminal \subseteq Event /\ telling \subseteq Event
    BY <1>1 DEF Terminal, Telling, FollowInv, AgreeInv, Typed
  <2> SUFFICES ASSUME plain, NEW v \in Rows(alias)
               PROVE IF terminal # {}
                     THEN /\ alias[v].last = Newest({Revision(e) : e \in terminal})
                          /\ alias[v].revision = Cardinality(terminal)
                     ELSE \E e \in telling :
                            /\ Revision(e) = Newest({Revision(f) : f \in telling})
                            /\ alias[v].last = Revision(e)
                            /\ alias[v].status = DestinationStatus(e)
    BY DEF DestinationFollowsEvents
  <2>2. Told(v)
    BY <1>1 DEF FollowInv, DestinationTold
  <2> HIDE DEF terminal, telling
  <2>3. CASE terminal # {}
    <3>1. IsNewest(alias[v].last, RevisionsOf(terminal))
      BY <2>1, <2>2, <2>3 DEF Told
    <3>2. Newest(RevisionsOf(terminal)) = alias[v].last
      BY <2>1, <3>1, RevisionsOfTyped, NewestIs
    <3> QED
      BY <2>1, <2>2, <2>3, <3>2 DEF Told, RevisionsOf
  <2>4. CASE terminal = {}
    <3>1. PICK e \in telling : /\ alias[v].status = DestinationStatus(e)
                               /\ alias[v].last = Revision(e)
                               /\ IsNewest(Revision(e), RevisionsOf(telling))
      BY <2>1, <2>2, <2>4 DEF Told
    <3>2. Newest(RevisionsOf(telling)) = Revision(e)
      BY <2>1, <3>1, RevisionsOfTyped, NewestIs
    <3> QED
      BY <2>4, <3>1, <3>2 DEF RevisionsOf
  <2> QED
    BY <2>3, <2>4
<1>2. ASSUME FollowInv PROVE StatusFollowsEvents
  <2> SUFFICES ASSUME NEW m \in Mail, EventsOf(m) # {}, ~Transient(EventsOf(m))
               PROVE  LET D == IF Terminal(EventsOf(m)) # {} THEN Terminal(EventsOf(m))
                               ELSE EventsOf(m)
                      IN \E e \in D : /\ Revision(e) = Newest({Revision(f) : f \in D})
                                      /\ delivery[m].status = DeliveryStatus(e)
    BY DEF StatusFollowsEvents, EventsOf, Transient, Terminal
  <2> DEFINE D == IF Terminal(EventsOf(m)) # {} THEN Terminal(EventsOf(m)) ELSE EventsOf(m)
  <2>1. Decided(m, D) /\ D \subseteq Event
    BY <1>2 DEF FollowInv, MailTold, AgreeInv, Typed, EventsOf, Terminal
  <2> HIDE DEF D
  <2>2. PICK e \in D : /\ delivery[m].status = DeliveryStatus(e)
                       /\ IsNewest(Revision(e), RevisionsOf(D))
    BY <2>1 DEF Decided
  <2>3. Newest(RevisionsOf(D)) = Revision(e)
    BY <2>1, <2>2, RevisionsOfTyped, NewestIs
  <2>4. \E x \in D : /\ Revision(x) = Newest({Revision(f) : f \in D})
                     /\ delivery[m].status = DeliveryStatus(x)
    BY <2>2, <2>3 DEF RevisionsOf
  <2> QED
    BY <2>4 DEF D
<1>3. FollowInv => OrderDoesNotMatter
  BY <1>1, <1>2 DEF OrderDoesNotMatter
<1> QED
  BY <1>3, InitFollows, StepFollowInv, PTL DEF Spec
=============================================================================
