--------------------------- MODULE JobLeaseProofs ---------------------------
(***************************************************************************)
(* Proofs about the lease protocol, for any number of workers and jobs,    *)
(* any priorities, attempt budgets and lease length.                       *)
(***************************************************************************)
EXTENDS JobLease, TLAPS

\* No two workers were handed the same generation of a job, and none was
\* handed one that the row has not reached: what the fence relies on.
GenerationsDistinct ==
  /\ \A w \in Workers : hold[w] # NoJob => hgen[w] <= gen[hold[w]]
  /\ \A v, w \in Workers :
       hold[v] # NoJob /\ hold[v] = hold[w] /\ hgen[v] = hgen[w] => v = w

LeaseInv == LeaseTypeOK /\ RetryBudget /\ GenerationsDistinct

\* Every lease statement keeps the columns' types.
LEMMA LeaseTypeStep == LeaseTypeOK /\ [LeaseNext]_leaseVars => LeaseTypeOK'
<1> SUFFICES ASSUME LeaseTypeOK, [LeaseNext]_leaseVars PROVE LeaseTypeOK'
  OBVIOUS
<1> USE JobAssumption DEF LeaseTypeOK
<1>1. CASE UNCHANGED leaseVars
  BY <1>1 DEF leaseVars
<1>2. CASE Tick
  BY <1>2 DEF Tick
<1>3. ASSUME NEW w \in Workers, LeaseStep(w) PROVE LeaseTypeOK'
  <2>0. \A j \in Jobs : Recovered(j) \in {"pending", "running", "succeeded", "dead"}
    BY DEF Recovered
  <2>1. CASE StartWorker(w)
    BY <2>0, <2>1 DEF StartWorker
  <2>2. CASE \E j \in Jobs : Claim(w, j)
    BY <2>0, <2>2 DEF Claim
  <2>3. CASE PollEmpty(w)
    BY <2>0, <2>3 DEF PollEmpty
  <2>4. CASE Renew(w)
    BY <2>4 DEF Renew, Owns
  <2>5. CASE Succeed(w)
    BY <2>5 DEF Succeed, Owns, Release
  <2>6. CASE \E terminal \in BOOLEAN : Fail(w, terminal)
    BY <2>6 DEF Fail, FailureStatus, Owns, Release
  <2>7. CASE Abandon(w)
    BY <2>7 DEF Abandon, Release, jobVars
  <2>8. CASE Crash(w)
    BY <2>8 DEF Crash, jobVars
  <2> QED
    BY <1>3, <2>1, <2>2, <2>3, <2>4, <2>5, <2>6, <2>7, <2>8 DEF LeaseStep
<1> QED
  BY <1>1, <1>2, <1>3 DEF LeaseNext

\* Every value a lease statement writes has its column's type: statuses come
\* from the four of the jobs table, the remaining lease time never leaves
\* 0..LeaseTicks.
THEOREM LeaseTypeCorrect == LeaseSpec => []LeaseTypeOK
<1>1. LeaseInit => LeaseTypeOK
  BY JobAssumption DEF LeaseInit, LeaseTypeOK
<1> QED
  BY <1>1, LeaseTypeStep, PTL DEF LeaseSpec

\* No statement hands out a generation twice or spends more than the budget.
LEMMA LeaseInvInductive ==
  /\ LeaseInit => LeaseInv
  /\ LeaseInv /\ LeaseTypeOK' /\ [LeaseNext]_leaseVars => LeaseInv'
<1>1. LeaseInit => LeaseInv
  BY JobAssumption DEF LeaseInit, LeaseInv, LeaseTypeOK, RetryBudget, GenerationsDistinct
<1>2. LeaseInv /\ LeaseTypeOK' /\ [LeaseNext]_leaseVars => LeaseInv'
  <2> SUFFICES ASSUME LeaseTypeOK, LeaseTypeOK', RetryBudget, GenerationsDistinct,
                      [LeaseNext]_leaseVars
               PROVE  RetryBudget' /\ GenerationsDistinct'
    BY DEF LeaseInv
  <2> USE JobAssumption DEF LeaseTypeOK
  <2>1. CASE UNCHANGED leaseVars
    BY <2>1 DEF leaseVars, RetryBudget, GenerationsDistinct
  <2>2. CASE Tick
    BY <2>2 DEF Tick, RetryBudget, GenerationsDistinct
  <2>3. ASSUME NEW w \in Workers, LeaseStep(w)
        PROVE  RetryBudget' /\ GenerationsDistinct'
    <3>0. \A j \in Jobs : Recovered(j) = "pending" => attempts[j] < MaxAttempts[j]
      BY DEF Recovered, RetryBudget
    <3>1. CASE StartWorker(w)
      BY <3>0, <3>1 DEF StartWorker, RetryBudget, GenerationsDistinct
    <3>2. ASSUME NEW j \in Jobs, Claim(w, j)
          PROVE  RetryBudget' /\ GenerationsDistinct'
      <4>1. RetryBudget'
        BY <3>0, <3>2 DEF Claim, Claimable, RetryBudget
      <4>2. GenerationsDistinct'
        BY <3>2 DEF Claim, GenerationsDistinct
      <4> QED
        BY <4>1, <4>2
    <3>3. CASE PollEmpty(w)
      BY <3>0, <3>3 DEF PollEmpty, RetryBudget, GenerationsDistinct
    <3>4. CASE Renew(w)
      BY <3>4 DEF Renew, RetryBudget, GenerationsDistinct
    <3>5. CASE Succeed(w)
      BY <3>5 DEF Succeed, Owns, Release, RetryBudget, GenerationsDistinct
    <3>6. CASE \E terminal \in BOOLEAN : Fail(w, terminal)
      BY <3>6 DEF Fail, FailureStatus, Owns, Release, RetryBudget, GenerationsDistinct
    <3>7. CASE Abandon(w)
      BY <3>7 DEF Abandon, Release, jobVars, RetryBudget, GenerationsDistinct
    <3>8. CASE Crash(w)
      BY <3>8 DEF Crash, jobVars, RetryBudget, GenerationsDistinct
    <3> QED
      BY <2>3, <3>1, <3>2, <3>3, <3>4, <3>5, <3>6, <3>7, <3>8 DEF LeaseStep
  <2> QED
    BY <2>1, <2>2, <2>3 DEF LeaseNext
<1> QED
  BY <1>1, <1>2

\* The strengthened invariant holds in every reachable state.
LEMMA LeaseInvAlways == LeaseSpec => []LeaseInv
  BY LeaseInvInductive, LeaseTypeCorrect, PTL DEF LeaseSpec

\* At most one worker ever passes the fence of a job: two that hold the same
\* job hold different generations, and the row has only one.
THEOREM LeaseIsExclusive == LeaseSpec => []LeaseExclusive
<1>1. LeaseInv => LeaseExclusive
  BY DEF LeaseInv, GenerationsDistinct, LeaseExclusive, Owns
<1> QED
  BY <1>1, LeaseInvAlways, PTL

\* No job is claimed more often than its max_attempts allows.
THEOREM RetriesAreBounded == LeaseSpec => []RetryBudget
<1>1. LeaseInv => RetryBudget
  BY DEF LeaseInv
<1> QED
  BY <1>1, LeaseInvAlways, PTL

\* What a worker has lost it does not win back while it keeps the same claim: a
\* renewal needs the lease it would revive, a claim moves the generation on.
StaysLost ==
  \A w \in Workers :
    hold[w] # NoJob /\ ~Owns(w) /\ hold'[w] = hold[w] /\ hgen'[w] = hgen[w] => ~Owns(w)'

\* No lease statement, of whatever worker, revives a lost claim.
LEMMA LostLeaseStep == LeaseInv /\ [LeaseNext]_leaseVars => StaysLost
<1> SUFFICES ASSUME LeaseTypeOK, GenerationsDistinct, [LeaseNext]_leaseVars, NEW w \in Workers,
                    hold[w] # NoJob, ~Owns(w), hold'[w] = hold[w], hgen'[w] = hgen[w]
             PROVE  ~Owns(w)'
  BY DEF LeaseInv, StaysLost
<1>0. CASE UNCHANGED leaseVars
  BY <1>0 DEF leaseVars, Owns
<1> USE JobAssumption DEF LeaseTypeOK
<1>1. CASE Tick
  BY <1>1 DEF Tick, Owns
<1>2. ASSUME NEW v \in Workers, LeaseStep(v) PROVE ~Owns(w)'
  <2>1. CASE StartWorker(v)
    BY <2>1 DEF StartWorker, Owns, Recovered
  <2>2. ASSUME NEW j \in Jobs, Claim(v, j) PROVE ~Owns(w)'
    <3>1. w # v
      BY <2>2 DEF Claim
    <3>2. CASE hold[w] = j
      BY <2>2, <3>1, <3>2 DEF Claim, Owns, GenerationsDistinct
    <3>3. CASE hold[w] # j
      BY <2>2, <3>1, <3>3 DEF Claim, Owns, Recovered
    <3> QED
      BY <3>2, <3>3
  <2>3. CASE PollEmpty(v)
    BY <2>3 DEF PollEmpty, Owns, Recovered
  <2>4. CASE Renew(v)
    BY <2>4 DEF Renew, Owns
  <2>5. CASE Succeed(v)
    BY <2>5 DEF Succeed, Owns, Release
  <2>6. CASE \E terminal \in BOOLEAN : Fail(v, terminal)
    BY <2>6 DEF Fail, FailureStatus, Owns, Release
  <2>7. CASE Abandon(v)
    BY <2>7 DEF Abandon, Owns, Release, jobVars
  <2>8. CASE Crash(v)
    BY <2>8 DEF Crash, Owns, jobVars
  <2> QED
    BY <1>2, <2>1, <2>2, <2>3, <2>4, <2>5, <2>6, <2>7, <2>8 DEF LeaseStep
<1> QED
  BY <1>0, <1>1, <1>2 DEF LeaseNext

\* A worker that lost its lease stays locked out for the rest of that claim.
THEOREM LostLeaseStaysLost == LeaseSpec => LeaseLostForGood
<1>1. LeaseInv /\ [LeaseNext]_leaseVars => [StaysLost]_leaseVars
  BY LostLeaseStep
<1> QED
  BY <1>1, LeaseInvAlways, PTL DEF LeaseSpec, LeaseLostForGood, StaysLost
-----------------------------------------------------------------------------
(* The refinement.  The holder of a job is a CHOOSE: OwnerKnown says what it *)
(* chooses, and HolderKept that it stays when no worker's hold changes.      *)

OwnerKnown ==
  \A j \in Jobs : /\ Holder(j) \in Workers \cup {NoWorker}
                  /\ \A w \in Workers : Holder(j) = w <=> Holds(w, j)

\* An exclusive lease makes the chosen holder the worker that passes the fence.
LEMMA ExclusiveOwnerKnown == LeaseExclusive => OwnerKnown
<1> SUFFICES ASSUME LeaseExclusive, NEW j \in Jobs
             PROVE  /\ Holder(j) \in Workers \cup {NoWorker}
                    /\ \A w \in Workers : Holder(j) = w <=> Holds(w, j)
  BY DEF OwnerKnown
<1>1. ASSUME NEW w \in Workers, Holds(w, j) PROVE Holder(j) = w
  BY <1>1 DEF Holder, Holds, LeaseExclusive
<1>2. CASE \A w \in Workers : ~Holds(w, j)
  <2>1. Holder(j) = NoWorker
    BY <1>2 DEF Holder
  <2> QED
    BY <1>2, <2>1, JobAssumption
<1>3. CASE \E w \in Workers : Holds(w, j)
  BY <1>1, <1>3
<1> QED
  BY <1>2, <1>3

\* A job whose owner does not change keeps its holder.
LEMMA HolderKept ==
  ASSUME OwnerKnown, OwnerKnown', NEW j \in Jobs,
         \A w \in Workers : Holds(w, j)' <=> Holds(w, j)
  PROVE  Holder(j)' = Holder(j)
<1>1. CASE Holder(j) = NoWorker
  BY <1>1, JobAssumption DEF OwnerKnown
<1>2. CASE Holder(j) \in Workers
  BY <1>2 DEF OwnerKnown
<1> QED
  BY <1>1, <1>2 DEF OwnerKnown

\* A job that no worker owns has no holder.
LEMMA HolderGone ==
  ASSUME OwnerKnown', NEW j \in Jobs, \A w \in Workers : ~Holds(w, j)'
  PROVE  Holder(j)' = NoWorker
  BY DEF OwnerKnown

\* A recovered row is as the next sweep will leave it, so the sweep itself is
\* invisible to the contract.
LEMMA SweepInvisible ==
  ASSUME NEW j \in Jobs, status'[j] = Recovered(j), UNCHANGED <<attempts, ttl>>
  PROVE  Recovered(j)' = Recovered(j)
  BY DEF Recovered, Stale

\* Every step of the lease protocol is a step of the contract or invisible to
\* it: a claim is a Start, the success and failure writes are Ends, a crash is
\* a Vanish, and the tick that expires leases is a Lapse of exactly those.
LEMMA LeaseStepRefines ==
  LeaseInv /\ OwnerKnown /\ OwnerKnown' /\ [LeaseNext]_leaseVars
    => [Contract!ContractNext]_(Contract!contractVars)
<1> SUFFICES ASSUME LeaseTypeOK, RetryBudget, GenerationsDistinct, OwnerKnown, OwnerKnown',
                    [LeaseNext]_leaseVars
             PROVE  [Contract!ContractNext]_(Contract!contractVars)
  BY DEF LeaseInv
<1> USE JobAssumption DEF LeaseTypeOK
<1> DEFINE Invisible == /\ attempts' = attempts
                        /\ \A k \in Jobs : Recovered(k)' = Recovered(k) /\ Holder(k)' = Holder(k)
<1>0. Invisible => UNCHANGED Contract!contractVars
  BY DEF Contract!contractVars
<1>1. CASE UNCHANGED leaseVars
  <2>1. \A k \in Jobs : /\ Recovered(k)' = Recovered(k)
                        /\ \A v \in Workers : Holds(v, k)' <=> Holds(v, k)
    BY <1>1 DEF leaseVars, Recovered, Stale, Holds, Owns
  <2> QED
    BY <1>0, <1>1, <2>1, HolderKept DEF leaseVars
<1>2. CASE Tick
  <2> DEFINE S == {k \in Jobs : status[k] = "running" /\ ttl[k] = 1}
  <2>1. \A k \in S : /\ Recovered(k) = "running"
                     /\ Recovered(k)' = IF attempts[k] < MaxAttempts[k] THEN "pending" ELSE "dead"
                     /\ \A v \in Workers : ~Holds(v, k)'
    BY <1>2 DEF Tick, Recovered, Stale, Holds, Owns
  <2>2. \A k \in Jobs \ S : /\ Recovered(k)' = Recovered(k)
                            /\ \A v \in Workers : Holds(v, k)' <=> Holds(v, k)
    BY <1>2 DEF Tick, Recovered, Stale, Holds, Owns
  <2>3. /\ \A k \in S : Holder(k)' = NoWorker
        /\ \A k \in Jobs \ S : Holder(k)' = Holder(k)
    BY <2>1, <2>2, HolderKept, HolderGone
  <2>4. Contract!Lapse(S)
    BY <1>2, <2>1, <2>2, <2>3 DEF Contract!Lapse, Tick
  <2> QED
    BY <2>4 DEF Contract!ContractNext
<1>3. ASSUME NEW w \in Workers, LeaseStep(w)
      PROVE  [Contract!ContractNext]_(Contract!contractVars)
  <2>0. ASSUME \A k \in Jobs : status'[k] = Recovered(k),
               UNCHANGED <<attempts, gen, ttl, hold, hgen>>
        PROVE  UNCHANGED Contract!contractVars
    <3>1. \A k \in Jobs : Recovered(k)' = Recovered(k)
      BY <2>0, SweepInvisible
    <3>2. \A k \in Jobs : \A v \in Workers : Holds(v, k)' <=> Holds(v, k)
      BY <2>0 DEF Holds, Owns, Recovered, Stale
    <3> QED
      BY <1>0, <2>0, <3>1, <3>2, HolderKept
  <2>1. CASE StartWorker(w)
    BY <2>0, <2>1 DEF StartWorker
  <2>2. ASSUME NEW j \in Jobs, Claim(w, j)
        PROVE  Contract!ContractNext
    <3>1. /\ Recovered(j) = "pending" /\ Recovered(j)' = "running"
          /\ attempts[j] < MaxAttempts[j]
      BY <2>2 DEF Claim, Claimable, Recovered, Stale, RetryBudget
    <3>2. \A k \in Jobs \ {j} : Recovered(k)' = Recovered(k)
      BY <2>2 DEF Claim, Recovered, Stale
    <3>3. \A k \in Jobs \ {j} : \A v \in Workers : Holds(v, k)' <=> Holds(v, k)
      BY <2>2 DEF Claim, Holds, Owns, Recovered, Stale
    <3>4. Holds(w, j)'
      BY <2>2 DEF Claim, Holds, Owns
    <3>5. Holder(j)' = w /\ \A k \in Jobs \ {j} : Holder(k)' = Holder(k)
      BY <3>3, <3>4, HolderKept DEF OwnerKnown
    <3>6. Contract!Start(w, j)
      BY <2>2, <3>1, <3>2, <3>5 DEF Claim, Contract!Start
    <3> QED
      BY <3>6 DEF Contract!ContractNext
  <2>3. CASE PollEmpty(w)
    BY <2>0, <2>3 DEF PollEmpty
  <2>4. CASE Renew(w)
    <3>1. \A k \in Jobs : /\ Recovered(k)' = Recovered(k)
                          /\ \A v \in Workers : Holds(v, k)' <=> Holds(v, k)
      BY <2>4 DEF Renew, Recovered, Stale, Holds, Owns
    <3> QED
      BY <1>0, <2>4, <3>1, HolderKept DEF Renew
  <2>5. ASSUME Owns(w), Release(w), UNCHANGED <<attempts, gen>>,
               NEW j \in Jobs, j = hold[w],
               NEW p \in {"pending", "succeeded", "dead"},
               p = "pending" => attempts[j] < MaxAttempts[j],
               status' = [status EXCEPT ![j] = p],
               ttl' = [ttl EXCEPT ![j] = 0]
        PROVE  Contract!ContractNext
    <3>1. Recovered(j)' = p /\ \A k \in Jobs \ {j} : Recovered(k)' = Recovered(k)
      BY <2>5 DEF Recovered, Stale
    <3>2. /\ \A v \in Workers : ~Holds(v, j)'
          /\ \A k \in Jobs \ {j} : \A v \in Workers : Holds(v, k)' <=> Holds(v, k)
      BY <2>5 DEF Release, Holds, Owns
    <3>3. Holder(j)' = NoWorker /\ \A k \in Jobs \ {j} : Holder(k)' = Holder(k)
      BY <3>2, HolderKept, HolderGone
    <3>4. Holder(j) = w
      BY <2>5 DEF OwnerKnown, Holds
    <3>5. Contract!End(w, j, p)
      BY <2>5, <3>1, <3>3, <3>4 DEF Contract!End
    <3> QED
      BY <3>5 DEF Contract!ContractNext
  <2>6. CASE Succeed(w)
    BY <2>5, <2>6 DEF Succeed, Owns
  <2>7. ASSUME NEW terminal \in BOOLEAN, Fail(w, terminal) PROVE Contract!ContractNext
    <3>1. FailureStatus(hold[w], terminal) \in {"pending", "dead"}
      BY DEF FailureStatus
    <3>2. FailureStatus(hold[w], terminal) = "pending" => attempts[hold[w]] < MaxAttempts[hold[w]]
      BY <2>7 DEF FailureStatus, Fail, Owns
    <3> QED
      BY <2>5, <2>7, <3>1, <3>2 DEF Fail, Owns
  <2>8. CASE Abandon(w)
    <3>1. \A k \in Jobs : /\ Recovered(k)' = Recovered(k)
                          /\ \A v \in Workers : Holds(v, k)' <=> Holds(v, k)
      BY <2>8 DEF Abandon, Release, jobVars, Recovered, Stale, Holds, Owns
    <3> QED
      BY <1>0, <2>8, <3>1, HolderKept DEF Abandon, jobVars
  <2>9. CASE Crash(w)
    <3>1. \A k \in Jobs : Recovered(k)' = Recovered(k)
      BY <2>9 DEF Crash, jobVars, Recovered, Stale
    <3>2. \A k \in Jobs : \A v \in Workers \ {w} : Holds(v, k)' <=> Holds(v, k)
      BY <2>9 DEF Crash, jobVars, Holds, Owns
    <3>3. \A k \in Jobs : ~Holds(w, k)'
      BY <2>9 DEF Crash, Holds, Owns
    <3>4. \A k \in Jobs : Holder(k)' = IF Holder(k) = w THEN NoWorker ELSE Holder(k)
      <4> TAKE k \in Jobs
      <4>1. CASE Holder(k) = w
        BY <3>2, <3>3, <4>1, HolderGone DEF OwnerKnown
      <4>2. CASE Holder(k) # w
        BY <3>2, <3>3, <4>2, HolderKept DEF OwnerKnown
      <4> QED
        BY <4>1, <4>2
    <3>5. Contract!Vanish(w)
      BY <2>9, <3>1, <3>4 DEF Contract!Vanish, Crash, jobVars
    <3> QED
      BY <3>5 DEF Contract!ContractNext
  <2> QED
    BY <1>3, <2>1, <2>2, <2>3, <2>4, <2>6, <2>7, <2>8, <2>9 DEF LeaseStep
<1> QED
  BY <1>1, <1>2, <1>3 DEF LeaseNext

\* The lease protocol implements the queue's contract.
THEOREM LeaseImplementsContract == LeaseSpec => ImplementsContract
<1>1. LeaseInit => Contract!ContractInit
  <2> SUFFICES ASSUME LeaseInit PROVE Contract!ContractInit
    OBVIOUS
  <2>1. \A j \in Jobs : Recovered(j) = "pending"
    BY JobAssumption DEF LeaseInit, Recovered, Stale
  <2>2. \A j \in Jobs : Holder(j) = NoWorker
    BY JobAssumption DEF LeaseInit, Holder, Holds, Owns
  <2> QED
    BY <2>1, <2>2 DEF LeaseInit, Contract!ContractInit
<1> QED
  BY <1>1, LeaseInvAlways, LeaseIsExclusive, ExclusiveOwnerKnown, LeaseStepRefines, PTL
     DEF LeaseSpec, ImplementsContract, Contract!ContractSpec
=============================================================================
