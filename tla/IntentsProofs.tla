---------------------------- MODULE IntentsProofs ----------------------------
(***************************************************************************)
(* Leases bound the runs of an intent, and no run goes beyond its intent's   *)
(* ceiling, for any table size, packages, grants, programs and leases.       *)
(***************************************************************************)
EXTENDS Intents, SequenceTheorems, TLAPS

Ceilings == {AhdKinds[kind] : kind \in DOMAIN AhdKinds}

Ahd == [id : Nat, ceiling : Ceilings, lease : Int, revoked : BOOLEAN, leased : Int]

\* What a slot still allows is what it was leased less what it has run.
Kept(a, n) ==
  a.leased # AHD_UNLIMITED =>
    a.lease >= 0 /\ n + (IF Authorizes(a) THEN a.lease ELSE 0) <= a.leased

\* The table and its count of runs go together.
Books(tab, cnt) ==
  /\ tab \in Seq(Ahd) /\ cnt \in Seq(Nat) /\ Len(tab) = Len(cnt)
  /\ \A s \in 1 .. Len(tab) : Kept(tab[s], cnt[s])

IntentInv ==
  /\ Books(ahds, runs) /\ nextId \in Nat
  /\ last.dead => last.acts = {}
  /\ WithinCeiling

-----------------------------------------------------------------------------
(* The table. *)

LEMMA BooksAppend ==
  ASSUME NEW tab, NEW cnt, Books(tab, cnt), NEW a \in Ahd, NEW n \in Nat, Kept(a, n)
  PROVE  Books(Append(tab, a), Append(cnt, n))
<1>1. /\ tab \in Seq(Ahd) /\ cnt \in Seq(Nat) /\ Len(tab) = Len(cnt) /\ Len(tab) \in Nat
      /\ \A s \in 1 .. Len(tab) : Kept(tab[s], cnt[s])
  BY DEF Books
<1>2. /\ Append(tab, a) \in Seq(Ahd) /\ Len(Append(tab, a)) = Len(tab) + 1
      /\ \A s \in 1 .. Len(tab) : Append(tab, a)[s] = tab[s]
      /\ Append(tab, a)[Len(tab) + 1] = a
  BY <1>1, AppendProperties
<1>3. /\ Append(cnt, n) \in Seq(Nat) /\ Len(Append(cnt, n)) = Len(tab) + 1
      /\ \A s \in 1 .. Len(tab) : Append(cnt, n)[s] = cnt[s]
      /\ Append(cnt, n)[Len(tab) + 1] = n
  BY <1>1, AppendProperties
<1>4. ASSUME NEW s \in 1 .. Len(tab) + 1
      PROVE  Kept(Append(tab, a)[s], Append(cnt, n)[s])
  <2>1. CASE s = Len(tab) + 1
    BY <1>2, <1>3, <2>1
  <2>2. CASE s # Len(tab) + 1
    <3>1. s \in 1 .. Len(tab)
      BY <1>1, <2>2
    <3> QED
      BY <1>1, <1>2, <1>3, <3>1
  <2> QED
    BY <2>1, <2>2
<1> QED
  BY <1>2, <1>3, <1>4 DEF Books

LEMMA BooksUpdate ==
  ASSUME NEW tab, NEW cnt, Books(tab, cnt), NEW s \in DOMAIN tab,
         NEW a \in Ahd, NEW n \in Nat, Kept(a, n)
  PROVE  Books([tab EXCEPT ![s] = a], [cnt EXCEPT ![s] = n])
<1>1. /\ tab \in Seq(Ahd) /\ cnt \in Seq(Nat) /\ Len(tab) = Len(cnt)
      /\ s \in 1 .. Len(tab) /\ s \in 1 .. Len(cnt)
      /\ \A t \in 1 .. Len(tab) : Kept(tab[t], cnt[t])
  BY DEF Books
<1>2. /\ [tab EXCEPT ![s] = a] \in Seq(Ahd) /\ Len([tab EXCEPT ![s] = a]) = Len(tab)
      /\ [cnt EXCEPT ![s] = n] \in Seq(Nat) /\ Len([cnt EXCEPT ![s] = n]) = Len(cnt)
  BY <1>1, ExceptSeq
<1>3. ASSUME NEW t \in 1 .. Len(tab)
      PROVE  Kept([tab EXCEPT ![s] = a][t], [cnt EXCEPT ![s] = n][t])
  <2>1. CASE t = s
    BY <1>1, <2>1
  <2>2. CASE t # s
    <3>1. [tab EXCEPT ![s] = a][t] = tab[t] /\ [cnt EXCEPT ![s] = n][t] = cnt[t]
      BY <1>1, <2>2
    <3> QED
      BY <1>1, <3>1
  <2> QED
    BY <2>1, <2>2
<1> QED
  BY <1>1, <1>2, <1>3 DEF Books

\* open_ahd(): a new slot has run nothing.
LEMMA NewAhdKept ==
  ASSUME NEW id \in Nat, NEW kind \in DOMAIN AhdKinds, NEW lease \in Nat \cup {AHD_UNLIMITED}
  PROVE  NewAhd(id, kind, lease) \in Ahd /\ Kept(NewAhd(id, kind, lease), 0)
<1>1. lease \in Int /\ (lease # AHD_UNLIMITED => lease \in Nat)
  BY DEF AHD_UNLIMITED
<1>2. AhdKinds[kind] \in Ceilings
  BY DEF Ceilings
<1>3. NewAhd(id, kind, lease) \in Ahd
  BY <1>1, <1>2 DEF NewAhd, Ahd
<1> QED
  BY <1>1, <1>3 DEF NewAhd, Kept, Authorizes, AHD_UNLIMITED

\* intent_revoke(): a revoked slot allows nothing more.
LEMMA RevokedKept ==
  ASSUME NEW a \in Ahd, NEW n \in Nat, Kept(a, n)
  PROVE  Revoked(a) \in Ahd /\ Kept(Revoked(a), n)
<1>1. Revoked(a) \in Ahd
  <2>1. a.id \in Nat /\ a.ceiling \in Ceilings /\ a.leased \in Int
    BY DEF Ahd
  <2> QED
    BY <2>1 DEF Revoked, Ahd
<1>2. Revoked(a).leased = a.leased /\ Revoked(a).lease = 0 /\ Revoked(a).revoked
  BY DEF Revoked, Ahd
<1>3. a.leased # AHD_UNLIMITED => n <= a.leased
  BY DEF Kept, Ahd
<1> QED
  BY <1>1, <1>2, <1>3 DEF Kept, Authorizes, Ahd

\* A use of a slot that authorises it moves one from what is left to what was run.
LEMMA UsedKept ==
  ASSUME NEW a \in Ahd, NEW n \in Nat, Kept(a, n), Authorizes(a)
  PROVE  /\ Used(a) \in Ahd
         /\ Kept(Used(a), IF a.leased = AHD_UNLIMITED THEN n ELSE n + 1)
<1>1. CASE a.lease = AHD_UNLIMITED
  <2>1. Used(a) = a
    BY <1>1 DEF Used
  <2>2. a.leased = AHD_UNLIMITED
    BY <1>1 DEF Kept, AHD_UNLIMITED
  <2> QED
    BY <2>1, <2>2
<1>2. CASE a.lease # AHD_UNLIMITED
  <2>1. Used(a) = [a EXCEPT !.lease = @ - 1, !.revoked = @ \/ (a.lease = 1)]
    BY <1>2 DEF Used
  <2>2. Used(a) \in Ahd
    <3> DEFINE gone == a.revoked \/ (a.lease = 1)
    <3>1. Used(a) = [id |-> a.id, ceiling |-> a.ceiling, lease |-> a.lease - 1,
                     revoked |-> gone, leased |-> a.leased]
      BY <2>1 DEF Ahd
    <3>2. gone \in BOOLEAN
      BY Zenon
    <3> HIDE DEF gone
    <3>3. a.id \in Nat /\ a.ceiling \in Ceilings /\ a.lease - 1 \in Int /\ a.leased \in Int
      BY DEF Ahd
    <3> QED
      BY <3>1, <3>2, <3>3 DEF Ahd
  <2>3. Used(a).leased = a.leased /\ Used(a).lease = a.lease - 1
    BY <2>1 DEF Ahd
  <2>4. a.leased # AHD_UNLIMITED => a.lease >= 1 /\ n + a.lease <= a.leased
    BY DEF Kept, Authorizes, Ahd
  <2> QED
    BY <2>2, <2>3, <2>4 DEF Kept, Ahd
<1> QED
  BY <1>1, <1>2

-----------------------------------------------------------------------------
(* Capabilities and deeds. *)

\* What a Dezh-IR program does is among its capabilities.
LEMMA IrDeedsWithin ==
  ASSUME NEW calls \in Seq(Mcap), NEW mcaps, NEW bound, NEW storeUp
  PROVE  IrDeeds(calls, mcaps, bound, storeUp) \subseteq mcaps
<1>1. \A i \in DOMAIN calls : i \in 1 .. i
  OBVIOUS
<1> QED
  BY <1>1 DEF IrDeeds, IrCaps

\* A U-mode program may write with a right to read, but only if it has IPC, and
\* no ceiling has IPC and a part of the store.
LEMMA DeedsWithin ==
  ASSUME NEW p, NEW calls \in Calls, NEW mcaps, NEW storeUp, NEW ceiling,
         ceiling \in Ceilings \cup {Mcap}, mcaps \subseteq ceiling
  PROVE  Deeds(p, calls, mcaps, storeUp) \subseteq ceiling
<1> DEFINE bound == p \in HasNs /\ mcaps \cap CairnCaps # {}
<1>0. calls \in Seq(Mcap)
  BY IntentAssumption
<1>1. IrDeeds(calls, mcaps, bound, storeUp) \subseteq ceiling
  BY <1>0, IrDeedsWithin
<1>2. "ipc" \in ceiling /\ ceiling \cap CairnCaps # {} => ceiling = Mcap
  BY DEF Ceilings, AhdKinds, Mcap, CairnCaps
<1>3. \A i \in DOMAIN calls : calls[i] \in Mcap
  BY <1>0
<1>4. ElfDeeds(calls, mcaps, bound, storeUp) \subseteq ceiling
  <2> SUFFICES ASSUME NEW c \in ElfDeeds(calls, mcaps, bound, storeUp)
               PROVE  c \in ceiling
    OBVIOUS
  <2> HIDE DEF bound
  <2>1. /\ c \in {calls[i] : i \in DOMAIN calls}
        /\ IF c \in CairnCaps
           THEN "ipc" \in mcaps /\ mcaps \cap CairnCaps # {} /\ bound /\ storeUp
           ELSE c \in mcaps
    BY DEF ElfDeeds
  <2>2. c \in Mcap
    BY <1>3, <2>1
  <2>3. CASE c \in CairnCaps
    BY <1>2, <2>1, <2>2, <2>3
  <2>4. CASE c \notin CairnCaps
    BY <2>1, <2>4
  <2> QED
    BY <2>3, <2>4
<1> QED
  BY <1>1, <1>4 DEF Deeds

\* The built-in agent stays within the ceiling it is given.
LEMMA AgentWithin ==
  ASSUME NEW ceiling, NEW storeUp
  PROVE  /\ Derived(AgentRequests, ceiling) \subseteq ceiling
         /\ AgentDeeds(ceiling, storeUp) \subseteq ceiling
<1>1. Derived(AgentRequests, ceiling) \subseteq ceiling
  BY DEF Derived
<1>2. AgentCalls \in Seq(Mcap)
  BY DEF AgentCalls, Mcap
<1>3. AgentDeeds(ceiling, storeUp) \subseteq Derived(AgentRequests, ceiling)
  BY <1>2, IrDeedsWithin DEF AgentDeeds
<1> QED
  BY <1>1, <1>3

-----------------------------------------------------------------------------
(* The steps.  Each lemma is one action: what it does to the table and the last run. *)

\* What a run leaves is within its ceiling, and empty if its intent was dead.
RunSound == (last.dead => last.acts = {}) /\ WithinCeiling

LEMMA RanSound ==
  ASSUME NEW ceiling, NEW derived, NEW acts, NEW dead, last' = Ran(ceiling, derived, acts, dead),
         derived \subseteq ceiling, acts \subseteq ceiling, dead => acts = {}
  PROVE  RunSound'
<1>1. last'.ceiling = ceiling /\ last'.derived = derived /\ last'.acts = acts
  BY DEF Ran
<1>2. last'.dead = dead
  BY DEF Ran
<1>3. WithinCeiling'
  BY <1>1 DEF WithinCeiling
<1>4. last'.dead => last'.acts = {}
  BY <1>1, <1>2
<1> QED
  BY <1>3, <1>4 DEF RunSound

\* open_ahd(), used by every intent that a demo opens.
LEMMA OpenStep ==
  ASSUME NEW kind \in DOMAIN AhdKinds, NEW lease \in Nat \cup {AHD_UNLIMITED},
         Books(ahds, runs), nextId \in Nat, Open(kind, lease)
  PROVE  Books(ahds', runs') /\ nextId' \in Nat
<1>1. NewAhd(nextId, kind, lease) \in Ahd /\ Kept(NewAhd(nextId, kind, lease), 0)
  BY NewAhdKept
<1>2. Books(Append(ahds, NewAhd(nextId, kind, lease)), Append(runs, 0))
  BY <1>1, BooksAppend
<1> QED
  BY <1>2 DEF Open, Opened

LEMMA RevokeStep ==
  ASSUME Books(ahds, runs), NEW s \in DOMAIN ahds, IntentRevoke(s)
  PROVE  Books(ahds', runs')
<1>1. ahds \in Seq(Ahd) /\ runs \in Seq(Nat) /\ Len(ahds) = Len(runs)
      /\ s \in 1 .. Len(ahds) /\ Kept(ahds[s], runs[s]) /\ ahds[s] \in Ahd /\ runs[s] \in Nat
  BY DEF Books
<1>2. Revoked(ahds[s]) \in Ahd /\ Kept(Revoked(ahds[s]), runs[s])
  BY <1>1, RevokedKept
<1>3. Books([ahds EXCEPT ![s] = Revoked(ahds[s])], [runs EXCEPT ![s] = runs[s]])
  BY <1>1, <1>2, BooksUpdate
<1>4. [runs EXCEPT ![s] = runs[s]] = runs
  BY <1>1
<1> QED
  BY <1>3, <1>4 DEF IntentRevoke

LEMMA RunStep ==
  ASSUME Books(ahds, runs), NEW s \in DOMAIN ahds, NEW p \in Package, NEW calls \in Calls,
         NEW storeUp, IntentRun(s, p, calls, storeUp)
  PROVE  Books(ahds', runs') /\ RunSound'
<1> DEFINE a == ahds[s]
<1> DEFINE n == IF a.leased = AHD_UNLIMITED THEN runs[s] ELSE runs[s] + 1
<1> DEFINE derived == Derived(Requests[p], a.ceiling)
<1>1. s \in 1 .. Len(ahds) /\ Kept(a, runs[s]) /\ a \in Ahd /\ runs[s] \in Nat
  BY DEF Books
<1>2. Authorizes(a)
  BY DEF IntentRun
<1>3. Used(a) \in Ahd /\ Kept(Used(a), n)
  BY <1>1, <1>2, UsedKept
<1>4. n \in Nat
  BY <1>1
<1>5. Books([ahds EXCEPT ![s] = Used(a)], [runs EXCEPT ![s] = n])
  <2> HIDE DEF a, n
  <2> QED
    BY <1>3, <1>4, BooksUpdate
<1>6. ahds' = [ahds EXCEPT ![s] = Used(a)] /\ runs' = [runs EXCEPT ![s] = n]
  BY DEF IntentRun
<1>7. derived \subseteq a.ceiling /\ a.ceiling \in Ceilings
  BY <1>1 DEF Derived, Ahd
<1>8. Deeds(p, calls, derived, storeUp) \subseteq a.ceiling
  <2> HIDE DEF derived, a
  <2> QED
    BY <1>7, DeedsWithin
<1>9. last' = Ran(a.ceiling, derived, Deeds(p, calls, derived, storeUp), a.revoked)
  BY DEF IntentRun
<1>10. ~a.revoked
  BY <1>2 DEF Authorizes
<1>11. RunSound'
  <2> HIDE DEF derived, a
  <2> QED
    BY <1>7, <1>8, <1>9, <1>10, RanSound
<1> QED
  BY <1>5, <1>6, <1>11

LEMMA PkgRunStep ==
  ASSUME NEW p \in Package, NEW calls \in Calls, NEW storeUp, PkgRun(p, calls, storeUp)
  PROVE  RunSound'
<1>1. Requests[p] \subseteq Mcap
  BY IntentAssumption
<1>2. Deeds(p, calls, Requests[p], storeUp) \subseteq Mcap
  BY <1>1, DeedsWithin
<1>3. last' = Ran(Mcap, Requests[p], Deeds(p, calls, Requests[p], storeUp), FALSE)
  BY DEF PkgRun
<1> QED
  BY <1>1, <1>2, <1>3, RanSound

LEMMA RefusedStep ==
  ASSUME NEW s \in DOMAIN ahds, IntentRunRefused(s)
  PROVE  RunSound'
<1>1. last' = Ran(ahds[s].ceiling, {}, {}, ahds[s].revoked)
  BY DEF IntentRunRefused
<1> QED
  BY <1>1, RanSound

\* lease_demo(): the second use of a lease of one finds it spent.
LEMMA LeaseDemoStep ==
  ASSUME Books(ahds, runs), nextId \in Nat, LeaseDemo
  PROVE  Books(ahds', runs') /\ nextId' \in Nat
<1> DEFINE fresh == NewAhd(nextId, "compute", 1)
<1> DEFINE once == Used(fresh)
<1> DEFINE second == NewAhd(nextId + 1, "compute", AHD_UNLIMITED)
<1> DEFINE more == Len(ahds) + 1 < MAX_AHD
<1>0. "compute" \in DOMAIN AhdKinds /\ nextId + 1 \in Nat
      /\ AHD_UNLIMITED \in Nat \cup {AHD_UNLIMITED}
  BY DEF AhdKinds
<1>1. fresh \in Ahd /\ Kept(fresh, 0)
  BY <1>0, NewAhdKept
<1>2. Authorizes(fresh) /\ fresh.leased = 1 /\ fresh.lease = 1
  BY DEF NewAhd, Authorizes
<1>3. once \in Ahd /\ Kept(once, 1)
  <2> HIDE DEF fresh
  <2>1. Used(fresh) \in Ahd /\ Kept(Used(fresh), IF fresh.leased = AHD_UNLIMITED THEN 0 ELSE 0 + 1)
    BY <1>1, <1>2, UsedKept
  <2> QED
    BY <1>2, <2>1 DEF AHD_UNLIMITED
<1>4. ~Authorizes(once)
  <2> HIDE DEF fresh
  <2>1. once.lease = 0
    BY <1>1, <1>2 DEF Used, AHD_UNLIMITED, Ahd
  <2> QED
    BY <2>1 DEF Authorizes
<1>5. second \in Ahd /\ Kept(second, 0)
  BY <1>0, NewAhdKept
<1>6. Revoked(second) \in Ahd /\ Kept(Revoked(second), 0)
  <2> HIDE DEF second
  <2> QED
    BY <1>5, RevokedKept
<1> HIDE DEF once, second
<1>7. Books(Append(ahds, once), Append(runs, 1))
  BY <1>3, BooksAppend
<1>8. Books(Append(Append(ahds, once), Revoked(second)), Append(Append(runs, 1), 0))
  BY <1>6, <1>7, BooksAppend
<1>9. /\ ahds' = IF more THEN Append(Append(ahds, once), Revoked(second)) ELSE Append(ahds, once)
      /\ runs' = IF more THEN Append(Append(runs, 1), 0) ELSE Append(runs, 1)
      /\ nextId' = nextId + (IF more THEN 2 ELSE 1)
  BY <1>4 DEF LeaseDemo, once, second
<1> QED
  BY <1>7, <1>8, <1>9

\* A demo's ceiling without an intent; the built-in agent under a new intent.
LEMMA AgentStep ==
  ASSUME NEW kind \in {"writer", "compute"}, NEW storeUp,
         last' = Ran(AhdKinds[kind], Derived(AgentRequests, AhdKinds[kind]),
                     AgentDeeds(AhdKinds[kind], storeUp), FALSE)
  PROVE  RunSound'
<1>1. Derived(AgentRequests, AhdKinds[kind]) \subseteq AhdKinds[kind]
  BY DEF Derived
<1>2. AgentDeeds(AhdKinds[kind], storeUp) \subseteq AhdKinds[kind]
  BY AgentWithin
<1> QED
  BY <1>1, <1>2, RanSound

\* sig_demo(): what a publisher's ceiling leaves of a request.
LEMMA SigStep ==
  ASSUME SigDemo
  PROVE  RunSound'
<1>1. Attenuate({"print", "ipc"} \cup CairnCaps, PublisherCeiling) \subseteq PublisherCeiling
  BY DEF Attenuate
<1> QED
  BY <1>1, RanSound DEF SigDemo

\* A mission's intent and, where a slot is left, the out-of-intent agent's.
LEMMA MissionStep ==
  ASSUME Books(ahds, runs), nextId \in Nat, NEW name, NEW landed, NEW rolledBack,
         MissionDemo(name, landed, rolledBack)
  PROVE  Books(ahds', runs') /\ nextId' \in Nat /\ RunSound'
<1> DEFINE mission == NewAhd(nextId, "writer", AHD_UNLIMITED)
<1> DEFINE agent == NewAhd(nextId + 1, "compute", AHD_UNLIMITED)
<1> DEFINE escape == name = "overnight" /\ Len(ahds) + 1 < MAX_AHD
<1> DEFINE writer == {"print"} \cup CairnCaps
<1>0. {"writer", "compute"} \subseteq DOMAIN AhdKinds /\ AhdKinds["compute"] = AhdKinds.compute
      /\ AhdKinds.writer = writer /\ {"cairn-write"} \subseteq writer
  BY DEF AhdKinds, CairnCaps
<1>1. mission \in Ahd /\ Kept(mission, 0) /\ agent \in Ahd /\ Kept(agent, 0)
  <2>1. nextId + 1 \in Nat /\ AHD_UNLIMITED \in Nat \cup {AHD_UNLIMITED}
    OBVIOUS
  <2> QED
    BY <1>0, <2>1, NewAhdKept
<1> HIDE DEF mission, agent
<1>2. Books(Append(ahds, mission), Append(runs, 0))
  BY <1>1, BooksAppend
<1>3. Books(Append(Append(ahds, mission), agent), Append(Append(runs, 0), 0))
  BY <1>1, <1>2, BooksAppend
<1>4. /\ ahds' = IF escape THEN Append(Append(ahds, mission), agent) ELSE Append(ahds, mission)
      /\ runs' = IF escape THEN Append(Append(runs, 0), 0) ELSE Append(runs, 0)
      /\ nextId' = nextId + (IF escape THEN 2 ELSE 1)
      /\ last' = IF escape
                 THEN Ran(AhdKinds.compute, Derived(AgentRequests, AhdKinds.compute),
                          AgentDeeds(AhdKinds.compute, TRUE), FALSE)
                 ELSE Ran(AhdKinds.writer, writer, {"cairn-write"}, FALSE)
  BY DEF MissionDemo, Opened, mission, agent
<1>5. CASE escape
  <2>1. RunSound'
    <3> HIDE DEF escape
    <3> QED
      BY <1>0, <1>4, <1>5, AgentStep
  <2> QED
    BY <1>3, <1>4, <1>5, <2>1
<1>6. CASE ~escape
  <2>1. RunSound'
    <3> HIDE DEF escape, writer
    <3> QED
      BY <1>0, <1>4, <1>6, RanSound
  <2> QED
    BY <1>2, <1>4, <1>6, <2>1
<1> QED
  BY <1>5, <1>6

-----------------------------------------------------------------------------
(* The theorems. *)

LEMMA BooksEmpty == Books(<<>>, <<>>)
  BY DEF Books

LEMMA InitSound == IntentInit => IntentInv
<1> SUFFICES ASSUME IntentInit PROVE IntentInv
  OBVIOUS
<1>1. Books(ahds, runs) /\ nextId \in Nat
  BY BooksEmpty DEF IntentInit
<1>2. last.acts = {} /\ last.derived = Mcap /\ last.ceiling = Mcap
  BY DEF IntentInit, Ran
<1> QED
  BY <1>1, <1>2 DEF IntentInv, WithinCeiling

LEMMA StepSound == IntentInv /\ [IntentNext]_intentVars => IntentInv'
<1> SUFFICES ASSUME IntentInv, [IntentNext]_intentVars PROVE IntentInv'
  OBVIOUS
<1>0. Books(ahds, runs) /\ nextId \in Nat /\ RunSound
  BY DEF IntentInv, RunSound
<1> SUFFICES Books(ahds', runs') /\ nextId' \in Nat /\ RunSound'
  BY DEF IntentInv, RunSound
<1>1. ASSUME NEW kind \in DOMAIN AhdKinds, NEW lease \in Leases \cup {AHD_UNLIMITED},
             IntentOpen(kind, lease)
      PROVE  Books(ahds', runs') /\ nextId' \in Nat /\ RunSound'
  <2>1. lease \in Nat \cup {AHD_UNLIMITED}
    BY IntentAssumption
  <2>2. Books(ahds', runs') /\ nextId' \in Nat
    BY <1>0, <1>1, <2>1, OpenStep DEF IntentOpen
  <2> QED
    BY <1>0, <1>1, <2>2 DEF IntentOpen, RunSound, WithinCeiling
<1>2. ASSUME NEW s \in DOMAIN ahds, IntentRevoke(s)
      PROVE  Books(ahds', runs') /\ nextId' \in Nat /\ RunSound'
  BY <1>0, <1>2, RevokeStep DEF IntentRevoke, RunSound, WithinCeiling
<1>3. ASSUME NEW s \in DOMAIN ahds, IntentRunRefused(s)
      PROVE  Books(ahds', runs') /\ nextId' \in Nat /\ RunSound'
  BY <1>0, <1>3, RefusedStep DEF IntentRunRefused
<1>4. ASSUME NEW p \in Package, NEW calls \in Calls, NEW storeUp \in BOOLEAN,
             PkgRun(p, calls, storeUp)
      PROVE  Books(ahds', runs') /\ nextId' \in Nat /\ RunSound'
  BY <1>0, <1>4, PkgRunStep DEF PkgRun
<1>5. ASSUME NEW p \in Package, NEW calls \in Calls, NEW storeUp \in BOOLEAN,
             NEW s \in DOMAIN ahds, IntentRun(s, p, calls, storeUp)
      PROVE  Books(ahds', runs') /\ nextId' \in Nat /\ RunSound'
  <2>1. nextId' = nextId
    BY <1>5 DEF IntentRun
  <2> QED
    BY <1>0, <1>5, <2>1, RunStep
<1>6. CASE LeaseDemo
  <2>1. last' = last
    BY <1>6 DEF LeaseDemo
  <2> QED
    BY <1>0, <1>6, <2>1, LeaseDemoStep DEF RunSound, WithinCeiling
<1>7. ASSUME NEW kind \in {"writer", "compute"}, NEW storeUp \in BOOLEAN,
             IntentDemo(kind, storeUp)
      PROVE  Books(ahds', runs') /\ nextId' \in Nat /\ RunSound'
  BY <1>0, <1>7, AgentStep DEF IntentDemo
<1>8. ASSUME NEW kind \in {"writer", "compute"}, NEW storeUp \in BOOLEAN,
             AgentUnderIntent(kind, storeUp)
      PROVE  Books(ahds', runs') /\ nextId' \in Nat /\ RunSound'
  <2>1. kind \in DOMAIN AhdKinds /\ AHD_UNLIMITED \in Nat \cup {AHD_UNLIMITED}
    BY DEF AhdKinds
  <2>2. Open(kind, AHD_UNLIMITED)
    BY <1>8 DEF AgentUnderIntent
  <2>3. Books(ahds', runs') /\ nextId' \in Nat
    BY <1>0, <2>1, <2>2, OpenStep
  <2>4. RunSound'
    BY <1>8, AgentStep DEF AgentUnderIntent
  <2> QED
    BY <2>3, <2>4
<1>9. CASE SigDemo
  BY <1>0, <1>9, SigStep DEF SigDemo
<1>10. ASSUME NEW name \in DOMAIN Missions, NEW rolledBack \in BOOLEAN,
              NEW landed \in SUBSET Missions[name], MissionDemo(name, landed, rolledBack)
       PROVE  Books(ahds', runs') /\ nextId' \in Nat /\ RunSound'
  BY <1>0, <1>10, MissionStep
<1>11. ASSUME NEW class, ExternalEffect(class)
       PROVE  Books(ahds', runs') /\ nextId' \in Nat /\ RunSound'
  <2>1. "writer" \in DOMAIN AhdKinds /\ AHD_UNLIMITED \in Nat \cup {AHD_UNLIMITED}
    BY DEF AhdKinds
  <2>2. Open("writer", AHD_UNLIMITED) /\ last' = last
    BY <1>11 DEF ExternalEffect
  <2>3. Books(ahds', runs') /\ nextId' \in Nat
    BY <1>0, <2>1, <2>2, OpenStep
  <2> QED
    BY <1>0, <2>2, <2>3 DEF RunSound, WithinCeiling
<1>12. ASSUME NEW id, MissionRollback(id)
       PROVE  Books(ahds', runs') /\ nextId' \in Nat /\ RunSound'
  BY <1>0, <1>12 DEF MissionRollback, RunSound, WithinCeiling
<1>13. CASE IntentReboot
  <2>1. last' = Ran(Mcap, Mcap, {}, FALSE)
    BY <1>13 DEF IntentReboot
  <2>2. RunSound'
    BY <2>1, RanSound
  <2> QED
    BY <1>13, <2>2, BooksEmpty DEF IntentReboot
<1>14. CASE UNCHANGED intentVars
  BY <1>0, <1>14 DEF intentVars, RunSound, WithinCeiling
<1> QED
  BY <1>1, <1>2, <1>3, <1>4, <1>5, <1>6, <1>7, <1>8, <1>9, <1>10, <1>11, <1>12, <1>13, <1>14
     DEF IntentNext

\* The books balance and the last run was within its ceiling in every state that
\* the console's intent commands and the demos reach.
THEOREM IntentInvariant == IntentSpec => []IntentInv
  BY InitSound, StepSound, PTL DEF IntentSpec

\* A lease bounds what an intent authorises, for every size of the table, every
\* lease and every program (intent_run(), lease_use()).
THEOREM LeasesBound == IntentSpec => []LeaseBounds
<1>1. IntentInv => LeaseBounds
  <2> SUFFICES ASSUME IntentInv PROVE LeaseBounds
    OBVIOUS
  <2>1. Books(ahds, runs) /\ (last.dead => last.acts = {})
    BY DEF IntentInv
  <2>2. \A s \in DOMAIN ahds : Kept(ahds[s], runs[s])
    BY <2>1 DEF Books
  <2> QED
    BY <2>1, <2>2 DEF LeaseBounds, Kept
<1> QED
  BY <1>1, IntentInvariant, PTL

\* No run does or is recorded as allowed to do what its intent's ceiling does not
\* name, for every package, grant and program (intent_run(), run_loaded_entry()).
THEOREM RunsWithinCeiling == IntentSpec => []WithinCeiling
<1>1. IntentInv => WithinCeiling
  BY DEF IntentInv
<1> QED
  BY <1>1, IntentInvariant, PTL

=============================================================================
