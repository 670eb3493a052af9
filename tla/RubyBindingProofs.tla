------------------------- MODULE RubyBindingProofs -------------------------
(***************************************************************************)
(* Theorems of RubyBinding, for any threads, Strings and values of its     *)
(* other constants.                                                        *)
(***************************************************************************)
EXTENDS RubyBinding, TLAPS, SequenceTheorems, FiniteSetTheorems, WellFoundedInduction

(***************************************************************************)
(* The invariant of the locks.                                             *)
(***************************************************************************)
Bytestrings == Seq(Elements)

\* Fields and locals are of these types.
TypeOK ==
  /\ object \in {"Decompressor", "Compressor"}
  /\ poisoned \in BOOLEAN /\ finished \in BOOLEAN
  /\ text \in [Strings -> Bytestrings]
  /\ locked \in [Strings -> Threads \cup {None}]
  /\ pc \in [Threads -> {"ruby", "try", "release", "wait", "run", "regain", "return"}]
  /\ call \in [Threads -> [op : {"none", "decompress", "read", "compress", "flush",
                                 "finish", "inflate", "deflate"},
                           string : Strings \cup {None}, limit : Nat,
                           want : Bytestrings]]
  /\ input \in [Threads -> [kind : {"borrowed", "owned"}, bytes : Bytestrings]]

\* Where a thread needs the GVL, it has it.
GvlInv == \A t \in Threads : pc[t] \in {"try", "release", "return"} => gvl = t

\* A call works on a copy, made when it gave up the GVL, or on a String that
\* holds what it held when the call began and that nobody can change: no
\* thread runs, or it is locked.
HoldsBytes(t) ==
  LET s == call[t].string IN
  IF input[t].kind = "owned"
  THEN /\ input[t].bytes = call[t].want
       /\ s = None \/ pc[t] \in {"wait", "run"}
  ELSE /\ s \in Strings
       /\ text[s] = call[t].want
       /\ gvl = t \/ locked[s] = t

StableInv ==
  \A t \in Threads :
    pc[t] \in {"try", "release", "wait", "run"} => HoldsBytes(t)

\* The thread that has the mutex is working: it never waits, for the GVL
\* neither, so what another thread that waits for the mutex does with the GVL
\* cannot stop it.  And a call works on the object only with the mutex.
OwnerWorks ==
  \A t \in Threads :
    /\ owner = t => pc[t] = "run" /\ HasMutex(t)
    /\ pc[t] = "run" /\ HasMutex(t) => owner = t
    /\ pc[t] \in {"try", "wait"} => HasMutex(t)

LockInv == TypeOK /\ GvlInv /\ StableInv /\ OwnerWorks

LEMMA Initially == Init => LockInv
  <1> SUFFICES ASSUME Init PROVE LockInv
    OBVIOUS
  <1> USE DEF Init
  <1>1. <<>> \in Bytestrings
    BY EmptySeq DEF Bytestrings
  <1>2. TypeOK
    BY <1>1 DEF TypeOK, NoCall, Borrowed
  <1>3. GvlInv /\ StableInv /\ OwnerWorks
    BY RubyAssumption DEF GvlInv, StableInv, OwnerWorks
  <1> QED
    BY <1>2, <1>3 DEF LockInv

LEMMA BeginKeeps ==
  ASSUME LockInv, NEW t \in Threads,
         NEW op \in {"decompress", "read", "compress", "flush", "finish", "inflate",
                     "deflate"},
         NEW s \in Strings \cup {None}, NEW limit \in Nat,
         NEW next \in {"try", "release", "run"},
         next = "run" => op = "deflate",
         next = "try" => op \notin {"inflate", "deflate"},
         Begin(t, op, s, limit, next)
  PROVE  LockInv'
  <1> USE DEF Begin
  <1> DEFINE want == IF s = None THEN <<>> ELSE text[s]
  <1>1. /\ pc[t] = "ruby" /\ gvl = None /\ gvl' = t
        /\ call' = [call EXCEPT ![t] = [op |-> op, string |-> s, limit |-> limit,
                                        want |-> want]]
        /\ input' = [input EXCEPT ![t] = IF s = None THEN [kind |-> "owned", bytes |-> <<>>]
                                         ELSE Borrowed]
        /\ pc' = [pc EXCEPT ![t] = next]
        /\ UNCHANGED <<object, owner, poisoned, finished, text, locked>>
    BY DEF objectVars, stringVars
  <1>2. <<>> \in Bytestrings
    BY EmptySeq DEF Bytestrings
  <1>3. want \in Bytestrings
    BY <1>2 DEF LockInv, TypeOK
  <1>4. TypeOK'
    BY <1>1, <1>2, <1>3 DEF LockInv, TypeOK, Borrowed
  <1>5. GvlInv'
    BY <1>1, RubyAssumption DEF LockInv, TypeOK, GvlInv
  <1>6. StableInv'
    <2> SUFFICES ASSUME NEW u \in Threads, pc'[u] \in {"try", "release", "wait", "run"}
                 PROVE  HoldsBytes(u)'
      BY DEF StableInv
    <2>1. CASE u = t
      BY <1>1, <2>1 DEF LockInv, TypeOK, HoldsBytes, Borrowed
    <2>2. CASE u # t
      <3>1. HoldsBytes(u)
        BY <1>1, <2>2 DEF LockInv, TypeOK, StableInv
      <3>2. gvl # u
        BY <1>1, RubyAssumption
      <3> QED
        BY <1>1, <2>2, <3>1, <3>2 DEF LockInv, TypeOK, HoldsBytes
    <2> QED
      BY <2>1, <2>2
  <1>7. OwnerWorks'
    BY <1>1 DEF LockInv, TypeOK, OwnerWorks, HasMutex
  <1> QED
    BY <1>4, <1>5, <1>6, <1>7 DEF LockInv

LEMMA EndWorkKeeps ==
  ASSUME LockInv, NEW t \in Threads, EndWork(t), poisoned' \in BOOLEAN, finished' \in BOOLEAN
  PROVE  LockInv'
  <1>1. /\ pc[t] = "run" /\ pc' = [pc EXCEPT ![t] = "regain"]
        /\ owner' = IF owner = t THEN None ELSE owner
        /\ UNCHANGED <<object, gvl, text, locked, call, input>>
    BY DEF EndWork, DropGuard, GuardScope, stringVars
  <1>2. TypeOK'
    BY <1>1 DEF LockInv, TypeOK
  <1>3. GvlInv'
    BY <1>1 DEF LockInv, TypeOK, GvlInv
  <1>4. StableInv'
    BY <1>1 DEF LockInv, TypeOK, StableInv, HoldsBytes
  <1>5. OwnerWorks'
    BY <1>1, RubyAssumption DEF LockInv, TypeOK, OwnerWorks, HasMutex
  <1> QED
    BY <1>2, <1>3, <1>4, <1>5 DEF LockInv

LEMMA ReleaseKeeps ==
  ASSUME LockInv, NEW t \in Threads, ReleaseGvl(t)
  PROVE  LockInv'
  <1> DEFINE s == call[t].string
  <1>1. /\ pc[t] = "release" /\ LockInput(t) /\ gvl' \in {None, t}
        /\ pc' = [pc EXCEPT ![t] = IF HasMutex(t) THEN "wait" ELSE "run"]
        /\ UNCHANGED <<object, owner, poisoned, finished, text, call>>
    BY DEF ReleaseGvl, objectVars
  <1>2. gvl = t /\ HoldsBytes(t)
    BY <1>1 DEF LockInv, GvlInv, StableInv
  <1>3. s = None \/ s \in Strings
    BY DEF LockInv, TypeOK
  <1>4. \/ s = None /\ UNCHANGED <<locked, input>>
        \/ /\ s \in Strings /\ locked[s] = None
           /\ locked' = [locked EXCEPT ![s] = t] /\ UNCHANGED input
        \/ /\ s \in Strings
           /\ input' = [input EXCEPT ![t] = [kind |-> "owned", bytes |-> text[s]]]
           /\ UNCHANGED locked
    BY <1>1, <1>3 DEF LockInput
  <1>5. TypeOK'
    <2>1. s \in Strings => text[s] \in Bytestrings
      BY DEF LockInv, TypeOK
    <2>2. input' \in [Threads -> [kind : {"borrowed", "owned"}, bytes : Bytestrings]]
      BY <1>4, <2>1 DEF LockInv, TypeOK
    <2>3. locked' \in [Strings -> Threads \cup {None}]
      BY <1>4 DEF LockInv, TypeOK
    <2> QED
      BY <1>1, <2>2, <2>3 DEF LockInv, TypeOK
  <1>6. GvlInv'
    BY <1>1, <1>2, RubyAssumption DEF LockInv, TypeOK, GvlInv
  <1>7. HoldsBytes(t)'
    <2>1. CASE input[t].kind = "owned"
      <3>1. s = None /\ input[t].bytes = call[t].want
        BY <1>1, <1>2, <2>1 DEF HoldsBytes
      <3> QED
        BY <1>1, <1>4, <2>1, <3>1, RubyAssumption DEF HoldsBytes
    <2>2. CASE input[t].kind # "owned"
      <3>1. s \in Strings /\ text[s] = call[t].want
        BY <1>2, <2>2 DEF HoldsBytes
      <3>2. CASE locked' = [locked EXCEPT ![s] = t] /\ UNCHANGED input
        BY <1>1, <2>2, <3>1, <3>2 DEF LockInv, TypeOK, HoldsBytes
      <3>3. CASE input' = [input EXCEPT ![t] = [kind |-> "owned", bytes |-> text[s]]]
        BY <1>1, <2>2, <3>1, <3>3 DEF LockInv, TypeOK, HoldsBytes
      <3> QED
        BY <1>4, <3>1, <3>2, <3>3, RubyAssumption
    <2> QED
      BY <2>1, <2>2
  <1>8. StableInv'
    <2> SUFFICES ASSUME NEW u \in Threads, pc'[u] \in {"try", "release", "wait", "run"}
                 PROVE  HoldsBytes(u)'
      BY DEF StableInv
    <2>1. CASE u = t
      BY <1>7, <2>1
    <2>2. CASE u # t
      <3>1. HoldsBytes(u) /\ gvl # u
        BY <1>1, <1>2, <2>2 DEF LockInv, TypeOK, StableInv
      <3>2. input'[u] = input[u] /\ call'[u] = call[u] /\ pc'[u] = pc[u] /\ UNCHANGED text
        BY <1>1, <1>4, <2>2 DEF LockInv, TypeOK
      <3>3. \A q \in Strings : locked[q] = u => locked'[q] = u
        BY <1>4, RubyAssumption DEF LockInv, TypeOK
      <3> QED
        BY <3>1, <3>2, <3>3 DEF HoldsBytes
    <2> QED
      BY <2>1, <2>2
  <1>9. OwnerWorks'
    BY <1>1 DEF LockInv, TypeOK, OwnerWorks, HasMutex
  <1> QED
    BY <1>5, <1>6, <1>8, <1>9 DEF LockInv

LEMMA ReturnKeeps ==
  ASSUME LockInv, NEW t \in Threads, Return(t)
  PROVE  LockInv'
  <1>1. /\ pc[t] = "return" /\ gvl = t /\ gvl' = None /\ UNCHANGED owner
        /\ locked' = [s \in Strings |-> IF locked[s] = t THEN None ELSE locked[s]]
        /\ pc' = [pc EXCEPT ![t] = "ruby"] /\ call' = [call EXCEPT ![t] = NoCall]
        /\ input' = [input EXCEPT ![t] = Borrowed]
        /\ UNCHANGED <<object, poisoned, finished, text>>
    BY DEF Return, DropGuard, GuardScope, objectVars
  <1>2. <<>> \in Bytestrings
    BY EmptySeq DEF Bytestrings
  <1>3. TypeOK'
    BY <1>1, <1>2 DEF LockInv, TypeOK, NoCall, Borrowed
  <1>4. GvlInv'
    BY <1>1 DEF LockInv, TypeOK, GvlInv
  <1>5. StableInv'
    <2> SUFFICES ASSUME NEW u \in Threads, u # t,
                        pc[u] \in {"try", "release", "wait", "run"}
                 PROVE  HoldsBytes(u)'
      BY <1>1 DEF StableInv, LockInv, TypeOK
    <2>1. HoldsBytes(u)
      BY DEF LockInv, StableInv
    <2> QED
      BY <1>1, <2>1 DEF HoldsBytes, LockInv, TypeOK
  <1>6. OwnerWorks'
    BY <1>1 DEF LockInv, TypeOK, OwnerWorks, HasMutex
  <1> QED
    BY <1>3, <1>4, <1>5, <1>6 DEF LockInv

LEMMA ChangeKeeps ==
  ASSUME LockInv, NEW t \in Threads, NEW s \in Strings, Change(t, s)
  PROVE  LockInv'
  <1>1. PICK bytes \in Chunks : text' = [text EXCEPT ![s] = bytes]
    BY DEF Change
  <1>2. /\ gvl = None /\ locked[s] = None
        /\ UNCHANGED <<object, gvl, owner, poisoned, finished, locked, pc, call, input>>
    BY DEF Change, objectVars
  <1>3. bytes \in Bytestrings
    BY RubyAssumption DEF Bytestrings
  <1>4. TypeOK'
    BY <1>1, <1>2, <1>3 DEF LockInv, TypeOK
  <1>5. StableInv'
    <2> SUFFICES ASSUME NEW u \in Threads, pc[u] \in {"try", "release", "wait", "run"}
                 PROVE  HoldsBytes(u)'
      BY <1>2 DEF StableInv
    <2>1. HoldsBytes(u) /\ gvl # u /\ locked[s] # u
      BY <1>2, RubyAssumption DEF LockInv, StableInv
    <2> QED
      BY <1>1, <1>2, <2>1 DEF HoldsBytes, LockInv, TypeOK
  <1>6. GvlInv' /\ OwnerWorks'
    BY <1>2 DEF LockInv, GvlInv, OwnerWorks, HasMutex
  <1> QED
    BY <1>4, <1>5, <1>6 DEF LockInv

\* TryLock, Lock and RegainGvl.
LEMMA WaitKeeps ==
  ASSUME LockInv, NEW t \in Threads, TryLock(t) \/ Lock(t) \/ RegainGvl(t)
  PROVE  LockInv'
  <1>1. /\ UNCHANGED <<object, poisoned, finished, text, locked, call, input>>
        /\ \/ /\ pc[t] = "try" /\ UNCHANGED <<gvl, owner>>
              /\ \/ pc' = [pc EXCEPT ![t] = "return"] \/ pc' = [pc EXCEPT ![t] = "release"]
           \/ /\ pc[t] \in {"try", "wait"} /\ owner = None /\ owner' = t /\ UNCHANGED gvl
              /\ pc' = [pc EXCEPT ![t] = "run"]
           \/ /\ pc[t] = "wait" /\ UNCHANGED <<gvl, owner>>
              /\ pc' = [pc EXCEPT ![t] = "regain"]
           \/ /\ pc[t] = "regain" /\ gvl \in {None, t} /\ gvl' = t /\ UNCHANGED owner
              /\ pc' = [pc EXCEPT ![t] = "return"]
    BY DEF TryLock, Lock, RegainGvl, objectVars, stringVars
  <1>2. TypeOK'
    BY <1>1 DEF LockInv, TypeOK
  <1>3. GvlInv'
    BY <1>1, RubyAssumption DEF LockInv, TypeOK, GvlInv
  <1>4. StableInv'
    <2> SUFFICES ASSUME NEW u \in Threads, pc'[u] \in {"try", "release", "wait", "run"}
                 PROVE  HoldsBytes(u)'
      BY DEF StableInv
    <2>1. HoldsBytes(u)
      BY <1>1 DEF LockInv, TypeOK, StableInv
    <2>2. gvl = u => gvl' = u
      BY <1>1, RubyAssumption
    <2>3. pc[u] \in {"wait", "run"} => pc'[u] \in {"wait", "run"}
      BY <1>1 DEF LockInv, TypeOK
    <2> QED
      BY <1>1, <2>1, <2>2, <2>3 DEF HoldsBytes
  <1>5. OwnerWorks'
    <2> QED
      BY <1>1, RubyAssumption DEF LockInv, TypeOK, OwnerWorks, HasMutex
  <1> QED
    BY <1>2, <1>3, <1>4, <1>5 DEF LockInv

LEMMA BeginsKeep ==
  ASSUME LockInv, NEW t \in Threads,
         BeginDecompress(t) \/ BeginRead(t) \/ BeginCompress(t) \/ BeginModule(t)
  PROVE  LockInv'
  <1>1. CASE BeginDecompress(t)
    <2>1. PICK s \in Strings, limit \in Limits :
            Begin(t, "decompress", s, limit, Route(Len(text[s]) + limit >= GvlThreshold))
      BY <1>1 DEF BeginDecompress
    <2> QED
      BY <2>1, BeginKeeps, RubyAssumption DEF Route
  <1>2. CASE BeginRead(t)
    BY <1>2, BeginKeeps DEF BeginRead, Route
  <1>3. CASE BeginCompress(t)
    <2>1. CASE \E op \in {"flush", "finish"} : Begin(t, op, None, 0, Route(TRUE))
      BY <2>1, BeginKeeps DEF Route
    <2>2. CASE \E s \in Strings : Begin(t, "compress", s, 0, Route(Len(text[s]) >= GvlThreshold))
      BY <2>2, BeginKeeps DEF Route
    <2> QED
      BY <1>3, <2>1, <2>2 DEF BeginCompress
  <1>4. CASE BeginModule(t)
    <2>1. PICK s \in Strings :
            \/ Begin(t, "inflate", s, 0, "release")
            \/ Begin(t, "deflate", s, 0,
                     IF Len(text[s]) >= GvlThreshold THEN "release" ELSE "run")
      BY <1>4 DEF BeginModule
    <2> QED
      BY <2>1, BeginKeeps
  <1> QED
    BY <1>1, <1>2, <1>3, <1>4

LEMMA WorkKeeps ==
  ASSUME LockInv, NEW t \in Threads, Work(t)
  PROVE  LockInv'
  <1>1. EndWork(t)
    BY DEF Work, RunDecompress, RunCompress, RunFlush, RunFinish, RunOther, Panic
  <1>2. poisoned' \in BOOLEAN /\ finished' \in BOOLEAN
    BY DEF LockInv, TypeOK, Work, RunDecompress, RunCompress, RunFlush, RunFinish,
           RunOther, Panic, objectVars
  <1> QED
    BY <1>1, <1>2, EndWorkKeeps

LEMMA Step == LockInv /\ [Next]_vars => LockInv'
  <1> SUFFICES ASSUME LockInv, [Next]_vars PROVE LockInv'
    OBVIOUS
  <1>1. CASE UNCHANGED vars
    BY <1>1 DEF vars, objectVars, stringVars, LockInv, TypeOK, GvlInv, StableInv,
                HoldsBytes, OwnerWorks, HasMutex
  <1>2. CASE Next
    <2>1. PICK t \in Threads :
            \/ \E s \in Strings : Change(t, s)
            \/ BeginDecompress(t) \/ BeginRead(t) \/ BeginCompress(t) \/ BeginModule(t)
            \/ Locking(t) \/ Work(t) \/ RegainGvl(t) \/ Return(t)
      BY <1>2 DEF Next
    <2> QED
      BY <2>1, ChangeKeeps, BeginsKeep, WaitKeeps, ReleaseKeeps, WorkKeeps, ReturnKeeps
         DEF Locking
  <1> QED
    BY <1>1, <1>2

LEMMA Locks == Spec => []LockInv
  BY Initially, Step, PTL DEF Spec

\* A call works on the bytes its String held when it began, whatever other
\* threads do while it waits and works (InputBytes::lock, without_gvl).
THEOREM StringsStable == Spec => []InputStable
  <1>1. LockInv => InputStable
    <2> SUFFICES ASSUME LockInv, NEW t \in Threads,
                        pc[t] \in {"try", "release", "wait", "run"}, call[t].string # None
                 PROVE  Bytes(t) = call[t].want
      BY DEF InputStable
    <2> QED
      BY DEF LockInv, StableInv, HoldsBytes, Bytes
  <1> QED
    BY <1>1, Locks, PTL

\* The thread that has the object's mutex works: it never waits, so it lets
\* the mutex go whatever the threads that wait for it do with the GVL.  And
\* no two threads work on the object at once (with_mutex).
THEOREM MutexIsLetGo ==
  Spec => []/\ \A t \in Threads : owner = t => pc[t] = "run"
            /\ \A t, u \in Threads :
                 pc[t] = "run" /\ HasMutex(t) /\ pc[u] = "run" /\ HasMutex(u) => t = u
  <1>1. LockInv => /\ \A t \in Threads : owner = t => pc[t] = "run"
                   /\ \A t, u \in Threads :
                        pc[t] = "run" /\ HasMutex(t) /\ pc[u] = "run" /\ HasMutex(u)
                          => t = u
    BY DEF LockInv, OwnerWorks
  <1> QED
    BY <1>1, Locks, PTL

(***************************************************************************)
(* Induction, stated of sets, and what recursion over a sequence defines.  *)
(***************************************************************************)
\* A bounded set of naturals that is not empty has a largest member.
LEMMA BoundedSetHasLargest ==
  ASSUME NEW S \in SUBSET Nat, S # {}, NEW n \in Nat, \A x \in S : x <= n
  PROVE  \E x \in S : \A y \in S : y <= x
  <1> DEFINE Above(x) == {y \in S : y > x}
             Aboves == {Above(x) : x \in S}
  <1>1. Aboves \subseteq FiniteSubsetsOf(S)
    <2>1. IsFiniteSet(S)
      BY FS_BoundedSetOfNaturals
    <2>2. \A x \in S : IsFiniteSet(Above(x))
      BY <2>1, FS_Subset
    <2> QED
      BY <2>2 DEF FiniteSubsetsOf
  <1>2. \E A \in Aboves :
          \A B \in Aboves : ~ (<<B, A>> \in StrictSubsetOrdering(S))
    <2>1. Aboves # {}
      OBVIOUS
    <2> HIDE DEF Aboves
    <2> QED
      BY <1>1, <2>1, FS_StrictSubsetOrderingWellFounded, WFMin
  <1>3. PICK x \in S :
          \A y \in S : ~ (<<Above(y), Above(x)>> \in StrictSubsetOrdering(S))
    BY <1>2
  <1>4. ASSUME NEW y \in S, ~(y <= x)
        PROVE  FALSE
    <2>1. S \subseteq Nat /\ y \in Nat /\ x \in Nat /\ x < y
      BY <1>4
    <2>2. Above(y) \subseteq Above(x) /\ y \in Above(x) /\ y \notin Above(y)
      <3>1. y \in Above(x) /\ y \notin Above(y)
        BY <1>4, <2>1
      <3>2. \A z \in Above(y) : z \in Above(x)
        BY <2>1
      <3> QED
        BY <3>1, <3>2
    <2>3. <<Above(y), Above(x)>> \in StrictSubsetOrdering(S)
      BY <2>2 DEF StrictSubsetOrdering
    <2> QED
      BY <1>3, <2>3
  <1> QED
    BY <1>4

\* Induction.
LEMMA AllNaturals ==
  ASSUME NEW S, 0 \in S, \A n \in Nat : n \in S => n + 1 \in S,
         NEW n \in Nat
  PROVE  n \in S
  <1> SUFFICES ASSUME n \notin S PROVE FALSE
    OBVIOUS
  <1> DEFINE Below == {k \in 0 .. n : k \in S /\ k < n}
  <1>1. n # 0
    OBVIOUS
  <1>2. DEFINE Run == {k \in Nat : \A j \in 0 .. k : j \in S}
  <1>3. Run \in SUBSET Nat /\ 0 \in Run
    OBVIOUS
  <1>4. \A k \in Run : k <= n
    OBVIOUS
  <1>5. PICK m \in Run : \A k \in Run : k <= m
    <2> HIDE DEF Run
    <2> QED
      BY <1>3, <1>4, BoundedSetHasLargest
  <1>6. m + 1 \in Run
    <2>1. m \in Nat /\ \A j \in 0 .. m : j \in S
      OBVIOUS
    <2>2. m + 1 \in S
      BY <2>1
    <2>3. \A j \in 0 .. m + 1 : j \in S
      BY <2>1, <2>2
    <2> QED
      BY <2>1, <2>3
  <1>7. m \in Nat /\ m + 1 <= m
    BY <1>5, <1>6
  <1> QED
    BY <1>7

\* A set of naturals that is not empty has a least member.
LEMMA HasLeast ==
  ASSUME NEW S \in SUBSET Nat, S # {}
  PROVE  \E x \in S : \A y \in S : x <= y
  <1> SUFFICES ASSUME \A x \in S : \E y \in S : y < x PROVE FALSE
    OBVIOUS
  <1> DEFINE Free == {n \in Nat : \A k \in 0 .. n : k \notin S}
  <1>1. 0 \in Free
    OBVIOUS
  <1>2. ASSUME NEW n \in Nat, n \in Free PROVE n + 1 \in Free
    <2>1. \A k \in 0 .. n : k \notin S
      BY <1>2
    <2>2. n + 1 \notin S
      BY <2>1
    <2> QED
      BY <2>1, <2>2
  <1>3. \A n \in Nat : n \in Free
    <2> HIDE DEF Free
    <2> QED
      BY <1>1, <1>2, AllNaturals
  <1>4. PICK x \in S : TRUE
    OBVIOUS
  <1> QED
    BY <1>3, <1>4

Symbols == {"l", "c", "o", "p"}

LEMMA ProducesType == \A e : Produces(e) \in Seq(Symbols)
  <1> SUFFICES ASSUME NEW e PROVE Produces(e) \in Seq(Symbols)
    OBVIOUS
  <1>1. <<"l">> \in Seq(Symbols) /\ <<"c", "o", "p">> \in Seq(Symbols) /\ <<>> \in Seq(Symbols)
    BY DEF Symbols
  <1> QED
    BY <1>1 DEF Produces

\* The recursion over the elements defines what it says.
LEMMA OutputsUnfold ==
  ASSUME NEW s \in Bytestrings
  PROVE  Outputs(s) = [n \in 0 .. Len(s) |->
                         IF n = 0 THEN <<>> ELSE Outputs(s)[n - 1] \o Produces(s[n])]
  <1> DEFINE Good(g, k) == g = [n \in 0 .. k |-> IF n = 0 THEN <<>>
                                                 ELSE g[n - 1] \o Produces(s[n])]
             Lengths == {k \in Nat : \E g : Good(g, k)}
  <1>1. 0 \in Lengths
    <2>1. Good([n \in 0 .. 0 |-> <<>>], 0)
      OBVIOUS
    <2> QED
      BY <2>1
  <1>2. ASSUME NEW k \in Nat, k \in Lengths PROVE k + 1 \in Lengths
    <2>1. PICK g : Good(g, k)
      BY <1>2
    <2> DEFINE h == [n \in 0 .. k + 1 |-> IF n = k + 1 THEN g[k] \o Produces(s[k + 1]) ELSE g[n]]
    <2>2. \A n \in 0 .. k + 1 : h[n] = IF n = 0 THEN <<>> ELSE h[n - 1] \o Produces(s[n])
      <3>1. g = [n \in 0 .. k |-> IF n = 0 THEN <<>> ELSE g[n - 1] \o Produces(s[n])]
        BY <2>1
      <3>2. \A n \in 0 .. k : g[n] = IF n = 0 THEN <<>> ELSE g[n - 1] \o Produces(s[n])
        BY <3>1
      <3>3. \A n \in 0 .. k : h[n] = g[n]
        OBVIOUS
      <3>4. h[k + 1] = h[k] \o Produces(s[k + 1])
        BY <3>3
      <3>5. ASSUME NEW n \in 0 .. k, n # 0
            PROVE  h[n] = h[n - 1] \o Produces(s[n])
        <4>1. h[n - 1] = g[n - 1] /\ h[n] = g[n]
          BY <3>3, <3>5
        <4> QED
          BY <3>2, <3>5, <4>1
      <3>6. h[0] = <<>>
        BY <3>2, <3>3
      <3>7. ASSUME NEW n \in 0 .. k + 1
            PROVE  h[n] = IF n = 0 THEN <<>> ELSE h[n - 1] \o Produces(s[n])
        <4> HIDE DEF h
        <4>1. CASE n = k + 1
          <5>1. n - 1 = k /\ n # 0
            BY <4>1
          <5> QED
            BY <3>4, <4>1, <5>1
        <4>2. CASE n \in 0 .. k /\ n # 0
          BY <3>5, <4>2
        <4>3. CASE n = 0
          BY <3>6, <4>3
        <4> QED
          BY <4>1, <4>2, <4>3
      <3> QED
        BY <3>7
    <2>3. h = [n \in 0 .. k + 1 |-> h[n]]
      OBVIOUS
    <2>4. Good(h, k + 1)
      <3> HIDE DEF h
      <3>1. [n \in 0 .. k + 1 |-> h[n]]
              = [n \in 0 .. k + 1 |-> IF n = 0 THEN <<>> ELSE h[n - 1] \o Produces(s[n])]
        BY <2>2
      <3> QED
        BY <2>3, <3>1
    <2> QED
      <3> HIDE DEF Good, h
      <3> QED
        BY <2>4
  <1>3. Len(s) \in Nat
    BY DEF Bytestrings
  <1>4. \E g : Good(g, Len(s))
    <2> HIDE DEF Good
    <2>1. Len(s) \in Lengths
      <3> HIDE DEF Lengths
      <3> QED
        BY <1>1, <1>2, <1>3, AllNaturals
    <2> QED
      BY <2>1
  <1>5. Outputs(s) = CHOOSE g : Good(g, Len(s))
    BY DEF Outputs
  <1>6. Good(Outputs(s), Len(s))
    <2> HIDE DEF Good
    <2> QED
      BY <1>4, <1>5
  <1> QED
    BY <1>6

LEMMA OutputsStep ==
  ASSUME NEW s \in Bytestrings
  PROVE  /\ Len(s) \in Nat
         /\ Outputs(s)[0] = <<>>
         /\ \A n \in Nat : n < Len(s) =>
              Outputs(s)[n + 1] = Outputs(s)[n] \o Produces(s[n + 1])
  <1>1. Len(s) \in Nat
    BY DEF Bytestrings
  <1> DEFINE body(n) == IF n = 0 THEN <<>> ELSE Outputs(s)[n - 1] \o Produces(s[n])
  <1>2. \A n \in 0 .. Len(s) : Outputs(s)[n] = body(n)
    <2>1. Outputs(s) = [n \in 0 .. Len(s) |-> body(n)]
      BY OutputsUnfold
    <2> HIDE DEF body
    <2> QED
      BY <2>1
  <1>3. Outputs(s)[0] = <<>>
    BY <1>1, <1>2
  <1>4. ASSUME NEW n \in Nat, n < Len(s)
        PROVE  Outputs(s)[n + 1] = Outputs(s)[n] \o Produces(s[n + 1])
    <2>1. n + 1 \in 0 .. Len(s) /\ n + 1 # 0 /\ (n + 1) - 1 = n
      BY <1>1, <1>4
    <2> QED
      BY <1>2, <2>1
  <1> QED
    BY <1>1, <1>3, <1>4

LEMMA OutputsType ==
  ASSUME NEW s \in Bytestrings, NEW n \in Nat, n <= Len(s)
  PROVE  Outputs(s)[n] \in Seq(Symbols)
  <1> DEFINE Typed == {k \in Nat : k <= Len(s) => Outputs(s)[k] \in Seq(Symbols)}
  <1>1. 0 \in Typed
    BY OutputsStep, EmptySeq
  <1>2. ASSUME NEW k \in Nat, k \in Typed PROVE k + 1 \in Typed
    <2> SUFFICES ASSUME k + 1 <= Len(s) PROVE Outputs(s)[k + 1] \in Seq(Symbols)
      OBVIOUS
    <2>1. k < Len(s) /\ k <= Len(s)
      BY OutputsStep
    <2>2. Outputs(s)[k] \in Seq(Symbols)
      BY <1>2, <2>1
    <2>3. Outputs(s)[k + 1] = Outputs(s)[k] \o Produces(s[k + 1])
      BY <2>1, OutputsStep
    <2> QED
      BY <2>2, <2>3, ProducesType, ConcatProperties
  <1>3. n \in Typed
    <2> HIDE DEF Typed
    <2> QED
      BY <1>1, <1>2, AllNaturals
  <1> QED
    BY <1>3

\* What the first elements decode to depends on them only.
LEMMA OutputsAgree ==
  ASSUME NEW s \in Bytestrings, NEW u \in Bytestrings, NEW n \in Nat,
         n <= Len(s), n <= Len(u), \A i \in 1 .. n : s[i] = u[i]
  PROVE  Outputs(s)[n] = Outputs(u)[n]
  <1> DEFINE Same == {k \in Nat : k <= n => Outputs(s)[k] = Outputs(u)[k]}
  <1>1. 0 \in Same
    BY OutputsStep
  <1>2. ASSUME NEW k \in Nat, k \in Same PROVE k + 1 \in Same
    <2> SUFFICES ASSUME k + 1 <= n PROVE Outputs(s)[k + 1] = Outputs(u)[k + 1]
      OBVIOUS
    <2>1. k < Len(s) /\ k < Len(u) /\ s[k + 1] = u[k + 1]
      BY OutputsStep
    <2>2. Outputs(s)[k] = Outputs(u)[k]
      BY <1>2
    <2> QED
      BY <2>1, <2>2, OutputsStep
  <1>3. n \in Same
    <2> HIDE DEF Same
    <2> QED
      BY <1>1, <1>2, AllNaturals
  <1> QED
    BY <1>3

\* p is how s begins.
Begins(p, s) == Len(p) <= Len(s) /\ \A i \in 1 .. Len(p) : s[i] = p[i]

\* More elements only add output.
LEMMA OutputsGrow ==
  ASSUME NEW s \in Bytestrings, NEW m \in Nat, NEW n \in Nat, m <= n, n <= Len(s)
  PROVE  Begins(Outputs(s)[m], Outputs(s)[n])
  <1> DEFINE Grown == {k \in Nat : m + k <= Len(s) => Begins(Outputs(s)[m], Outputs(s)[m + k])}
  <1>0. Len(s) \in Nat
    BY OutputsStep
  <1>1. 0 \in Grown
    <2>1. m + 0 = m
      OBVIOUS
    <2> QED
      BY <1>0, <2>1, OutputsType, LenProperties DEF Begins
  <1>2. ASSUME NEW k \in Nat, k \in Grown PROVE k + 1 \in Grown
    <2> SUFFICES ASSUME m + k + 1 <= Len(s)
                 PROVE  Begins(Outputs(s)[m], Outputs(s)[m + k + 1])
      BY <1>0
    <2> DEFINE a == Outputs(s)[m]  b == Outputs(s)[m + k]  c == Produces(s[m + k + 1])
    <2>1. Begins(a, b)
      BY <1>0, <1>2
    <2>2. a \in Seq(Symbols) /\ b \in Seq(Symbols) /\ c \in Seq(Symbols)
      BY <1>0, OutputsType, ProducesType
    <2>3. Outputs(s)[m + k + 1] = b \o c
      <3>1. m + k \in Nat /\ m + k < Len(s)
        BY <1>0
      <3> QED
        BY <3>1, OutputsStep
    <2>4. Begins(a, b \o c)
      <3> HIDE DEF a, b, c
      <3> QED
        BY <2>1, <2>2, ConcatProperties, LenProperties DEF Begins
    <2> QED
      BY <2>3, <2>4
  <1>3. n - m \in Grown
    <2>1. n - m \in Nat
      OBVIOUS
    <2> HIDE DEF Grown
    <2> QED
      BY <1>1, <1>2, <2>1, AllNaturals
  <1>4. m + (n - m) = n
    OBVIOUS
  <1> QED
    BY <1>3, <1>4

LEMMA OutputOfMore ==
  ASSUME NEW s \in Bytestrings, NEW more \in Bytestrings
  PROVE  /\ s \o more \in Bytestrings
         /\ Output(s) \in Seq(Symbols) /\ Output(s \o more) \in Seq(Symbols)
         /\ Begins(Output(s), Output(s \o more))
  <1> DEFINE u == s \o more
  <1>1. /\ u \in Bytestrings /\ Len(s) \in Nat /\ Len(u) \in Nat /\ Len(s) <= Len(u)
        /\ \A i \in 1 .. Len(s) : s[i] = u[i]
    BY ConcatProperties, LenProperties DEF Bytestrings
  <1> HIDE DEF u
  <1>2. Outputs(s)[Len(s)] = Outputs(u)[Len(s)]
    BY <1>1, OutputsAgree
  <1>3. Begins(Outputs(u)[Len(s)], Outputs(u)[Len(u)])
    BY <1>1, OutputsGrow
  <1>4. Outputs(s)[Len(s)] \in Seq(Symbols) /\ Outputs(u)[Len(u)] \in Seq(Symbols)
    BY <1>1, OutputsType
  <1> QED
    BY <1>1, <1>2, <1>3, <1>4 DEF Output, u

(***************************************************************************)
(* One call of the decoder, and the loop of decode.                        *)
(***************************************************************************)
\* Nothing follows the end of the stream, or what broke it.
OnlyLast(s) == \A i \in 1 .. Len(s) - 1 : s[i] \notin {"end", "bad"}

\* d is a decoder between calls.
Sound(d) ==
  /\ d.seen \in Bytestrings /\ OnlyLast(d.seen)
  /\ d.given \in Nat /\ d.given <= Len(Output(d.seen))

\* What a call says is so.
Truthful(status, seen, given, rest) ==
  /\ status = "NeedsInput" =>
       rest = <<>> /\ given = Len(Output(seen)) /\ ~Closed(seen)
  /\ status = "Finished" => given = Len(Output(seen)) /\ Last(seen, "end")
  /\ status = "NeedsOutput" => ~(given = Len(Output(seen)) /\ Last(seen, "end"))

LEMMA Extends ==
  ASSUME NEW S, NEW a \in Seq(S), NEW b \in Seq(S), NEW n \in 0 .. Len(b)
  PROVE  LET u == a \o SubSeq(b, 1, n) IN
         /\ u \in Seq(S) /\ Len(u) = Len(a) + n
         /\ \A i \in 1 .. Len(a) : u[i] = a[i]
         /\ \A i \in 1 .. n : u[Len(a) + i] = b[i]
  <1> DEFINE t == SubSeq(b, 1, n)
  <1>1. Len(a) \in Nat /\ Len(b) \in Nat /\ n \in Nat
    BY LenProperties
  <1>2. t \in Seq(S) /\ Len(t) = n /\ \A i \in 1 .. n : t[i] = b[i]
    BY <1>1
  <1> HIDE DEF t
  <1>3. /\ a \o t \in Seq(S) /\ Len(a \o t) = Len(a) + n
        /\ \A i \in 1 .. Len(a) + n :
             (a \o t)[i] = IF i <= Len(a) THEN a[i] ELSE t[i - Len(a)]
    BY <1>2, ConcatProperties
  <1>4. \A i \in 1 .. Len(a) : (a \o t)[i] = a[i]
    BY <1>1, <1>3
  <1>5. ASSUME NEW i \in 1 .. n PROVE (a \o t)[Len(a) + i] = b[i]
    <2>1. /\ Len(a) + i \in 1 .. Len(a) + n /\ ~(Len(a) + i <= Len(a))
          /\ (Len(a) + i) - Len(a) = i
      BY <1>1
    <2> QED
      BY <1>2, <1>3, <2>1
  <1> QED
    BY <1>3, <1>4, <1>5 DEF t

LEMMA Regrouped ==
  ASSUME NEW S, NEW a \in Seq(S), NEW x \in Seq(S), NEW y \in Seq(S)
  PROVE  (a \o x) \o y = a \o (x \o y)
  BY ConcatAssociative

LEMMA Rejoined ==
  ASSUME NEW S, NEW a \in Seq(S), NEW b \in Seq(S), NEW n \in 0 .. Len(b)
  PROVE  /\ SubSeq(b, n + 1, Len(b)) \in Seq(S)
         /\ (a \o SubSeq(b, 1, n)) \o SubSeq(b, n + 1, Len(b)) = a \o b
  <1>1. Len(b) \in Nat /\ n \in Nat /\ n \in 1 - 1 .. Len(b) /\ Len(b) \in n .. Len(b)
        /\ 1 \in 1 .. Len(b) + 1
    BY LenProperties
  <1>2. SubSeq(b, 1, n) \in Seq(S) /\ SubSeq(b, n + 1, Len(b)) \in Seq(S)
    BY <1>1
  <1>3. SubSeq(b, 1, n) \o SubSeq(b, n + 1, Len(b)) = b
    <2>1. \A m \in 1 .. Len(b) + 1 : \A k \in m - 1 .. Len(b) : \A l \in k .. Len(b) :
            SubSeq(b, m, k) \o SubSeq(b, k + 1, l) = SubSeq(b, m, l)
      BY ConcatAdjacentSubSeq
    <2>2. SubSeq(b, 1, Len(b)) = b
      BY SubSeqFull
    <2> QED
      BY ONLY <1>1, <2>1, <2>2
  <1>4. PICK x \in Seq(S) : x = SubSeq(b, 1, n)
    BY <1>2
  <1>5. PICK y \in Seq(S) : y = SubSeq(b, n + 1, Len(b))
    BY <1>2
  <1>6. (a \o x) \o y = a \o (x \o y)
    BY ONLY Regrouped
  <1>7. x \o y = b
    BY ONLY <1>3, <1>4, <1>5
  <1>8. (a \o x) \o y = a \o b
    BY ONLY <1>6, <1>7
  <1> QED
    BY ONLY <1>2, <1>4, <1>5, <1>8

LEMMA Piece ==
  ASSUME NEW S, NEW s \in Seq(S), NEW m \in Nat, NEW n \in Nat, m <= n, n <= Len(s)
  PROVE  /\ SubSeq(s, m + 1, n) \in Seq(S) /\ Len(SubSeq(s, m + 1, n)) = n - m
         /\ \A i \in 1 .. n - m : SubSeq(s, m + 1, n)[i] = s[m + i]
  <1>1. Len(s) \in Nat /\ \A i \in m + 1 .. n : s[i] \in S
    BY ElementOfSeq, LenProperties
  <1>2. /\ SubSeq(s, m + 1, n) \in Seq(S)
        /\ Len(SubSeq(s, m + 1, n)) = IF m + 1 <= n THEN n - (m + 1) + 1 ELSE 0
        /\ \A i \in 1 .. n - (m + 1) + 1 : SubSeq(s, m + 1, n)[i] = s[(m + 1) + i - 1]
    BY <1>1, SubSeqProperties
  <1>3. n - (m + 1) + 1 = n - m /\ \A i \in Nat : (m + 1) + i - 1 = m + i
    OBVIOUS
  <1> QED
    BY <1>2, <1>3

LEMMA DecompressFacts ==
  ASSUME NEW d, Sound(d), NEW data \in Bytestrings, NEW room \in Nat,
         NEW p, p = Decompress(d, data, room)
  PROVE  /\ p.consumed \in 0 .. Len(data)
         /\ p.seen = d.seen \o SubSeq(data, 1, p.consumed)
         /\ Sound(p)
         /\ d.given <= p.given /\ p.given - d.given <= room
         /\ p.written = SubSeq(Output(p.seen), d.given + 1, p.given)
         /\ p.status \in {"NeedsInput", "NeedsOutput", "Finished", "Error"}
         /\ Truthful(p.status, p.seen, p.given,
                     SubSeq(data, p.consumed + 1, Len(data)))
         /\ p.status = "NeedsOutput" /\ room > 0 => d.given < p.given
  <1> DEFINE Seen(n) == d.seen \o SubSeq(data, 1, n)
             Left(n) == Len(Output(Seen(n))) - d.given
             Stops(n) == n = Len(data) \/ Left(n) > room \/ Closed(Seen(n))
             First(n) == Stops(n) /\ \A m \in 0 .. n - 1 : ~Stops(m)
             consumed == CHOOSE n \in 0 .. Len(data) : First(n)
             wrote == Lesser(Left(consumed), room)
             bad == Last(Seen(consumed), "bad")
  <1>1. /\ p.seen = Seen(consumed) /\ p.given = d.given + wrote
        /\ p.consumed = consumed
        /\ p.written = SubSeq(Output(Seen(consumed)), d.given + 1, d.given + wrote)
        /\ p.status = IF Left(consumed) > room THEN "NeedsOutput"
                      ELSE IF bad THEN IF wrote > 0 THEN "NeedsOutput" ELSE "Error"
                      ELSE IF Last(Seen(consumed), "end") THEN "Finished"
                      ELSE "NeedsInput"
    BY DEF Decompress
  <1>2. Len(data) \in Nat
    BY DEF Bytestrings
  <1>3. ASSUME NEW n \in 0 .. Len(data)
        PROVE  /\ Seen(n) \in Bytestrings /\ Left(n) \in Nat
               /\ Len(Seen(n)) = Len(d.seen) + n /\ Len(d.seen) \in Nat
               /\ \A i \in 1 .. Len(d.seen) : Seen(n)[i] = d.seen[i]
               /\ \A i \in 1 .. n : Seen(n)[Len(d.seen) + i] = data[i]
    <2>1. d.seen \in Bytestrings /\ Len(d.seen) \in Nat /\ d.given \in Nat
          /\ d.given <= Len(Output(d.seen))
      BY LenProperties DEF Sound, Bytestrings
    <2>2. /\ Seen(n) \in Bytestrings /\ Len(Seen(n)) = Len(d.seen) + n
          /\ \A i \in 1 .. Len(d.seen) : Seen(n)[i] = d.seen[i]
          /\ \A i \in 1 .. n : Seen(n)[Len(d.seen) + i] = data[i]
      <3>1. d.seen \in Seq(Elements) /\ data \in Seq(Elements) /\ n \in 0 .. Len(data)
        BY <2>1 DEF Bytestrings
      <3>2. LET u == d.seen \o SubSeq(data, 1, n) IN
            /\ u \in Seq(Elements) /\ Len(u) = Len(d.seen) + n
            /\ \A i \in 1 .. Len(d.seen) : u[i] = d.seen[i]
            /\ \A i \in 1 .. n : u[Len(d.seen) + i] = data[i]
        <4> DEFINE Joins(S, a, b, k) ==
                     LET u == a \o SubSeq(b, 1, k) IN
                     /\ u \in Seq(S) /\ Len(u) = Len(a) + k
                     /\ \A i \in 1 .. Len(a) : u[i] = a[i]
                     /\ \A i \in 1 .. k : u[Len(a) + i] = b[i]
        <4>1. \A S : \A a, b \in Seq(S) : \A k \in 0 .. Len(b) : Joins(S, a, b, k)
          BY ONLY Extends
        <4>2. Joins(Elements, d.seen, data, n)
          <5> HIDE DEF Joins
          <5> QED
            BY ONLY <3>1, <4>1
        <4> QED
          BY <4>2
      <3> QED
        BY <3>2 DEF Bytestrings
    <2>3. Left(n) \in Nat
      <3>1. SubSeq(data, 1, n) \in Bytestrings
        BY <1>2, <1>3 DEF Bytestrings
      <3>2. /\ Output(d.seen) \in Seq(Symbols) /\ Output(Seen(n)) \in Seq(Symbols)
            /\ Begins(Output(d.seen), Output(Seen(n)))
        BY <2>1, <3>1, OutputOfMore
      <3>3. Len(Output(d.seen)) \in Nat /\ Len(Output(Seen(n))) \in Nat
        BY <3>2, LenProperties
      <3> QED
        BY <2>1, <3>2, <3>3 DEF Begins
    <2> HIDE DEF Left, Seen
    <2> QED
      BY <2>1, <2>2, <2>3
  <1>4. \E n \in 0 .. Len(data) : First(n)
    <2> DEFINE S == {n \in 0 .. Len(data) : Stops(n)}
    <2>1. Len(data) \in S
      BY <1>2
    <2>2. PICK n \in S : \A m \in S : n <= m
      <3>1. S \in SUBSET Nat
        BY <1>2
      <3> HIDE DEF S
      <3> QED
        BY <2>1, <3>1, HasLeast
    <2>3. n \in 0 .. Len(data) /\ Stops(n)
      BY <2>2
    <2>4. ASSUME NEW m \in 0 .. n - 1, Stops(m) PROVE FALSE
      <3>1. m \in S /\ m < n /\ n \in Nat /\ m \in Nat
        BY <1>2, <2>3, <2>4
      <3> QED
        BY <2>2, <3>1
    <2> QED
      <3> HIDE DEF Stops
      <3> QED
        BY <2>3, <2>4
  <1>5. consumed \in 0 .. Len(data) /\ First(consumed)
    <2> HIDE DEF First
    <2> QED
      BY <1>4
  <1> DEFINE c == consumed
  <1> HIDE DEF consumed, Seen
  <1>6. /\ Seen(c) \in Bytestrings /\ Left(c) \in Nat /\ c \in 0 .. Len(data)
        /\ Len(Seen(c)) = Len(d.seen) + c /\ Len(d.seen) \in Nat
    BY <1>3, <1>5
  <1> HIDE DEF Left, c
  <1>7. OnlyLast(Seen(c))
    <2> SUFFICES ASSUME NEW i \in 1 .. Len(Seen(c)) - 1
                 PROVE  Seen(c)[i] \notin {"end", "bad"}
      BY DEF OnlyLast
    <2>1. CASE i < Len(d.seen)
      <3>1. i \in 1 .. Len(d.seen) - 1 /\ i \in 1 .. Len(d.seen)
        BY <1>6, <2>1
      <3>2. Seen(c)[i] = d.seen[i]
        BY <1>3, <1>6, <3>1
      <3> QED
        BY <3>1, <3>2 DEF Sound, OnlyLast
    <2>2. CASE i >= Len(d.seen)
      <3> DEFINE m == i - Len(d.seen)
      <3>1. m \in 0 .. c - 1 /\ m \in 0 .. Len(data) /\ c \in Nat
        BY <1>2, <1>6, <2>2
      <3>2. ~Closed(Seen(m))
        BY <1>5, <3>1 DEF c
      <3>3. Len(Seen(m)) = i /\ i # 0
        BY <1>3, <1>6, <3>1
      <3>4. Seen(m)[i] = Seen(c)[i]
        <4>1. CASE m = 0
          <5>1. i = Len(d.seen) /\ i \in 1 .. Len(d.seen)
            BY <1>6, <4>1
          <5>2. Seen(c)[i] = d.seen[i]
            BY <1>3, <1>6, <5>1
          <5>3. Seen(m)[i] = d.seen[i]
            <6> HIDE DEF m
            <6> QED
              BY <1>3, <3>1, <5>1
          <5> QED
            BY <5>2, <5>3
        <4>2. CASE m # 0
          <5>1. m \in 1 .. m /\ m \in 1 .. c /\ Len(d.seen) + m = i
            BY <1>6, <3>1, <4>2
          <5> HIDE DEF m
          <5>2. Seen(c)[Len(d.seen) + m] = data[m]
            BY <1>3, <1>6, <5>1
          <5>3. Seen(m)[Len(d.seen) + m] = data[m]
            BY <1>3, <3>1, <5>1
          <5> QED
            BY <5>1, <5>2, <5>3
        <4> QED
          BY <4>1, <4>2
      <3>5. Seen(m) # <<>>
        BY <3>3
      <3> QED
        BY <3>2, <3>3, <3>4, <3>5 DEF Closed, Last
    <2> QED
      BY <1>6, <2>1, <2>2
  <1>8. SubSeq(data, Len(data) + 1, Len(data)) = <<>>
    BY <1>2, SubSeqEmpty
  <1>9. /\ wrote \in Nat /\ wrote <= room /\ wrote <= Left(c)
        /\ Left(c) <= room => wrote = Left(c)
        /\ Left(c) > room => wrote < Left(c)
    <2> HIDE DEF Left
    <2> QED
      BY <1>6 DEF Lesser, c
  <1>10. /\ d.given \in Nat /\ Len(Output(Seen(c))) = d.given + Left(c)
         /\ Len(Output(Seen(c))) \in Nat
    <2>1. Len(Output(Seen(c))) \in Nat
      BY <1>6, OutputsType, LenProperties DEF Output, Bytestrings
    <2>2. d.given \in Nat
      BY DEF Sound
    <2> QED
      BY <2>1, <2>2 DEF Left
  <1>11. Sound(p)
    <2> HIDE DEF Left, wrote, Seen
    <2>1. p.seen = Seen(c) /\ p.given = d.given + wrote
      BY <1>1 DEF c
    <2>2. p.given \in Nat /\ p.given <= Len(Output(Seen(c)))
      <3> HIDE DEF c
      <3>1. Left(c) \in Nat
        BY <1>3, <1>6
      <3> QED
        BY ONLY <1>9, <1>10, <2>1, <3>1
    <2>3. p.seen \in Bytestrings /\ OnlyLast(p.seen)
      BY <1>6, <1>7, <2>1
    <2> QED
      BY <2>1, <2>2, <2>3 DEF Sound
  <1>12. First(c)
    BY <1>5 DEF c
  <1>13. Truthful(p.status, p.seen, p.given, SubSeq(data, p.consumed + 1, Len(data)))
    <2> HIDE DEF wrote
    <2>1. p.status = "NeedsInput" =>
            Left(c) <= room /\ ~Closed(Seen(c)) /\ c = Len(data)
      BY <1>1, <1>6, <1>12 DEF Closed, c
    <2>2. p.status = "Finished" => Left(c) <= room /\ Last(Seen(c), "end")
      BY <1>1, <1>6 DEF c
    <2>3. p.status = "NeedsOutput" => Left(c) > room \/ Last(Seen(c), "bad")
      BY <1>1, <1>6 DEF c
    <2>4. ~(Last(Seen(c), "bad") /\ Last(Seen(c), "end"))
      BY DEF Last
    <2>5. p.seen = Seen(c) /\ p.given = d.given + wrote /\ p.consumed = c
      BY <1>1 DEF c
    <2> QED
      BY <1>6, <1>8, <1>9, <1>10, <2>1, <2>2, <2>3, <2>4, <2>5 DEF Truthful
  <1>14. p.status \in {"NeedsInput", "NeedsOutput", "Finished", "Error"}
    BY <1>1
  <1>15. d.given <= p.given /\ p.given - d.given <= room
    <2> HIDE DEF wrote
    <2> QED
      BY <1>1, <1>9, <1>10
  <1>16. /\ p.consumed \in 0 .. Len(data)
         /\ p.seen = d.seen \o SubSeq(data, 1, p.consumed)
         /\ p.written = SubSeq(Output(p.seen), d.given + 1, p.given)
    <2> HIDE DEF wrote
    <2> QED
      BY <1>1, <1>6 DEF c, Seen
  <1>17. p.status = "NeedsOutput" /\ room > 0 => d.given < p.given
    <2>1. wrote = Lesser(Left(c), room)
      BY DEF c
    <2>2. p.status = "NeedsOutput" => Left(c) > room \/ wrote > 0
      BY <1>1 DEF c
    <2> HIDE DEF wrote
    <2> QED
      BY <1>1, <1>6, <1>9, <1>10, <2>1, <2>2 DEF Lesser
  <1> QED
    BY <1>11, <1>13, <1>14, <1>15, <1>16, <1>17

States == [seen : Bytestrings, given : Nat, tail : Bytestrings, pending : BOOLEAN,
           unused : Bytestrings, failed : BOOLEAN]

\* How decode stands, with d when it began, after any number of turns.
Midway(r, d, data, limit) ==
  /\ Sound(r.d) /\ r.d = [d EXCEPT !.seen = r.d.seen, !.given = r.d.given]
  /\ r.rest \in Bytestrings /\ r.d.seen \o r.rest = d.seen \o data
  /\ Begins(Output(d.seen), Output(r.d.seen))
  /\ r.output \in Seq(Symbols) /\ Len(r.output) <= limit
  /\ r.d.given = d.given + Len(r.output)
  /\ \A i \in 1 .. Len(r.output) : r.output[i] = Output(r.d.seen)[d.given + i]

Told(r) ==
  /\ r.status \in {"NeedsInput", "NeedsOutput", "Finished", "Error"}
  /\ Truthful(r.status, r.d.seen, r.d.given, r.rest)

LEMMA TurnKeeps ==
  ASSUME NEW d \in States, NEW data \in Bytestrings, NEW limit \in Nat,
         NEW r, Midway(r, d, data, limit)
  PROVE  /\ Midway(Turn(r, limit), d, data, limit) /\ Told(Turn(r, limit))
         /\ Turn(r, limit).status = "NeedsOutput" /\ Len(r.output) < limit =>
              Len(r.output) < Len(Turn(r, limit).output)
  <1> DEFINE start == Len(r.output)
             room == Lesser(limit - start, Greater(start, FirstRoom))
             p == Decompress(r.d, r.rest, room)
             rest == SubSeq(r.rest, p.consumed + 1, Len(r.rest))
             after == [r.d EXCEPT !.seen = p.seen, !.given = p.given]
             all == r.output \o p.written
  <1>1. Turn(r, limit) = [d |-> after, output |-> all, rest |-> rest, status |-> p.status]
    BY DEF Turn
  <1> DEFINE t == Turn(r, limit)
  <1>14. t.d = after /\ t.output = all /\ t.rest = rest /\ t.status = p.status
    <2> HIDE DEF after, all, rest, p
    <2> QED
      BY <1>1
  <1>2. /\ start \in Nat /\ start <= limit /\ room \in Nat /\ room <= limit - start
        /\ start < limit => room > 0
    <2>1. start \in Nat /\ start <= limit
      BY LenProperties DEF Midway
    <2> HIDE DEF start
    <2> QED
      BY <2>1, RubyAssumption DEF Lesser, Greater
  <1>3. Sound(r.d) /\ r.rest \in Bytestrings
    BY DEF Midway
  <1> HIDE DEF room, p, start
  <1>4. /\ p.consumed \in 0 .. Len(r.rest)
        /\ p.seen = r.d.seen \o SubSeq(r.rest, 1, p.consumed)
        /\ Sound(p)
        /\ r.d.given <= p.given /\ p.given - r.d.given <= room
        /\ p.written = SubSeq(Output(p.seen), r.d.given + 1, p.given)
        /\ p.status \in {"NeedsInput", "NeedsOutput", "Finished", "Error"}
        /\ Truthful(p.status, p.seen, p.given, rest)
        /\ p.status = "NeedsOutput" /\ room > 0 => r.d.given < p.given
    BY <1>2, <1>3, DecompressFacts DEF p
  <1>5. after.seen = p.seen /\ after.given = p.given
        /\ after = [d EXCEPT !.seen = p.seen, !.given = p.given]
    BY DEF Midway, States
  <1>6. rest \in Bytestrings /\ p.seen \o rest = d.seen \o data
    <2>1. r.d.seen \in Bytestrings
      BY <1>3 DEF Sound
    <2>2. rest \in Bytestrings /\ p.seen \o rest = r.d.seen \o r.rest
      <3> DEFINE Joins(S, a, b, n) ==
                   /\ SubSeq(b, n + 1, Len(b)) \in Seq(S)
                   /\ (a \o SubSeq(b, 1, n)) \o SubSeq(b, n + 1, Len(b)) = a \o b
      <3>1. \A S : \A a, b \in Seq(S) : \A n \in 0 .. Len(b) : Joins(S, a, b, n)
        BY ONLY Rejoined
      <3>2. Joins(Elements, r.d.seen, r.rest, p.consumed)
        <4>1. /\ r.d.seen \in Seq(Elements) /\ r.rest \in Seq(Elements)
              /\ p.consumed \in 0 .. Len(r.rest)
          BY <1>3, <1>4, <2>1 DEF Bytestrings
        <4> HIDE DEF Joins
        <4> QED
          BY ONLY <3>1, <4>1
      <3> QED
        BY <1>4, <3>2 DEF Bytestrings
    <2> QED
      BY <2>2 DEF Midway
  <1>7. /\ Output(r.d.seen) \in Seq(Symbols) /\ Output(p.seen) \in Seq(Symbols)
        /\ Output(d.seen) \in Seq(Symbols)
        /\ Begins(Output(r.d.seen), Output(p.seen))
    <2>1. SubSeq(r.rest, 1, p.consumed) \in Bytestrings
      BY <1>3, <1>4, LenProperties DEF Bytestrings
    <2>2. r.d.seen \in Bytestrings /\ d.seen \in Bytestrings
      BY <1>3 DEF Sound, States
    <2> QED
      BY <1>4, <2>1, <2>2, OutputOfMore
  <1>8. Begins(Output(d.seen), Output(p.seen))
    BY <1>7, LenProperties DEF Midway, Begins
  <1> DEFINE g == r.d.given  w == p.given - g
  <1>9. /\ g \in Nat /\ d.given \in Nat /\ p.given \in Nat /\ g = d.given + start
        /\ w \in Nat /\ w <= room /\ p.given = g + w /\ p.given <= Len(Output(p.seen))
        /\ g <= Len(Output(r.d.seen))
    <2>1. g \in Nat /\ g <= Len(Output(r.d.seen))
      BY <1>3 DEF Sound
    <2>2. d.given \in Nat
      BY DEF States
    <2>3. p.given \in Nat /\ p.given <= Len(Output(p.seen))
      BY <1>4 DEF Sound
    <2>4. g = d.given + start
      BY DEF Midway, start
    <2>5. g <= p.given /\ p.given - g <= room
      BY <1>4
    <2>6. w \in Nat /\ w <= room /\ p.given = g + w
      <3> HIDE DEF g
      <3> QED
        BY <2>1, <2>3, <2>5
    <2> QED
      BY <2>1, <2>2, <2>3, <2>4, <2>6
  <1> HIDE DEF w
  <1>10. /\ p.written \in Seq(Symbols) /\ Len(p.written) = w
         /\ \A i \in 1 .. w : p.written[i] = Output(p.seen)[g + i]
    <2>1. g <= p.given /\ p.given - g = w
      BY <1>9
    <2>2. p.written = SubSeq(Output(p.seen), g + 1, p.given)
      BY <1>4
    <2> HIDE DEF g
    <2> QED
      <3> DEFINE o == Output(p.seen)  q == p.given
      <3>1. o \in Seq(Symbols) /\ g \in Nat /\ q \in Nat /\ g <= q /\ q <= Len(o)
        BY <1>7, <1>9, <2>1
      <3>2. p.written = SubSeq(o, g + 1, q) /\ q - g = w
        BY <2>1, <2>2
      <3> HIDE DEF o, q
      <3>3. /\ SubSeq(o, g + 1, q) \in Seq(Symbols) /\ Len(SubSeq(o, g + 1, q)) = q - g
            /\ \A i \in 1 .. q - g : SubSeq(o, g + 1, q)[i] = o[g + i]
        BY <3>1, Piece
      <3>4. p.written \in Seq(Symbols) /\ Len(p.written) = w
            /\ \A i \in 1 .. w : p.written[i] = o[g + i]
        BY <3>2, <3>3
      <3> QED
        BY <3>4 DEF o
  <1>11. /\ all \in Seq(Symbols) /\ Len(all) = start + w
         /\ \A i \in 1 .. start + w :
              all[i] = IF i <= start THEN r.output[i] ELSE p.written[i - start]
    <2>1. r.output \in Seq(Symbols) /\ Len(r.output) = start
      BY DEF Midway, start
    <2>2. p.written \in Seq(Symbols) /\ Len(p.written) = w
      BY <1>10
    <2> QED
      BY <2>1, <2>2, ConcatProperties
  <1> HIDE DEF all
  <1>12. \A i \in 1 .. Len(all) : all[i] = Output(p.seen)[d.given + i]
    <2> SUFFICES ASSUME NEW i \in 1 .. start + w PROVE all[i] = Output(p.seen)[d.given + i]
      BY <1>11
    <2>1. CASE i <= start
      <3>1. i \in 1 .. start
        BY <1>2, <1>9, <2>1
      <3>2. r.output[i] = Output(r.d.seen)[d.given + i]
        BY <3>1 DEF Midway, start
      <3>3. d.given + i \in 1 .. Len(Output(r.d.seen))
        <4> DEFINE m == Len(Output(r.d.seen))
        <4>1. m \in Nat
          BY <1>7, LenProperties
        <4>2. /\ start \in Nat /\ g \in Nat /\ d.given \in Nat
              /\ g = d.given + start /\ g <= m
          BY <1>2, <1>9
        <4> HIDE DEF m, g
        <4>3. d.given + i \in 1 .. m
          BY ONLY <3>1, <4>1, <4>2
        <4> QED
          BY <4>3 DEF m
      <3> QED
        BY <1>7, <1>11, <2>1, <3>2, <3>3 DEF Begins
    <2>2. CASE i > start
      <3>1. i - start \in 1 .. w /\ ~(i <= start) /\ g + (i - start) = d.given + i
        <4>1. /\ start \in Nat /\ w \in Nat /\ g \in Nat /\ d.given \in Nat
              /\ g = d.given + start /\ i \in 1 .. start + w
          BY <1>2, <1>9
        <4> HIDE DEF g
        <4> QED
          BY ONLY <2>2, <4>1
      <3> QED
        BY <1>10, <1>11, <3>1
    <2> QED
      BY <1>2, <1>9, <2>1, <2>2
  <1>13. Len(all) <= limit /\ p.given = d.given + Len(all)
    BY <1>2, <1>9, <1>11
  <1>15. Sound(after)
    BY <1>4, <1>5 DEF Sound
  <1> HIDE DEF after, rest, t
  <1>16. Midway(t, d, data, limit)
    <2>1. t.d.seen = p.seen /\ t.d.given = p.given
      BY <1>5, <1>14
    <2>2. Sound(t.d) /\ t.d = [d EXCEPT !.seen = t.d.seen, !.given = t.d.given]
      BY <1>5, <1>14, <1>15
    <2> QED
      BY <1>6, <1>8, <1>11, <1>12, <1>13, <1>14, <2>1, <2>2 DEF Midway
  <1>17. Told(t)
    BY <1>4, <1>5, <1>14 DEF Told
  <1>18. p.status = "NeedsOutput" /\ start < limit => start < Len(all)
    <2>1. p.status = "NeedsOutput" /\ start < limit => g < p.given
      BY <1>2, <1>4
    <2> HIDE DEF g
    <2> QED
      BY <1>2, <1>9, <1>11, <2>1
  <1> QED
    BY <1>14, <1>16, <1>17, <1>18 DEF t, start

\* The loop of decode is over after as many turns as there may be bytes of
\* output.  It has then lost no input and made no byte of output twice, and its
\* status says how the decoder stands.
THEOREM DecodeLoopEnds ==
  ASSUME NEW d \in States, Sound(d), NEW data \in Bytestrings, NEW limit \in Nat \ {0}
  PROVE  /\ Midway(DecodeInto(d, data, limit), d, data, limit)
         /\ Told(DecodeInto(d, data, limit))
         /\ ~GoesOn(DecodeInto(d, data, limit), limit)
  <1> DEFINE r0 == [d |-> d, output |-> <<>>, rest |-> data, status |-> "NeedsOutput"]
             Next1(r) == IF GoesOn(r, limit) THEN Turn(r, limit) ELSE r
             Good(g, k) == g = [n \in 0 .. k |-> IF n = 0 THEN r0 ELSE Next1(g[n - 1])]
             Turns == {k \in Nat : \E g : Good(g, k)}
  <1>1. 0 \in Turns
    <2>1. Good([n \in 0 .. 0 |-> r0], 0)
      <3> HIDE DEF r0, Next1
      <3> QED
        OBVIOUS
    <2> QED
      BY <2>1
  <1>2. ASSUME NEW k \in Nat, k \in Turns PROVE k + 1 \in Turns
    <2>1. PICK g : Good(g, k)
      BY <1>2
    <2> HIDE DEF r0, Next1
    <2> DEFINE h == [n \in 0 .. k + 1 |-> IF n = k + 1 THEN Next1(g[k]) ELSE g[n]]
    <2>2. \A n \in 0 .. k : g[n] = IF n = 0 THEN r0 ELSE Next1(g[n - 1])
      <3>1. g = [n \in 0 .. k |-> IF n = 0 THEN r0 ELSE Next1(g[n - 1])]
        BY <2>1
      <3> QED
        BY <3>1
    <2>3. ASSUME NEW n \in 0 .. k + 1
          PROVE  h[n] = IF n = 0 THEN r0 ELSE Next1(h[n - 1])
      <3>1. CASE n = k + 1
        <4>1. n - 1 = k /\ k \in 0 .. k + 1 /\ k # k + 1 /\ n # 0
          BY <3>1
        <4>2. h[k] = g[k] /\ h[n] = Next1(g[k])
          BY <3>1, <4>1
        <4> QED
          BY <3>1, <4>1, <4>2
      <3>2. CASE n \in 0 .. k
        <4>1. h[n] = g[n] /\ (n # 0 => h[n - 1] = g[n - 1])
          BY <3>2
        <4> QED
          BY <2>2, <3>2, <4>1
      <3> QED
        BY <3>1, <3>2
    <2>4. h = [n \in 0 .. k + 1 |-> h[n]]
      OBVIOUS
    <2>5. Good(h, k + 1)
      <3> HIDE DEF h
      <3>1. [n \in 0 .. k + 1 |-> h[n]]
              = [n \in 0 .. k + 1 |-> IF n = 0 THEN r0 ELSE Next1(h[n - 1])]
        BY <2>3
      <3> QED
        BY <2>4, <3>1
    <2> QED
      <3> HIDE DEF Good, h
      <3> QED
        BY <2>5
  <1>4. \E g : Good(g, limit)
    <2>1. limit \in Turns
      <3> HIDE DEF Turns
      <3> QED
        BY <1>1, <1>2, AllNaturals
    <2> HIDE DEF Good
    <2> QED
      BY <2>1
  <1> DEFINE T == CHOOSE g : Good(g, limit)
  <1>5. DecodeInto(d, data, limit) = T[limit]
    BY DEF DecodeInto
  <1>6. Good(T, limit)
    <2> HIDE DEF Good
    <2> QED
      BY <1>4
  <1> HIDE DEF T
  <1>7. \A n \in 0 .. limit : T[n] = IF n = 0 THEN r0 ELSE Next1(T[n - 1])
    <2> HIDE DEF Next1, r0
    <2>1. T = [n \in 0 .. limit |-> IF n = 0 THEN r0 ELSE Next1(T[n - 1])]
      BY <1>6
    <2> QED
      BY <2>1
  <1> DEFINE Fine(n) == /\ Midway(T[n], d, data, limit) /\ Told(T[n])
                        /\ GoesOn(T[n], limit) => n <= Len(T[n].output)
             Fines == {n \in Nat : n + 1 <= limit => Fine(n + 1)}
  <1>8. Midway(r0, d, data, limit)
    <2>1. d = [d EXCEPT !.seen = d.seen, !.given = d.given]
      BY DEF States
    <2>2. d.given \in Nat /\ Output(d.seen) \in Seq(Symbols)
      BY OutputsType, LenProperties DEF Sound, Output, Bytestrings
    <2>3. Begins(Output(d.seen), Output(d.seen))
      BY <2>2, LenProperties DEF Begins
    <2>4. <<>> \in Seq(Symbols) /\ Len(<<>>) = 0
      BY EmptySeq
    <2> QED
      BY <2>1, <2>2, <2>3, <2>4 DEF Midway
  <1>9. 0 \in Fines
    <2>1. T[1] = Turn(r0, limit)
      <3>1. GoesOn(r0, limit)
        BY EmptySeq DEF GoesOn
      <3>2. T[0] = r0 /\ T[1] = Next1(T[0])
        <4> HIDE DEF r0, Next1
        <4> QED
          BY <1>7
      <3> HIDE DEF r0
      <3> QED
        BY <3>1, <3>2
    <2> HIDE DEF r0
    <2>2. Midway(T[1], d, data, limit) /\ Told(T[1])
      BY <1>8, <2>1, TurnKeeps
    <2>3. Len(r0.output) = 0
      BY EmptySeq DEF r0
    <2>4. GoesOn(T[1], limit) => 1 <= Len(T[1].output)
      <3>1. T[1].status = "NeedsOutput" => 0 < Len(T[1].output)
        BY <1>8, <2>1, <2>3, TurnKeeps
      <3>2. Len(T[1].output) \in Nat
        BY <2>2, LenProperties DEF Midway
      <3> QED
        BY <3>1, <3>2 DEF GoesOn
    <2> QED
      BY <2>2, <2>4
  <1>10. ASSUME NEW n \in Nat, n \in Fines PROVE n + 1 \in Fines
    <2> SUFFICES ASSUME n + 2 <= limit PROVE Fine(n + 2)
      OBVIOUS
    <2>1. Fine(n + 1)
      BY <1>10
    <2>2. T[n + 2] = Next1(T[n + 1])
      <3>1. n + 2 \in 0 .. limit /\ n + 2 # 0 /\ (n + 2) - 1 = n + 1
        OBVIOUS
      <3> HIDE DEF Next1
      <3> QED
        BY <1>7, <3>1
    <2>3. CASE ~GoesOn(T[n + 1], limit)
      BY <2>1, <2>2, <2>3
    <2>4. CASE GoesOn(T[n + 1], limit)
      <3> DEFINE a == T[n + 1]  b == T[n + 2]
      <3>1. b = Turn(a, limit)
        BY <2>2, <2>4
      <3>2. Midway(a, d, data, limit) /\ n + 1 <= Len(a.output) /\ Len(a.output) # limit
        BY <2>1, <2>4 DEF GoesOn
      <3> HIDE DEF a, b
      <3>3. Len(a.output) \in Nat /\ Len(a.output) < limit
        BY <3>2, LenProperties DEF Midway
      <3>4. Midway(b, d, data, limit) /\ Told(b)
        BY <3>1, <3>2, TurnKeeps
      <3>5. b.status = "NeedsOutput" => Len(a.output) < Len(b.output)
        BY <3>1, <3>2, <3>3, TurnKeeps
      <3>6. Len(b.output) \in Nat
        BY <3>4, LenProperties DEF Midway
      <3>7. GoesOn(b, limit) => n + 2 <= Len(b.output)
        BY <3>2, <3>3, <3>5, <3>6 DEF GoesOn
      <3> QED
        BY <3>4, <3>7 DEF b
    <2> QED
      BY <2>3, <2>4
  <1>11. limit - 1 \in Fines
    <2>1. limit - 1 \in Nat
      OBVIOUS
    <2> HIDE DEF Fines
    <2> QED
      BY <1>9, <1>10, <2>1, AllNaturals
  <1>12. Fine(limit)
    <2>1. (limit - 1) + 1 = limit
      OBVIOUS
    <2> QED
      BY <1>11, <2>1
  <1>13. ~GoesOn(T[limit], limit)
    <2>1. Len(T[limit].output) \in Nat /\ Len(T[limit].output) <= limit
      BY <1>12, LenProperties DEF Midway
    <2> QED
      BY <1>12, <2>1 DEF GoesOn
  <1> QED
    BY <1>5, <1>12, <1>13

(***************************************************************************)
(* The object: what it was given and what it gave out.                     *)
(***************************************************************************)
\* All that was accepted is decoded, held or unused, in that order, and what
\* was returned is the output of what is decoded, as far as it was given out.
Exact(s, took, gave) ==
  /\ Sound(s)
  /\ took = (s.seen \o s.tail) \o s.unused
  /\ gave \in Seq(Symbols) /\ Len(gave) = s.given
  /\ \A i \in 1 .. s.given : gave[i] = Output(s.seen)[i]
  /\ ~IsFinished(s) => s.unused = <<>>
  /\ IsFinished(s) => s.tail = <<>>
  /\ ~s.pending => s.tail = <<>> /\ s.given = Len(Output(s.seen)) /\ ~Last(s.seen, "bad")

LEMMA ProcessKeeps ==
  ASSUME NEW s \in States, ~s.failed, NEW took \in Bytestrings, NEW gave,
         Exact(s, took, gave), NEW data \in Bytestrings, NEW limit \in Nat \ {0},
         NEW r, r = Process(s, data, limit)
  PROVE  /\ r.state \in States
         /\ ~r.state.failed =>
              Exact(r.state, IF r.ok THEN took \o data ELSE took, gave \o r.output)
  <1>1. /\ s.seen \in Bytestrings /\ s.tail \in Bytestrings /\ s.unused \in Bytestrings
        /\ s.given \in Nat /\ <<>> \in Bytestrings
    BY EmptySeq DEF States, Bytestrings
  <1>2. gave \o <<>> = gave /\ took \o <<>> = took
    BY ConcatEmptySeq DEF Exact, Bytestrings
  <1>3. CASE r.state = s /\ r.output = <<>> /\ (r.ok => data = <<>>)
    BY <1>2, <1>3
  <1>4. CASE /\ ~IsFinished(s)
             /\ (s.pending \/ s.tail # <<>>) => data = <<>>
    <2> DEFINE in == IF s.tail = <<>> THEN data ELSE s.tail
               q == DecodeInto(s, in, limit)
               after == [q.d EXCEPT
                           !.tail = IF q.status = "NeedsOutput" THEN q.rest ELSE <<>>,
                           !.unused = IF q.status = "Finished" THEN q.rest ELSE @,
                           !.pending = q.status = "NeedsOutput"]
    <2>1. in \in Bytestrings
      BY <1>1
    <2>2. r = IF q.status = "Error"
              THEN Raises([q.d EXCEPT !.tail = <<>>, !.failed = TRUE])
              ELSE [state |-> after, output |-> q.output, ok |-> TRUE]
      BY <1>4 DEF Process
    <2>3. Sound(s)
      BY DEF Exact
    <2> HIDE DEF in, q
    <2>4. Midway(q, s, in, limit) /\ Told(q)
      BY <2>1, <2>3, DecodeLoopEnds DEF q
    <2>5. /\ q.d \in States /\ q.rest \in Bytestrings
          /\ q.d = [s EXCEPT !.seen = q.d.seen, !.given = q.d.given]
      <3>1. q.d.seen \in Bytestrings /\ q.d.given \in Nat /\ q.rest \in Bytestrings
            /\ q.d = [s EXCEPT !.seen = q.d.seen, !.given = q.d.given]
        BY <2>4 DEF Midway, Sound
      <3> DEFINE a == q.d.seen  g == q.d.given
      <3>2. [s EXCEPT !.seen = a, !.given = g] \in States
        <4>1. a \in Bytestrings /\ g \in Nat
          BY <3>1
        <4> HIDE DEF a, g
        <4> QED
          BY <4>1 DEF States
      <3> QED
        BY <3>1, <3>2
    <2>6. CASE q.status = "Error"
      <3>1. r.state = [q.d EXCEPT !.tail = <<>>, !.failed = TRUE]
        BY <2>2, <2>6 DEF Raises
      <3> QED
        BY <1>1, <2>5, <3>1 DEF States
    <2>7. CASE q.status # "Error"
      <3>1. r.state = after /\ r.output = q.output /\ r.ok = TRUE
        BY <2>2, <2>7
      <3>2. /\ after \in States /\ after.seen = q.d.seen /\ after.given = q.d.given
            /\ after.tail = IF q.status = "NeedsOutput" THEN q.rest ELSE <<>>
            /\ after.unused = IF q.status = "Finished" THEN q.rest ELSE <<>>
            /\ after.pending = (q.status = "NeedsOutput")
            /\ after.failed = FALSE
        <4>1. s.unused = <<>> /\ q.d.unused = s.unused /\ q.d.failed = s.failed
          BY <1>4, <2>5 DEF Exact, States
        <4> QED
          BY <1>1, <2>5, <4>1 DEF States
      <3> HIDE DEF after
      <3>3. took \o data = s.seen \o in
        <4>1. took = s.seen \o s.tail
          <5>1. s.seen \o s.tail \in Bytestrings /\ s.unused = <<>>
            BY <1>1, <1>4, ConcatProperties DEF Exact, Bytestrings
          <5> QED
            BY <5>1, ConcatEmptySeq DEF Exact, Bytestrings
        <4>2. CASE s.tail = <<>>
          BY <1>1, <4>1, <4>2, ConcatEmptySeq DEF in, Bytestrings
        <4>3. CASE s.tail # <<>>
          BY <1>2, <1>4, <4>1, <4>3 DEF in
        <4> QED
          BY <4>2, <4>3
      <3>4. took \o data = (after.seen \o after.tail) \o after.unused
        <4>1. took \o data = q.d.seen \o q.rest
          BY <2>4, <3>3 DEF Midway
        <4>2. q.d.seen \in Bytestrings /\ q.d.seen \o q.rest \in Bytestrings
          BY <2>5, ConcatProperties DEF States, Bytestrings
        <4>3. q.d.seen \o <<>> = q.d.seen /\ (q.d.seen \o q.rest) \o <<>> = q.d.seen \o q.rest
          BY <4>2, ConcatEmptySeq DEF Bytestrings
        <4>4. q.status = "NeedsInput" => q.rest = <<>>
          BY <2>4 DEF Told, Truthful
        <4> QED
          BY <2>4, <2>7, <3>2, <4>1, <4>3, <4>4 DEF Told
      <3> DEFINE g == s.given  out == q.output  n == Len(q.output)
      <3>5. /\ gave \in Seq(Symbols) /\ Len(gave) = g /\ g \in Nat /\ g <= Len(Output(s.seen))
            /\ out \in Seq(Symbols) /\ Len(out) = n /\ n \in Nat
            /\ after.given = g + n
        BY <1>1, <2>4, <3>2, LenProperties DEF Exact, Sound, Midway
      <3>6. /\ gave \o out \in Seq(Symbols) /\ Len(gave \o out) = after.given
            /\ \A i \in 1 .. g + n :
                 (gave \o out)[i] = IF i <= g THEN gave[i] ELSE out[i - g]
        <4> HIDE DEF g, n, out
        <4>1. gave \in Seq(Symbols) /\ out \in Seq(Symbols) /\ Len(gave) = g /\ Len(out) = n
          BY <3>5
        <4>2. /\ gave \o out \in Seq(Symbols) /\ Len(gave \o out) = g + n
              /\ \A i \in 1 .. g + n :
                   (gave \o out)[i] = IF i <= g THEN gave[i] ELSE out[i - g]
          BY <4>1, ConcatProperties
        <4> QED
          BY <3>5, <4>2
      <3>7. ASSUME NEW i \in 1 .. after.given
            PROVE  (gave \o out)[i] = Output(after.seen)[i]
        <4>1. CASE i <= g
          <5>1. i \in 1 .. g /\ i \in 1 .. Len(Output(s.seen)) /\ i \in 1 .. g + n
            <6>1. Len(Output(s.seen)) \in Nat
              BY <1>1, OutputsType, LenProperties DEF Output, Bytestrings
            <6> HIDE DEF g, n
            <6> QED
              BY <3>5, <3>7, <4>1, <6>1
          <5>2. gave[i] = Output(s.seen)[i]
            BY <5>1 DEF Exact
          <5>3. Output(after.seen)[i] = Output(s.seen)[i]
            BY <2>4, <3>2, <5>1 DEF Midway, Begins
          <5> QED
            BY <3>6, <4>1, <5>1, <5>2, <5>3
        <4>2. CASE ~(i <= g)
          <5>1. i - g \in 1 .. n /\ i \in 1 .. g + n /\ g + (i - g) = i
            <6> HIDE DEF g, n
            <6> QED
              BY <3>5, <3>7, <4>2
          <5>2. out[i - g] = Output(q.d.seen)[g + (i - g)]
            BY <2>4, <5>1 DEF Midway
          <5> QED
            BY <3>2, <3>6, <4>2, <5>1, <5>2
        <4> QED
          BY <4>1, <4>2
      <3>8. Sound(after)
        BY <2>4, <3>2 DEF Midway, Sound
      <3>9. /\ ~IsFinished(after) => after.unused = <<>>
            /\ IsFinished(after) => after.tail = <<>>
            /\ ~after.pending =>
                 /\ after.tail = <<>> /\ after.given = Len(Output(after.seen))
                 /\ ~Last(after.seen, "bad")
        <4>1. q.status \in {"NeedsInput", "NeedsOutput", "Finished"}
          BY <2>4, <2>7 DEF Told
        <4>2. Truthful(q.status, after.seen, after.given, q.rest)
          BY <2>4, <3>2 DEF Told
        <4>3. ~(Last(after.seen, "bad") /\ Last(after.seen, "end"))
          BY DEF Last
        <4> QED
          BY <3>2, <4>1, <4>2, <4>3 DEF IsFinished, Truthful, Closed
      <3> QED
        BY <3>1, <3>2, <3>4, <3>6, <3>7, <3>8, <3>9 DEF Exact
    <2> QED
      BY <2>6, <2>7
  <1> QED
    BY <1>3, <1>4 DEF Process, Raises

\* Output and input are accounted for, whichever object it is.
ObjectInv ==
  /\ state \in States /\ accepted \in Bytestrings
  /\ object = "Decompressor" =>
       ~finished /\ (~poisoned /\ ~state.failed => Exact(state, accepted, returned))
  /\ finished /\ ~poisoned => returned = accepted
  /\ poisoned => owner = None

CallsFit ==
  \A t \in Threads :
    /\ call[t].op \in {"compress", "flush", "finish"} => object = "Compressor"
    /\ call[t].op = "decompress" => object = "Decompressor" /\ call[t].limit \in Limits

DataInv == ObjectInv /\ CallsFit

LEMMA DataInitially == Init => DataInv
  <1> SUFFICES ASSUME Init PROVE DataInv
    OBVIOUS
  <1>1. /\ <<>> \in Bytestrings /\ <<>> \in Seq(Symbols) /\ Len(<<>>) = 0
        /\ NewState \in States
    BY EmptySeq DEF Bytestrings, States, NewState
  <1>2. <<>> \o <<>> = <<>>
    BY ConcatEmptySeq, EmptySeq
  <1>3. Output(<<>>) = <<>>
    BY <1>1, OutputsStep DEF Output
  <1>4. Exact(NewState, <<>>, <<>>)
    BY <1>1, <1>2, <1>3 DEF Exact, NewState, Sound, OnlyLast, IsFinished, Last
  <1> QED
    BY <1>1, <1>4 DEF Init, DataInv, ObjectInv, CallsFit, NoCall

\* Steps that leave the object alone.
LEMMA DataAlone ==
  ASSUME DataInv, LockInv, UNCHANGED <<object, objectVars>>,
         UNCHANGED call \/ (\E t \in Threads : call' = [call EXCEPT ![t] = NoCall]),
         poisoned => owner' = None
  PROVE  DataInv'
  <1>1. ObjectInv'
    BY DEF DataInv, ObjectInv, objectVars
  <1>2. CallsFit'
    <2> SUFFICES ASSUME NEW u \in Threads
                 PROVE  /\ call'[u].op \in {"compress", "flush", "finish"}
                             => object = "Compressor"
                        /\ call'[u].op = "decompress"
                             => object = "Decompressor" /\ call'[u].limit \in Limits
      BY DEF CallsFit
    <2>1. call'[u] = call[u] \/ call'[u] = NoCall
      BY DEF LockInv, TypeOK
    <2> QED
      BY <2>1 DEF DataInv, CallsFit, NoCall
  <1> QED
    BY <1>1, <1>2 DEF DataInv

LEMMA DataBegin ==
  ASSUME DataInv, LockInv, NEW t \in Threads,
         NEW op, NEW s, NEW limit, NEW next, Begin(t, op, s, limit, next),
         op \in {"compress", "flush", "finish"} => object = "Compressor",
         op = "decompress" => object = "Decompressor" /\ limit \in Limits
  PROVE  DataInv'
  <1>1. /\ UNCHANGED <<object, owner, objectVars>>
        /\ call' = [call EXCEPT ![t] =
             [op |-> op, string |-> s, limit |-> limit,
              want |-> IF s = None THEN <<>> ELSE text[s]]]
    BY DEF Begin
  <1>2. ObjectInv'
    BY <1>1 DEF DataInv, ObjectInv, objectVars
  <1>3. CallsFit'
    BY <1>1 DEF DataInv, CallsFit, LockInv, TypeOK
  <1> QED
    BY <1>2, <1>3 DEF DataInv

LEMMA DataBegins ==
  ASSUME DataInv, LockInv, NEW t \in Threads,
         BeginDecompress(t) \/ BeginRead(t) \/ BeginCompress(t) \/ BeginModule(t)
  PROVE  DataInv'
  <1>1. CASE BeginDecompress(t)
    <2>1. PICK s \in Strings, limit \in Limits :
            Begin(t, "decompress", s, limit, Route(Len(text[s]) + limit >= GvlThreshold))
      BY <1>1 DEF BeginDecompress
    <2>2. object = "Decompressor"
      BY <1>1 DEF BeginDecompress
    <2> QED
      BY <2>1, <2>2, DataBegin
  <1>2. CASE BeginRead(t)
    BY <1>2, DataBegin DEF BeginRead
  <1>3. CASE BeginCompress(t)
    BY <1>3, DataBegin DEF BeginCompress
  <1>4. CASE BeginModule(t)
    BY <1>4, DataBegin DEF BeginModule
  <1> QED
    BY <1>1, <1>2, <1>3, <1>4

LEMMA DataWork ==
  ASSUME DataInv, LockInv, NEW t \in Threads, Work(t)
  PROVE  DataInv'
  <1>1. /\ EndWork(t) /\ pc[t] = "run" /\ UNCHANGED <<object, call>>
        /\ owner' = IF owner = t THEN None ELSE owner
    BY DEF Work, RunDecompress, RunCompress, RunFlush, RunFinish, RunOther, Panic,
           EndWork, DropGuard, GuardScope
  <1>2. CallsFit'
    BY <1>1 DEF DataInv, CallsFit
  <1>3. HasMutex(t) => owner = t /\ owner' = None /\ ~poisoned
    BY <1>1, RubyAssumption DEF LockInv, OwnerWorks, DataInv, ObjectInv
  <1>4. Bytes(t) \in Bytestrings
    <2>1. HoldsBytes(t) /\ call[t].want \in Bytestrings
      BY <1>1 DEF LockInv, StableInv, TypeOK
    <2> QED
      BY <2>1 DEF HoldsBytes, Bytes
  <1>5. ObjectInv'
    <2>1. CASE RunDecompress(t)
      <3> DEFINE r == Process(state, Bytes(t), call[t].limit)
      <3>1. /\ object = "Decompressor" /\ call[t].limit \in Nat \ {0} /\ HasMutex(t)
        BY <2>1, RubyAssumption DEF RunDecompress, DataInv, CallsFit, HasMutex
      <3>2. /\ state' = r.state /\ UNCHANGED <<poisoned, finished>>
            /\ accepted' = IF r.ok THEN accepted \o Bytes(t) ELSE accepted
            /\ returned' = returned \o r.output
        BY <2>1 DEF RunDecompress
      <3>3. accepted' \in Bytestrings
        BY <1>4, <3>2, ConcatProperties DEF DataInv, ObjectInv, Bytestrings
      <3>4. CASE state.failed
        <4>1. r.state = state
          BY <3>4 DEF Process, Raises
        <4> QED
          BY <1>1, <1>3, <3>1, <3>2, <3>3, <3>4, <4>1 DEF DataInv, ObjectInv
      <3>5. CASE ~state.failed
        <4>1. state \in States /\ Exact(state, accepted, returned) /\ ~finished
              /\ accepted \in Bytestrings
          BY <1>3, <3>1, <3>5 DEF DataInv, ObjectInv
        <4>2. /\ r.state \in States
              /\ ~r.state.failed =>
                   Exact(r.state, IF r.ok THEN accepted \o Bytes(t) ELSE accepted,
                         returned \o r.output)
          BY <1>4, <3>1, <3>5, <4>1, ProcessKeeps
        <4> HIDE DEF r
        <4> QED
          BY <1>1, <1>3, <3>1, <3>2, <3>3, <4>1, <4>2 DEF ObjectInv
      <3> QED
        BY <3>4, <3>5
    <2>2. CASE RunCompress(t)
      <3>1. object = "Compressor" /\ HasMutex(t)
        BY <2>2 DEF RunCompress, DataInv, CallsFit, HasMutex
      <3>2. /\ UNCHANGED <<poisoned, state, finished>>
            /\ accepted' = accepted \/ accepted' = accepted \o Bytes(t)
            /\ finished => UNCHANGED <<accepted, returned>>
        BY <2>2 DEF RunCompress
      <3>3. accepted' \in Bytestrings
        BY <1>4, <3>2, ConcatProperties DEF DataInv, ObjectInv, Bytestrings
      <3> QED
        BY <1>1, <1>3, <3>1, <3>2, <3>3 DEF DataInv, ObjectInv
    <2>3. CASE RunFlush(t) \/ RunFinish(t)
      <3>1. object = "Compressor" /\ HasMutex(t)
        BY <2>3 DEF RunFlush, RunFinish, DataInv, CallsFit, HasMutex
      <3>2. /\ UNCHANGED <<poisoned, state, accepted>>
            /\ returned' = IF finished THEN returned ELSE accepted
        BY <2>3 DEF RunFlush, RunFinish
      <3> QED
        BY <1>1, <1>3, <3>1, <3>2 DEF DataInv, ObjectInv
    <2>4. CASE RunOther(t)
      BY <1>1, <2>4 DEF RunOther, objectVars, DataInv, ObjectInv
    <2>5. CASE Panic(t)
      <3>1. HasMutex(t)
        BY <2>5 DEF Panic, HasMutex
      <3>2. state' \in States /\ accepted' \in Bytestrings /\ poisoned' = TRUE
        BY <2>5, EmptySeq DEF Panic, DataInv, ObjectInv, States, Bytestrings
      <3>3. object = "Decompressor" => ~finished'
        BY <2>5 DEF Panic, DataInv, CallsFit
      <3> QED
        BY <1>1, <1>3, <3>1, <3>2, <3>3 DEF ObjectInv
    <2> QED
      BY <2>1, <2>2, <2>3, <2>4, <2>5 DEF Work
  <1> QED
    BY <1>2, <1>5 DEF DataInv

LEMMA DataStep == DataInv /\ LockInv /\ [Next]_vars => DataInv'
  <1> SUFFICES ASSUME DataInv, LockInv, [Next]_vars PROVE DataInv'
    OBVIOUS
  <1>1. CASE UNCHANGED vars
    <2>1. poisoned => owner' = None
      BY <1>1 DEF vars, DataInv, ObjectInv
    <2> QED
      BY <1>1, <2>1, DataAlone DEF vars
  <1>2. CASE Next
    <2>1. PICK t \in Threads :
            \/ \E s \in Strings : Change(t, s)
            \/ BeginDecompress(t) \/ BeginRead(t) \/ BeginCompress(t) \/ BeginModule(t)
            \/ Locking(t) \/ Work(t) \/ RegainGvl(t) \/ Return(t)
      BY <1>2 DEF Next
    <2>2. CASE (\E s \in Strings : Change(t, s)) \/ Locking(t) \/ RegainGvl(t)
      <3>1. UNCHANGED <<object, objectVars, call>>
        BY <2>2 DEF Change, Locking, TryLock, ReleaseGvl, Lock, RegainGvl
      <3>2. poisoned => owner' = None
        BY <2>2 DEF Change, Locking, TryLock, ReleaseGvl, Lock, RegainGvl, DataInv,
                    ObjectInv
      <3> QED
        BY <3>1, <3>2, DataAlone
    <2>3. CASE Return(t)
      <3>1. UNCHANGED <<object, objectVars, owner>> /\ call' = [call EXCEPT ![t] = NoCall]
        BY <2>3 DEF Return, DropGuard, GuardScope
      <3>2. poisoned => owner' = None
        BY <3>1 DEF DataInv, ObjectInv
      <3> QED
        BY <3>1, <3>2, DataAlone
    <2> QED
      BY <2>1, <2>2, <2>3, DataBegins, DataWork
  <1> QED
    BY <1>1, <1>2

\* Where the stream ends in what was accepted, when all of it is decoded.
LEMMA StreamEnds ==
  ASSUME NEW seen \in Bytestrings, NEW more \in Bytestrings, OnlyLast(seen),
         more # <<>> => Last(seen, "end")
  PROVE  StreamLen(seen \o more) = Len(seen)
  <1> DEFINE s == seen \o more
  <1>1. /\ s \in Seq(Elements) /\ Len(s) = Len(seen) + Len(more)
        /\ Len(seen) \in Nat /\ Len(more) \in Nat
        /\ \A i \in 1 .. Len(seen) : s[i] = seen[i]
    BY ConcatProperties, LenProperties DEF Bytestrings
  <1> HIDE DEF s
  <1>2. CASE seen = <<>>
    <2>1. more = <<>> /\ Len(seen) = 0
      BY <1>2, EmptySeq DEF Last
    <2>2. s = <<>>
      BY <1>1, <2>1, EmptySeq
    <2> QED
      BY <2>1, <2>2 DEF StreamLen, s
  <1>3. CASE seen # <<>>
    <2> DEFINE Here(n) == EndsAt(s, n) /\ \A m \in 1 .. n - 1 : ~EndsAt(s, m)
    <2>1. Len(seen) \in 1 .. Len(s) /\ s # <<>>
      <3>1. Len(seen) # 0
        BY <1>3, EmptySeq DEF Bytestrings
      <3> QED
        BY <1>1, <3>1, EmptySeq
    <2>2. \A m \in 1 .. Len(seen) - 1 : ~EndsAt(s, m)
      <3> SUFFICES ASSUME NEW m \in 1 .. Len(seen) - 1 PROVE ~EndsAt(s, m)
        OBVIOUS
      <3>1. m # Len(s) /\ m \in 1 .. Len(seen)
        BY <1>1
      <3> QED
        BY <1>1, <3>1 DEF EndsAt, OnlyLast
    <2>3. EndsAt(s, Len(seen))
      <3>1. CASE more = <<>>
        <4>1. Len(s) = Len(seen)
          BY <1>1, <3>1, EmptySeq
        <4> QED
          BY <4>1 DEF EndsAt
      <3>2. CASE more # <<>>
        BY <1>1, <2>1, <3>2 DEF EndsAt, Last
      <3> QED
        BY <3>1, <3>2
    <2>4. ASSUME NEW n \in 1 .. Len(s), Here(n) PROVE n = Len(seen)
      <3>1. ~(Len(seen) < n)
        <4>1. Len(seen) < n => Len(seen) \in 1 .. n - 1
          BY <1>1, <2>1
        <4> QED
          BY <2>3, <2>4, <4>1
      <3>2. ~(n < Len(seen))
        <4>1. n < Len(seen) => n \in 1 .. Len(seen) - 1
          BY <1>1
        <4> QED
          BY <2>2, <2>4, <4>1
      <3> QED
        BY <1>1, <3>1, <3>2
    <2>5. Here(Len(seen))
      BY <2>2, <2>3
    <2>6. StreamLen(s) = CHOOSE n \in 1 .. Len(s) : Here(n)
      BY <2>1 DEF StreamLen
    <2> HIDE DEF Here
    <2>7. StreamLen(s) = Len(seen)
      BY <2>1, <2>4, <2>5, <2>6
    <2> QED
      BY <2>7 DEF s
  <1> QED
    BY <1>2, <1>3

LEMMA Split ==
  ASSUME NEW S, NEW a \in Seq(S), NEW b \in Seq(S)
  PROVE  /\ SubSeq(a \o b, 1, Len(a)) = a
         /\ SubSeq(a \o b, Len(a) + 1, Len(a \o b)) = b
  <1> DEFINE s == a \o b
  <1>1. /\ s \in Seq(S) /\ Len(s) = Len(a) + Len(b) /\ Len(a) \in Nat /\ Len(b) \in Nat
        /\ \A i \in 1 .. Len(a) + Len(b) : s[i] = IF i <= Len(a) THEN a[i] ELSE b[i - Len(a)]
    BY ConcatProperties, LenProperties
  <1> HIDE DEF s
  <1>2. SubSeq(s, 1, Len(a)) = a
    <2>1. /\ SubSeq(s, 0 + 1, Len(a)) \in Seq(S) /\ Len(SubSeq(s, 0 + 1, Len(a))) = Len(a) - 0
          /\ \A i \in 1 .. Len(a) - 0 : SubSeq(s, 0 + 1, Len(a))[i] = s[0 + i]
      BY <1>1, Piece
    <2> DEFINE u == SubSeq(s, 1, Len(a))
    <2>2. u \in Seq(S) /\ Len(u) = Len(a) /\ \A i \in 1 .. Len(a) : u[i] = s[i]
      BY <1>1, <2>1
    <2> HIDE DEF u
    <2>3. \A i \in 1 .. Len(a) : u[i] = a[i]
      BY <1>1, <2>2
    <2>4. u = a
      BY <2>2, <2>3, SeqEqual
    <2> QED
      BY <2>4 DEF u
  <1>3. SubSeq(s, Len(a) + 1, Len(s)) = b
    <2> DEFINE u == SubSeq(s, Len(a) + 1, Len(s))
    <2>1. /\ u \in Seq(S) /\ Len(u) = Len(s) - Len(a)
          /\ \A i \in 1 .. Len(s) - Len(a) : u[i] = s[Len(a) + i]
      BY <1>1, Piece
    <2> HIDE DEF u
    <2>2. ASSUME NEW i \in 1 .. Len(b) PROVE u[i] = b[i]
      <3>1. /\ Len(a) + i \in 1 .. Len(a) + Len(b) /\ ~(Len(a) + i <= Len(a))
            /\ (Len(a) + i) - Len(a) = i /\ i \in 1 .. Len(s) - Len(a)
        BY <1>1
      <3> QED
        BY <1>1, <2>1, <3>1
    <2>3. Len(u) = Len(b)
      BY <1>1, <2>1
    <2>4. u = b
      BY <2>1, <2>2, <2>3, SeqEqual
    <2> QED
      BY <2>4 DEF u
  <1> QED
    BY <1>2, <1>3 DEF s

LEMMA ExactReturns ==
  ASSUME NEW s \in States, NEW took \in Bytestrings, NEW gave, Exact(s, took, gave),
         CanAcceptMoreData(s) \/ IsFinished(s)
  PROVE  LET n == StreamLen(took) IN
         /\ gave = Output(SubSeq(took, 1, n))
         /\ s.unused = SubSeq(took, n + 1, Len(took))
  <1>1. /\ s.seen \in Bytestrings /\ s.unused \in Bytestrings /\ s.tail = <<>>
        /\ s.given = Len(Output(s.seen))
    BY DEF States, Exact, CanAcceptMoreData, IsFinished
  <1>2. took = s.seen \o s.unused
    BY <1>1, ConcatEmptySeq DEF Exact, Bytestrings
  <1>3. StreamLen(took) = Len(s.seen)
    <2>1. OnlyLast(s.seen)
      BY DEF Exact, Sound
    <2>2. s.unused # <<>> => Last(s.seen, "end")
      BY DEF Exact, IsFinished
    <2> QED
      BY <1>1, <1>2, <2>1, <2>2, StreamEnds
  <1>4. SubSeq(took, 1, Len(s.seen)) = s.seen
        /\ SubSeq(took, Len(s.seen) + 1, Len(took)) = s.unused
    BY <1>1, <1>2, Split DEF Bytestrings
  <1>5. gave = Output(s.seen)
    <2>1. Output(s.seen) \in Seq(Symbols)
      BY <1>1, OutputsType, LenProperties DEF Output, Bytestrings
    <2> QED
      BY <1>1, <2>1, SeqEqual DEF Exact
  <1> QED
    BY <1>3, <1>4, <1>5

\* However calls of several threads interleave, and with any limits, a
\* Decompressor that takes more input or is finished has returned all output
\* of the input it took, each byte once, and unused_data is what follows the
\* stream; a finished Compressor has put out all of its input
\* (DecoderState::process, decode, compressor_finish).
THEOREM ReturnsExactly == Spec => []ReturnedExact
  <1>1. DataInv => ReturnedExact
    <2> SUFFICES ASSUME DataInv PROVE ReturnedExact
      OBVIOUS
    <2>1. finished /\ ~poisoned => returned = accepted
      BY DEF DataInv, ObjectInv
    <2>2. ASSUME object = "Decompressor", ~poisoned, ~state.failed,
                 CanAcceptMoreData(state) \/ IsFinished(state)
          PROVE  LET n == StreamLen(accepted) IN
                 /\ returned = Output(SubSeq(accepted, 1, n))
                 /\ state.unused = SubSeq(accepted, n + 1, Len(accepted))
      <3>1. state \in States /\ accepted \in Bytestrings /\ Exact(state, accepted, returned)
        BY <2>2 DEF DataInv, ObjectInv
      <3> QED
        BY <2>2, <3>1, ExactReturns
    <2> QED
      BY <2>1, <2>2 DEF ReturnedExact
  <1>2. Spec => []DataInv
    BY DataInitially, DataStep, Locks, PTL DEF Spec
  <1> QED
    BY <1>1, <1>2, PTL
=============================================================================
