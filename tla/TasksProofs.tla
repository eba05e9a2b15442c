---------------------------- MODULE TasksProofs -----------------------------
(***************************************************************************)
(* TLAPS proofs about the task table, exit_task and the ring of exit codes *)
(* for any number of slots and pids, with and without threads.             *)
(***************************************************************************)
EXTENDS Tasks, SequenceTheorems, TLAPS

FrameType == [slot : Slots, i : Nat \ {0}]
EntryType == [pid : Pids, exit_code : Int]

Types == TypeOK /\ exited \in Seq(Pids \X Int)

(* Who has exited is no longer active, and no pid of theirs comes again.   *)
Dead == \A k \in 1 .. Len(exited) : /\ exited[k][1] < current_pid
                                    /\ \A s \in active : pid[s] # exited[k][1]

(* The activations of exit_task are of different tasks, none of them       *)
(* active; an exception or an abort has the current task at the bottom of  *)
(* the stack, and once that one is finished the kernel context is loaded.  *)
FramesOK ==
    /\ mode \in {"kernel", "hlt"} =>
          /\ \A j \in 1 .. Len(frames) : frames[j].slot \notin active
          /\ \A j, k \in 1 .. Len(frames) : frames[j].slot = frames[k].slot => j = k
          /\ origin # "syscall" /\ frames # <<>> => frames[1].slot = current_task /\ parent[current_task] = NOPARENT
    /\ mode = "kernel" => \A j \in 1 .. Len(frames) : frames[j].slot \in taken
    /\ mode = "hlt" => /\ frames # <<>> /\ Top.slot = current_task
                       /\ parent[current_task] = NOPARENT => cr3 = KERNEL
                       /\ \A j \in 1 .. Len(frames) - 1 : frames[j].slot \in taken
    /\ mode = "kernel" /\ frames = <<>> /\ origin # "syscall" => current_task \notin active /\ cr3 = KERNEL
    /\ mode = "user" => frames = <<>> /\ (current_task \notin active => cr3 = KERNEL)

(* Before the first thread, each slot in use has the context of its pid.   *)
Clean ==
    ~threaded =>
       /\ \A s \in Slots : parent[s] = NOPARENT /\ threads[s] = <<>>
       /\ \A s \in taken : ctx[s] = pid[s]
       /\ contexts = {ctx[s] : s \in taken}
       /\ Len(frames) <= 1
       /\ cr3 = KERNEL \/ (current_task \in taken /\ cr3 = ctx[current_task])
       /\ current_task \in active => cr3 = ctx[current_task]
       /\ NoSlotLeak
       /\ mode = "hlt" => current_task \notin taken
       /\ mode = "kernel" /\ intr => frames = <<>>
       /\ mode = "kernel" /\ frames # <<>> => current_task \in taken

(* The ring holds the last MAX_TASKS exits, the oldest at the index that   *)
(* is written next.                                                        *)
RingOK ==
    /\ exit_codes_idx = Len(exited) % MaxTasks
    /\ \A k \in RecentExits : exit_codes[(k - 1) % MaxTasks] = [pid |-> exited[k][1], exit_code |-> exited[k][2]]
    /\ \A i \in Slots : i < Len(exited) => \E k \in RecentExits : (k - 1) % MaxTasks = i
    /\ \A i \in Slots : i >= Len(exited) => exit_codes[i].pid = 0

IInv == Types /\ UniquePids /\ Dead /\ FramesOK /\ Clean /\ RingOK
-----------------------------------------------------------------------------
(* Constants and arithmetic of the ring.                                   *)

LEMMA Constants == /\ MaxTasks \in Nat \ {0} /\ MaxPid \in Nat \ {0} /\ Codes \subseteq Int
                   /\ KERNEL \notin Pids /\ NOPARENT \notin Pids /\ KERNEL = -1 /\ NOPARENT = -1
                   /\ Slots = 0 .. MaxTasks - 1 /\ Slots \subseteq Nat /\ 0 \in Slots
                   /\ Pids = 0 .. MaxPid /\ Pids \subseteq Nat
  BY TasksAssumption DEF KERNEL, NOPARENT, Slots, Pids

LEMMA Division == ASSUME NEW M \in Nat \ {0}, NEW k \in Int, NEW q \in Int, NEW r \in Int,
                         q = k \div M, r = k % M
                  PROVE  k = q * M + r /\ r \in 0 .. M - 1
  BY Z3T(20)

LEMMA ModUnique ==
    ASSUME NEW M \in Nat \ {0}, NEW k \in Int, NEW q \in Int, NEW r \in 0 .. M - 1, k = q * M + r
    PROVE  k % M = r
  <1> DEFINE a == k \div M
             b == k % M
  <1>1. a \in Int /\ b \in Int /\ a = k \div M /\ b = k % M
    OBVIOUS
  <1> HIDE DEF a, b
  <1>2. k = a * M + b /\ b \in 0 .. M - 1
    BY <1>1, Division
  <1>3. (q - a) * M = b - r
    BY <1>1, <1>2
  <1>4. q - a <= -1 => (q - a) * M <= -M
    BY <1>1, Z3
  <1>5. q - a >= 1 => (q - a) * M >= M
    BY <1>1, Z3
  <1>6. q = a
    BY <1>1, <1>2, <1>3, <1>4, <1>5
  <1>7. QED BY <1>1, <1>2, <1>6

(* Two exits share an entry exactly when they are a multiple of the length *)
(* apart.                                                                  *)
LEMMA ModApart ==
    ASSUME NEW k \in Nat, NEW n \in Nat, k < n, n - k < MaxTasks
    PROVE  k % MaxTasks # n % MaxTasks
  <1> DEFINE M == MaxTasks
             a == k \div M
             b == n \div M
             r == k % M
             t == n % M
  <1>1. /\ M \in Nat \ {0} /\ a \in Int /\ b \in Int /\ r \in Int /\ t \in Int
        /\ a = k \div M /\ b = n \div M /\ r = k % M /\ t = n % M
    BY Constants
  <1>2. n - k \in 1 .. M - 1
    BY <1>1
  <1> HIDE DEF M, a, b, r, t
  <1>3. k = a * M + r /\ n = b * M + t
    BY <1>1, Division
  <1>4. r # t
    <2> SUFFICES ASSUME r = t PROVE FALSE
      OBVIOUS
    <2>0. M \in Int /\ a \in Int /\ b \in Int /\ r \in Int /\ k = a * M + r /\ n = b * M + r
      BY <1>1, <1>3
    <2>1. n - k = (b - a) * M
      BY ONLY <2>0, Z3
    <2>2. b - a <= 0 => (b - a) * M <= 0
      BY <1>1, Z3
    <2>3. b - a >= 1 => (b - a) * M >= M
      BY <1>1, Z3
    <2>4. QED BY <1>1, <1>2, <2>1, <2>2, <2>3
  <1>5. QED BY <1>4 DEF M, r, t

LEMMA ModSame == ASSUME NEW n \in Nat PROVE (n - MaxTasks) % MaxTasks = n % MaxTasks
  <1> DEFINE M == MaxTasks
             b == n \div M
             t == n % M
  <1>1. M \in Nat \ {0} /\ b \in Int /\ t \in Int /\ b = n \div M /\ t = n % M
    BY Constants
  <1> HIDE DEF M, b, t
  <1>2. n = b * M + t /\ t \in 0 .. M - 1
    BY <1>1, Division
  <1>3. n - M = (b - 1) * M + t /\ n - M \in Int /\ b - 1 \in Int
    BY <1>1, <1>2
  <1>4. (n - M) % M = t
    BY <1>1, <1>2, <1>3, ModUnique
  <1>5. QED BY <1>4 DEF M, t

LEMMA ModNext == ASSUME NEW n \in Nat PROVE ((n % MaxTasks) + 1) % MaxTasks = (n + 1) % MaxTasks
  <1> DEFINE M == MaxTasks
             b == n \div M
             t == n % M
  <1>1. M \in Nat \ {0} /\ b \in Int /\ t \in Int /\ b = n \div M /\ t = n % M
    BY Constants
  <1> HIDE DEF M, b, t
  <1>2. n = b * M + t /\ t \in 0 .. M - 1
    BY <1>1, Division
  <1>3. CASE t + 1 < M
    <2>1. n + 1 = b * M + (t + 1) /\ t + 1 = 0 * M + (t + 1) /\ t + 1 \in 0 .. M - 1
      BY <1>1, <1>2, <1>3
    <2> DEFINE k == n + 1
               r == t + 1
    <2>k. M \in Nat \ {0} /\ b \in Int /\ k \in Int /\ r \in 0 .. M - 1 /\ k = b * M + r
      BY <1>1, <2>1
    <2> HIDE DEF k, r
    <2>r. k % M = r
      BY ONLY <2>k, ModUnique
    <2>a. (n + 1) % M = t + 1
      BY <2>r DEF k, r
    <2>b. (t + 1) % M = t + 1
      BY <1>1, <2>1
    <2>2. (n + 1) % M = t + 1 /\ (t + 1) % M = t + 1
      BY <2>a, <2>b
    <2>3. QED BY <2>2 DEF M, t
  <1>4. CASE t + 1 = M
    <2>0. M \in Int /\ b \in Int /\ t = M - 1 /\ n = b * M + t /\ 0 \in 0 .. M - 1
      BY <1>1, <1>2, <1>4
    <2>1. n + 1 = (b + 1) * M + 0 /\ t + 1 = 1 * M + 0
      <3>1. (b + 1) * M = b * M + M
        BY ONLY <2>0, Z3
      <3>2. 1 * M = M
        BY ONLY <2>0, Z3
      <3>3. b * M \in Int
        BY ONLY <2>0, Z3
      <3>4. QED BY <2>0, <3>1, <3>2, <3>3
    <2>2. (n + 1) % M = 0 /\ (t + 1) % M = 0
      BY <1>1, <2>0, <2>1, ModUnique
    <2>3. QED BY <2>2 DEF M, t
  <1>5. QED BY <1>1, <1>2, <1>3, <1>4

LEMMA ModSlot == ASSUME NEW n \in Nat PROVE n % MaxTasks \in Slots
  BY Constants

LEMMA ModSmall == ASSUME NEW n \in Slots PROVE n % MaxTasks = n
  BY Constants

LEMMA ExitedShape ==
    ASSUME Types, NEW p \in Pids, NEW code \in Int, add_exit_code(p, code)
    PROVE  /\ Len(exited) \in Nat /\ exited' \in Seq(Pids \X Int) /\ Len(exited') = Len(exited) + 1
           /\ \A k \in 1 .. Len(exited) : exited'[k] = exited[k] /\ exited[k] \in Pids \X Int
           /\ exited'[Len(exited) + 1] = <<p, code>>
  <1>1. exited \in Seq(Pids \X Int) /\ <<p, code>> \in Pids \X Int /\ exited' = Append(exited, <<p, code>>)
    BY DEF Types, add_exit_code
  <1>2. QED BY <1>1, AppendProperties, LenProperties

(* The oldest of the recent exits is the one overwritten.                  *)
LEMMA RingStep ==
    ASSUME Types, RingOK, NEW p \in Pids, NEW code \in Int, add_exit_code(p, code)
    PROVE  RingOK' /\ exit_codes' \in [Slots -> EntryType] /\ exit_codes_idx' \in Slots
  <1> DEFINE n == Len(exited)
             N == MaxTasks
             idx == exit_codes_idx
             e == [pid |-> p, exit_code |-> code]
  <1>1. /\ n \in Nat /\ exited' \in Seq(Pids \X Int) /\ Len(exited') = n + 1
        /\ \A k \in 1 .. n : exited'[k] = exited[k]
        /\ exited'[n + 1] = <<p, code>>
    BY ExitedShape
  <1>2. /\ exit_codes \in [Slots -> EntryType] /\ idx \in Slots /\ idx = n % N
        /\ N \in Nat \ {0} /\ Slots = 0 .. N - 1
    BY Constants DEF Types, TypeOK, EntryType, RingOK
  <1>3. exit_codes' = [exit_codes EXCEPT ![idx] = e] /\ exit_codes_idx' = (idx + 1) % N
    BY DEF add_exit_code, NextIndex
  <1>4. e \in EntryType
    BY DEF EntryType
  <1>5. /\ exit_codes' \in [Slots -> EntryType] /\ exit_codes'[idx] = e
        /\ \A i \in Slots : i # idx => exit_codes'[i] = exit_codes[i]
    BY <1>2, <1>3, <1>4
  <1>6. exit_codes_idx' = (n + 1) % N /\ exit_codes_idx' \in Slots
    <2>1. ((n % N) + 1) % N = (n + 1) % N
      BY <1>1, ModNext
    <2>2. (n + 1) % N \in Slots
      BY <1>1, ModSlot
    <2>3. QED BY <1>2, <1>3, <2>1, <2>2
  <1>7. /\ \A k : k \in RecentExits <=> (k \in 1 .. n /\ k > n - N)
        /\ \A k : k \in RecentExits' <=> (k \in 1 .. n + 1 /\ k > n + 1 - N)
    <2>1. RecentExits = {k \in 1 .. n : k > n - N}
      BY DEF RecentExits
    <2>2. RecentExits' = {k \in 1 .. Len(exited') : k > Len(exited') - N}
      BY DEF RecentExits
    <2>3. Len(exited') = n + 1 /\ n \in Int /\ N \in Int
      BY <1>1, <1>2
    <2> HIDE DEF n, N
    <2>4. RecentExits' = {k \in 1 .. n + 1 : k > n + 1 - N}
      BY ONLY <2>2, <2>3
    <2>5. QED BY ONLY <2>1, <2>3, <2>4
  <1>8. \A k \in RecentExits' : k = n + 1 \/ (k \in RecentExits /\ k \in 1 .. n /\ k - 1 \in Nat /\ k - 1 < n /\ n - (k - 1) < N)
    BY <1>1, <1>2, <1>7
  <1>9. \A k \in RecentExits : k \in RecentExits' \/ k - 1 = n - N
    BY <1>1, <1>2, <1>7
  <1>10. n + 1 \in RecentExits'
    BY <1>1, <1>2, <1>7
  <1> HIDE DEF n, N, idx, e
  <1>11. \A k \in RecentExits' : exit_codes'[(k - 1) % N] = [pid |-> exited'[k][1], exit_code |-> exited'[k][2]]
    <2> SUFFICES ASSUME NEW k \in RecentExits' PROVE exit_codes'[(k - 1) % N] = [pid |-> exited'[k][1], exit_code |-> exited'[k][2]]
      OBVIOUS
    <2>1. CASE k = n + 1
      <3>1. k - 1 = n
        BY <1>1, <2>1
      <3>2. exit_codes'[(k - 1) % N] = e
        BY <1>2, <1>5, <3>1
      <3>3. exited'[k][1] = p /\ exited'[k][2] = code
        BY <1>1, <2>1
      <3>4. QED BY <3>2, <3>3 DEF e
    <2>2. CASE k \in RecentExits /\ k \in 1 .. n /\ k - 1 \in Nat /\ k - 1 < n /\ n - (k - 1) < N
      <3>1. (k - 1) % N # n % N
        BY <1>1, <2>2, ModApart DEF N
      <3>2. (k - 1) % N \in Slots
        BY <2>2, ModSlot DEF N
      <3>3. exit_codes'[(k - 1) % N] = exit_codes[(k - 1) % N]
        BY <1>2, <1>5, <3>1, <3>2
      <3>4. exited'[k] = exited[k]
        BY <1>1, <2>2
      <3>5. exit_codes[(k - 1) % N] = [pid |-> exited[k][1], exit_code |-> exited[k][2]]
        BY <2>2 DEF RingOK, N
      <3>6. QED BY <3>3, <3>4, <3>5
    <2>3. QED BY <1>8, <2>1, <2>2
  <1>12. \A i \in Slots : i < n + 1 => \E k \in RecentExits' : (k - 1) % N = i
    <2> SUFFICES ASSUME NEW i \in Slots, i < n + 1 PROVE \E k \in RecentExits' : (k - 1) % N = i
      OBVIOUS
    <2>1. CASE i = idx
      <3>1. (n + 1) - 1 = n
        BY <1>1
      <3>2. ((n + 1) - 1) % N = i
        BY <1>2, <2>1, <3>1
      <3>3. QED BY <1>10, <3>2
    <2>2. CASE i # idx
      <3>1. i < n
        <4>1. SUFFICES ASSUME i = n PROVE FALSE
          BY <1>1, <1>2
        <4>2. n % N = n
          BY <4>1, ModSmall DEF N
        <4>3. QED BY <1>2, <2>2, <4>1, <4>2
      <3>2. PICK k \in RecentExits : (k - 1) % N = i
        BY <3>1 DEF RingOK, N, n
      <3>3. k - 1 # n - N
        <4>1. (n - N) % N = n % N
          BY <1>1, ModSame DEF N
        <4>2. QED BY <1>2, <2>2, <3>2, <4>1
      <3>4. QED BY <1>9, <3>2, <3>3
    <2>3. QED BY <2>1, <2>2
  <1>13. \A i \in Slots : i >= n + 1 => exit_codes'[i].pid = 0
    <2> SUFFICES ASSUME NEW i \in Slots, i >= n + 1 PROVE exit_codes'[i].pid = 0
      OBVIOUS
    <2>1. n \in Slots /\ i # n /\ i >= n
      BY <1>1, <1>2
    <2>2. idx = n
      BY <1>2, <2>1, ModSmall DEF N
    <2>3. QED BY <1>5, <2>1, <2>2 DEF RingOK, n
  <1>14. QED BY <1>1, <1>5, <1>6, <1>11, <1>12, <1>13 DEF RingOK, N

(* get_exit_code finds the entry of the task and no other: among the       *)
(* entries written the pids differ, and those not yet written, which carry *)
(* the pid 0 of the first task, lie behind them.                           *)
LEMMA InvExitCodes == ASSUME IInv PROVE ExitCodesKept
  <1> SUFFICES ASSUME NEW k \in RecentExits PROVE get_exit_code(exited[k][1]) = exited[k][2]
    BY DEF ExitCodesKept
  <1> DEFINE n == Len(exited)
             p == exited[k][1]
             i == (k - 1) % MaxTasks
             found == {j \in Slots : exit_codes[j].pid = p}
  <1>1. n \in Nat /\ k \in 1 .. n /\ k > n - MaxTasks /\ k - 1 \in Nat
    BY LenProperties DEF IInv, Types, RecentExits
  <1>2. i \in Slots /\ exit_codes[i] = [pid |-> p, exit_code |-> exited[k][2]]
    <2>1. i \in Slots
      BY <1>1, ModSlot
    <2>2. exit_codes[(k - 1) % MaxTasks] = [pid |-> exited[k][1], exit_code |-> exited[k][2]]
      BY DEF IInv, RingOK
    <2>3. QED BY <2>1, <2>2
  <1>3. i \in found /\ exit_codes[i].exit_code = exited[k][2]
    BY <1>2
  <1>4. \A j \in found : i <= j
    <2> SUFFICES ASSUME NEW j \in Slots, exit_codes[j].pid = p PROVE i <= j
      OBVIOUS
    <2>1. MaxTasks \in Nat /\ Slots = 0 .. MaxTasks - 1
      BY Constants
    <2>2. CASE j < n
      <3>1. PICK h \in RecentExits : (h - 1) % MaxTasks = j
        BY <2>2 DEF IInv, RingOK
      <3>2. exit_codes[(h - 1) % MaxTasks] = [pid |-> exited[h][1], exit_code |-> exited[h][2]]
        BY DEF IInv, RingOK
      <3>3. exited[h][1] = exited[k][1]
        BY <3>1, <3>2
      <3>4. h \in 1 .. n
        BY <3>1 DEF RecentExits
      <3>5. h = k
        BY <1>1, <3>3, <3>4 DEF IInv, UniquePids
      <3>6. i = j
        BY <3>1, <3>5
      <3>7. QED BY <1>2, <2>1, <3>6
    <2>3. CASE j >= n
      <3>1. k - 1 \in Slots
        BY <1>1, <2>1, <2>3
      <3>2. i = k - 1
        BY <3>1, ModSmall
      <3>3. QED BY <1>1, <2>1, <2>3, <3>2
    <2>4. QED BY <1>1, <2>1, <2>2, <2>3
  <1> HIDE DEF i, found
  <1>5. \A j \in found : (\A h \in found : j <= h) => j = i
    <2>1. found \subseteq Int
      BY Constants DEF found
    <2>2. QED BY <1>3, <1>4, <2>1
  <1>6. (CHOOSE j \in found : \A h \in found : j <= h) = i
    BY <1>3, <1>4, <1>5
  <1>7. get_exit_code(p) = exit_codes[i].exit_code
    BY <1>3, <1>6 DEF get_exit_code, found
  <1>8. QED BY <1>3, <1>7
-----------------------------------------------------------------------------
(* Steps.                                                                  *)

LEMMA TypesAll == ASSUME IInv
                  PROVE  /\ active \subseteq Slots /\ taken \subseteq Slots /\ active \subseteq taken
                         /\ pid \in [Slots -> Pids] /\ ctx \in [Slots -> Pids] /\ threads \in [Slots -> Seq(Pids)]
                         /\ parent \in [Slots -> Pids \cup {NOPARENT}]
                         /\ current_pid \in Pids /\ current_task \in Slots
                         /\ contexts \subseteq Pids /\ cr3 \in Pids \cup {KERNEL}
                         /\ frames \in Seq(FrameType) /\ Len(frames) \in Nat
                         /\ exited \in Seq(Pids \X Int) /\ Len(exited) \in Nat
                         /\ \A j \in 1 .. Len(frames) : frames[j] \in FrameType
  <1>1. frames \in Seq(FrameType) /\ exited \in Seq(Pids \X Int)
    BY DEF IInv, Types, TypeOK, FrameType
  <1>2. QED BY <1>1, LenProperties DEF IInv, Types, TypeOK, UniquePids

(* exit_task of an active task s, on top of the activations below.         *)
LEMMA ExitTaskStep ==
    ASSUME IInv, NEW s \in active, NEW code \in Int, NEW below \in Seq(FrameType),
           exit_task(s, code, below), origin' \in {"syscall", "exception", "abort"},
           \A j \in 1 .. Len(below) : below[j].slot \notin active /\ below[j].slot \in taken,
           \A j, k \in 1 .. Len(below) : below[j].slot = below[k].slot => j = k,
           origin' # "syscall" => /\ parent[current_task] = NOPARENT
                                  /\ IF below = <<>> THEN s = current_task ELSE below[1].slot = current_task,
           ~threaded => below = <<>> /\ frames = <<>> /\ current_task \in taken
    PROVE  IInv'
  <1> DEFINE top == [slot |-> s, i |-> 1]
             n == Len(below)
  <1>1. /\ active' = active \ {s} /\ add_exit_code(pid[s], code)
        /\ mode' = "kernel" /\ intr' = FALSE /\ frames' = Append(below, top)
        /\ UNCHANGED <<taken, pid, parent, ctx, threads, current_pid, threaded, current_task, contexts, cr3>>
    BY DEF exit_task, Deactivated, pids
  <1>2. s \in Slots /\ s \in taken /\ pid[s] \in Pids /\ Types
    BY TypesAll DEF IInv
  <1>3. top \in FrameType
    BY <1>2 DEF FrameType
  <1> HIDE DEF top
  <1>4. /\ n \in Nat /\ frames' \in Seq(FrameType) /\ Len(frames') = n + 1
        /\ \A j \in 1 .. n : frames'[j] = below[j]
        /\ frames'[n + 1] = top
    BY <1>1, <1>3, AppendProperties, LenProperties
  <1>5. /\ exit_codes' \in [Slots -> EntryType] /\ exit_codes_idx' \in Slots /\ RingOK'
    BY <1>1, <1>2, RingStep DEF IInv
  <1>6. /\ Len(exited) \in Nat /\ exited' \in Seq(Pids \X Int) /\ Len(exited') = Len(exited) + 1
        /\ \A k \in 1 .. Len(exited) : exited'[k] = exited[k]
        /\ exited'[Len(exited) + 1] = <<pid[s], code>>
    BY <1>1, <1>2, ExitedShape
  <1>7. Types'
    BY <1>1, <1>2, <1>4, <1>5, <1>6 DEF Types, TypeOK, FrameType, EntryType, Modes
  <1>8. \A k \in 1 .. Len(exited) : exited[k][1] # pid[s]
    BY DEF IInv, Dead
  <1> DEFINE who(k) == exited[k][1]
             now(k) == exited'[k][1]
             m == Len(exited)
  <1>a. \A k \in 1 .. Len(exited') : (k \in 1 .. m /\ now(k) = who(k)) \/ (k = m + 1 /\ now(k) = pid[s])
    <2>1. \A k \in 1 .. Len(exited') : k \in 1 .. m \/ k = m + 1
      BY <1>6
    <2>2. now(m + 1) = pid[s]
      BY <1>6
    <2>3. QED BY <1>6, <2>1, <2>2
  <1>b. \A k \in 1 .. m : who(k) # pid[s]
    BY <1>8
  <1>9. \A j, k \in 1 .. Len(exited') : exited'[j][1] = exited'[k][1] => j = k
    <2>1. \A j, k \in 1 .. m : who(j) = who(k) => j = k
      BY DEF IInv, UniquePids
    <2> HIDE DEF who, now, m
    <2>2. \A j, k \in 1 .. Len(exited') : now(j) = now(k) => j = k
      BY ONLY <1>a, <1>b, <2>1
    <2>3. QED BY <2>2 DEF now
  <1>10. UniquePids'
    BY <1>1, <1>9, TypesAll DEF IInv, UniquePids
  <1>11. Dead'
    <2>1. \A t \in active' : pid'[t] = pid[t] /\ pid[t] # pid[s] /\ t \in active
      BY <1>1, TypesAll DEF IInv, UniquePids
    <2>2. pid[s] < current_pid
      BY <1>2 DEF IInv, UniquePids
    <2>3. \A k \in 1 .. m : who(k) < current_pid /\ \A t \in active : pid[t] # who(k)
      BY DEF IInv, Dead
    <2> HIDE DEF who, now, m
    <2>4. \A k \in 1 .. Len(exited') : now(k) < current_pid' /\ \A t \in active' : pid'[t] # now(k)
      BY <1>1, <1>a, <2>1, <2>2, <2>3
    <2>5. QED BY <2>4 DEF Dead, now
  <1>12. FramesOK'
    <2>1. top.slot = s
      BY DEF top
    <2>2. \A j \in 1 .. Len(frames') : j \in 1 .. n \/ j = n + 1
      BY <1>4
    <2>3. \A j \in 1 .. Len(frames') : frames'[j].slot \notin active' /\ frames'[j].slot \in taken'
      BY <1>1, <1>2, <1>4, <2>1, <2>2
    <2>4. \A j, k \in 1 .. Len(frames') : frames'[j].slot = frames'[k].slot => j = k
      BY <1>4, <2>1, <2>2
    <2>5. origin' # "syscall" => frames'[1].slot = current_task' /\ parent'[current_task'] = NOPARENT
      <3>1. CASE below = <<>>
        <4>1. n = 0
          BY <3>1
        <4>2. QED BY <1>1, <1>4, <2>1, <3>1, <4>1
      <3>2. CASE below # <<>>
        <4>1. 1 \in 1 .. n
          BY <1>4, <3>2, EmptySeq
        <4>2. QED BY <1>1, <1>4, <3>2, <4>1
      <3>3. QED BY <3>1, <3>2
    <2>6. frames' # <<>>
      BY <1>4
    <2>7. QED BY <1>1, <2>3, <2>4, <2>5, <2>6 DEF FramesOK
  <1>13. Clean'
    <2> SUFFICES ASSUME ~threaded PROVE Clean'
      BY <1>1 DEF Clean
    <2>1. n = 0 /\ frames = <<>> /\ Len(frames) = 0
      OBVIOUS
    <2>2. frames'[1].slot = s /\ Len(frames') = 1
      BY <1>4, <2>1 DEF top
    <2>3. NoSlotLeak'
      <3>1. \A t \in taken \ active : FALSE
        BY <2>1 DEF IInv, Clean, NoSlotLeak
      <3>2. QED BY <1>1, <2>2, <3>1 DEF NoSlotLeak
    <2>4. current_task' \in active' => current_task \in active
      BY <1>1
    <2>5. QED BY <1>1, <2>2, <2>3, <2>4 DEF IInv, Clean
  <1>14. QED BY <1>5, <1>7, <1>10, <1>11, <1>12, <1>13 DEF IInv

LEMMA HaltStep ==
    ASSUME IInv, mode' \in {"halted", "crashed"},
           UNCHANGED <<table, pids, current_task, codes, contexts, cr3, frames, origin, intr>>
    PROVE  IInv'
  <1>1. UNCHANGED <<active, taken, pid, parent, ctx, threads, current_pid, threaded, current_task, exit_codes,
                    exit_codes_idx, exited, contexts, cr3, frames, origin, intr>>
    BY DEF table, pids, codes
  <1>2. Types' /\ UniquePids' /\ Dead'
    BY <1>1 DEF IInv, Types, TypeOK, UniquePids, Dead, Modes
  <1>3. FramesOK'
    BY DEF FramesOK
  <1>4. Clean'
    BY <1>1 DEF IInv, Clean, NoSlotLeak
  <1>5. RingOK'
    BY <1>1 DEF IInv, RingOK, RecentExits
  <1>6. QED BY <1>2, <1>3, <1>4, <1>5 DEF IInv

LEMMA ScheduleStep ==
    ASSUME IInv, schedule, ~threaded => taken \subseteq active
    PROVE  IInv'
  <1>1. CASE /\ active = {} /\ mode' = "halted"
             /\ UNCHANGED <<table, pids, current_task, codes, contexts, cr3, frames, origin, intr>>
    BY <1>1, HaltStep
  <1>2. ASSUME NEW s \in active, current_task' = s, cr3' = ctx[s],
               mode' = "user", frames' = <<>>, intr' = FALSE,
               UNCHANGED <<table, pids, codes, contexts, origin>>
        PROVE  IInv'
    <2>1. UNCHANGED <<active, taken, pid, parent, ctx, threads, current_pid, threaded, exit_codes,
                      exit_codes_idx, exited, contexts, origin>>
      BY <1>2 DEF table, pids, codes
    <2>2. s \in Slots /\ s \in taken /\ ctx[s] \in Pids
      BY TypesAll
    <2>b. frames' \in Seq([slot : Slots, i : Nat \ {0}])
      BY <1>2
    <2>c. cr3' \in Pids /\ current_task' \in Slots /\ mode' \in Modes /\ intr' \in BOOLEAN
      BY <1>2, <2>2 DEF Modes
    <2>a. Types'
      BY <2>1, <2>b, <2>c DEF IInv, Types, TypeOK
    <2>3. Types' /\ UniquePids' /\ Dead'
      BY <2>1, <2>a DEF IInv, UniquePids, Dead
    <2>4. FramesOK'
      BY <1>2, <2>1 DEF FramesOK
    <2>5. Len(frames') = 0
      BY <1>2
    <2>6. ~threaded => NoSlotLeak'
      BY <2>1 DEF NoSlotLeak
    <2>7. Clean'
      BY <1>2, <2>1, <2>2, <2>5, <2>6 DEF IInv, Clean
    <2>8. RingOK'
      BY <2>1 DEF IInv, RingOK, RecentExits
    <2>9. QED BY <2>3, <2>4, <2>7, <2>8 DEF IInv
  <1>3. QED BY <1>1, <1>2 DEF schedule

LEMMA NoneLeaving == ASSUME IInv, ~threaded, frames = <<>> PROVE taken \subseteq active
  <1>1. Len(frames) = 0
    OBVIOUS
  <1>2. QED BY <1>1 DEF IInv, Clean, NoSlotLeak

LEMMA YieldStep == ASSUME IInv, sys_yield PROVE IInv'
  <1>1. frames = <<>> /\ schedule
    BY DEF IInv, FramesOK, sys_yield, Running
  <1>2. QED BY <1>1, NoneLeaving, ScheduleStep

LEMMA TickStep == ASSUME IInv, Tick PROVE IInv'
  <1>1. schedule
    BY DEF Tick
  <1>2. CASE mode = "user"
    BY <1>1, <1>2, NoneLeaving, ScheduleStep DEF IInv, FramesOK
  <1>3. CASE mode = "hlt"
    <2>1. ASSUME ~threaded PROVE taken \subseteq active
      <3>1. Len(frames) <= 1 /\ NoSlotLeak /\ current_task \notin taken
        BY <1>3, <2>1 DEF IInv, Clean
      <3>2. Top.slot = current_task /\ frames # <<>> /\ Len(frames) \in Nat
        BY <1>3, TypesAll DEF IInv, FramesOK
      <3>a. Len(frames) # 0
        BY <3>2, TypesAll, EmptySeq
      <3> DEFINE n == Len(frames)
      <3>b. n \in Nat /\ n <= 1 /\ n # 0
        BY <3>1, <3>2, <3>a
      <3> HIDE DEF n
      <3>c. n = 1
        BY ONLY <3>b
      <3>3. Len(frames) = 1
        BY <3>c DEF n
      <3>4. \A k \in 1 .. Len(frames) : frames[k].slot = current_task
        BY <3>2, <3>3 DEF Top
      <3>5. QED BY <3>1, <3>4 DEF NoSlotLeak
    <2>2. QED BY <1>1, <2>1, ScheduleStep
  <1>4. CASE mode = "kernel" /\ intr
    <2>1. ~threaded => frames = <<>>
      BY <1>4 DEF IInv, Clean
    <2>2. QED BY <1>1, <2>1, NoneLeaving, ScheduleStep
  <1>5. QED BY <1>2, <1>3, <1>4 DEF Tick

(* A new task: a slot nobody uses, and a pid nobody had.                   *)
LEMMA InitTaskStep ==
    ASSUME IInv, Running, current_pid < MaxPid, NEW s \in Slots, NEW p \in Pids \cup {NOPARENT}, NEW c \in Pids,
           init_task(s, p, c), threads' \in [Slots -> Seq(Pids)], threaded' \in BOOLEAN, contexts' \subseteq Pids,
           threaded => threaded',
           ~threaded' => /\ p = NOPARENT /\ c = current_pid /\ contexts' = contexts \cup {current_pid}
                         /\ threads' = [threads EXCEPT ![s] = <<>>],
           UNCHANGED <<current_task, codes, cr3, cpu>>
    PROVE  IInv'
  <1>1. /\ s \notin taken /\ taken' = taken \cup {s} /\ active' = active \cup {s}
        /\ pid' = [pid EXCEPT ![s] = current_pid] /\ parent' = [parent EXCEPT ![s] = p]
        /\ ctx' = [ctx EXCEPT ![s] = c] /\ current_pid' = current_pid + 1
    BY DEF init_task, Least, FreeSlots
  <1>2. /\ UNCHANGED <<current_task, exit_codes, exit_codes_idx, exited, cr3, mode, frames, origin, intr>>
        /\ mode = "user" /\ frames = <<>> /\ current_task \in active
    BY DEF codes, cpu, Running, IInv, FramesOK
  <1>3. /\ active \subseteq Slots /\ taken \subseteq Slots /\ active \subseteq taken
        /\ pid \in [Slots -> Pids] /\ ctx \in [Slots -> Pids] /\ current_task \in Slots
        /\ parent \in [Slots -> Pids \cup {NOPARENT}] /\ current_pid \in Pids
        /\ threads \in [Slots -> Seq(Pids)]
    BY TypesAll
  <1>4. current_pid \in Nat /\ current_pid + 1 \in Pids
    BY <1>3, Constants
  <1>5. /\ pid' \in [Slots -> Pids] /\ pid'[s] = current_pid /\ ctx' \in [Slots -> Pids] /\ ctx'[s] = c
        /\ parent' \in [Slots -> Pids \cup {NOPARENT}] /\ parent'[s] = p
        /\ \A t \in Slots : t # s => pid'[t] = pid[t] /\ ctx'[t] = ctx[t] /\ parent'[t] = parent[t]
    BY <1>1, <1>3
  <1>6. Types'
    BY <1>1, <1>2, <1>3, <1>4, <1>5 DEF IInv, Types, TypeOK
  <1>7. \A t \in taken : pid'[t] = pid[t] /\ pid[t] < current_pid /\ pid[t] \in Nat
    BY <1>1, <1>3, <1>5, Constants DEF IInv, UniquePids
  <1>8. UniquePids'
    <2>1. \A t, u \in taken' : pid'[t] = pid'[u] => t = u
      BY <1>1, <1>4, <1>5, <1>7 DEF IInv, UniquePids
    <2>2. \A t \in taken' : pid'[t] < current_pid'
      BY <1>1, <1>4, <1>5, <1>7
    <2>3. QED BY <1>1, <1>2, <1>3, <2>1, <2>2 DEF IInv, UniquePids
  <1>9. Dead'
    <2>1. \A k \in 1 .. Len(exited) : exited[k][1] \in Nat
      <3>1. \A k \in 1 .. Len(exited) : exited[k] \in Pids \X Int
        BY TypesAll, LenProperties
      <3>2. QED BY <3>1, Constants
    <2>2. \A k \in 1 .. Len(exited) : exited[k][1] < current_pid /\ \A t \in active : pid[t] # exited[k][1]
      BY DEF IInv, Dead
    <2>3. \A t \in active : pid'[t] = pid[t]
      BY <1>3, <1>7
    <2>4. QED BY <1>1, <1>2, <1>4, <1>5, <2>1, <2>2, <2>3 DEF Dead
  <1>10. FramesOK'
    BY <1>1, <1>2 DEF FramesOK
  <1>11. Clean'
    <2> SUFFICES ASSUME ~threaded' PROVE Clean'
      BY DEF Clean
    <2>1. ~threaded /\ p = NOPARENT /\ c = current_pid /\ contexts' = contexts \cup {current_pid}
      OBVIOUS
    <2>2. \A t \in Slots : parent'[t] = NOPARENT /\ threads'[t] = <<>>
      BY <1>3, <1>5, <2>1 DEF IInv, Clean
    <2>3. \A t \in taken : ctx'[t] = ctx[t] /\ ctx[t] = pid[t] /\ pid'[t] = pid[t]
      BY <1>1, <1>3, <1>5, <2>1 DEF IInv, Clean
    <2>4. contexts' = {ctx'[t] : t \in taken'}
      <3>1. contexts = {ctx[t] : t \in taken}
        BY <2>1 DEF IInv, Clean
      <3>2. QED BY <1>1, <1>5, <2>1, <2>3, <3>1
    <2>5. cr3' = ctx'[current_task'] /\ current_task' \in taken'
      BY <1>1, <1>2, <1>3, <2>1, <2>3 DEF IInv, Clean
    <2>6. NoSlotLeak'
      <3>1. taken \subseteq active
        BY <1>2, <2>1, NoneLeaving
      <3>2. QED BY <1>1, <3>1 DEF NoSlotLeak
    <2>7. Len(frames') <= 1
      BY <1>2
    <2>8. \A t \in taken' : ctx'[t] = pid'[t]
      BY <1>1, <1>5, <2>1, <2>3
    <2>9. QED BY <1>2, <2>2, <2>4, <2>5, <2>6, <2>7, <2>8 DEF Clean
  <1>12. RingOK'
    BY <1>2 DEF IInv, RingOK, RecentExits
  <1>13. QED BY <1>6, <1>8, <1>9, <1>10, <1>11, <1>12 DEF IInv

LEMMA NoSlotStep == ASSUME IInv, NoSlot PROVE IInv'
  BY HaltStep DEF NoSlot

LEMMA SpawnStep == ASSUME IInv, sys_spawn PROVE IInv'
  <1>1. ASSUME NEW s \in Slots, init_task(s, NOPARENT, current_pid), threads' = [threads EXCEPT ![s] = <<>>],
               contexts' = contexts \cup {current_pid}, UNCHANGED <<threaded, current_task, codes, cr3, cpu>>
        PROVE  IInv'
    <2>1. threads' \in [Slots -> Seq(Pids)] /\ contexts' \subseteq Pids /\ current_pid \in Pids
      BY <1>1, TypesAll
    <2>2. threaded' \in BOOLEAN
      BY <1>1 DEF IInv, Types, TypeOK
    <2>3. Running /\ current_pid < MaxPid
      BY DEF sys_spawn
    <2>4. QED BY <1>1, <2>1, <2>2, <2>3, InitTaskStep
  <1>2. QED BY <1>1, NoSlotStep DEF sys_spawn

LEMMA ThreadStep == ASSUME IInv, sys_thread PROVE IInv'
  <1>1. ASSUME NEW s \in Slots, init_task(s, pid[current_task], ctx[current_task]),
               threads' = [threads EXCEPT ![s] = <<>>, ![current_task] = Append(@, current_pid)],
               threaded' = TRUE, UNCHANGED <<current_task, codes, contexts, cr3, cpu>>
        PROVE  IInv'
    <2>1. /\ current_pid \in Pids /\ current_task \in Slots /\ contexts \subseteq Pids
          /\ pid[current_task] \in Pids /\ ctx[current_task] \in Pids
      BY TypesAll
    <2>2. threads' \in [Slots -> Seq(Pids)]
      <3> DEFINE f == [threads EXCEPT ![s] = <<>>]
      <3>a. f \in [Slots -> Seq(Pids)]
        BY TypesAll
      <3>1. f \in [Slots -> Seq(Pids)] /\ threads' = [f EXCEPT ![current_task] = Append(@, current_pid)]
        <4>1. s # current_task
          BY <1>1, TypesAll DEF init_task, Least, FreeSlots, sys_thread, Running
        <4>2. threads' = [threads EXCEPT ![s] = <<>>, ![current_task] = Append(@, current_pid)]
          BY <1>1
        <4>3. QED BY <2>1, <3>a, <4>1, <4>2, TypesAll
      <3> HIDE DEF f
      <3>2. f[current_task] \in Seq(Pids)
        BY <2>1, <3>1
      <3>3. Append(f[current_task], current_pid) \in Seq(Pids)
        BY <2>1, <3>2
      <3>4. QED BY <2>1, <3>1, <3>3
    <2>3. Running /\ current_pid < MaxPid
      BY DEF sys_thread
    <2>4. QED BY <1>1, <2>1, <2>2, <2>3, InitTaskStep
  <1>2. QED BY <1>1, NoSlotStep DEF sys_thread
-----------------------------------------------------------------------------
(* The walk of exit_task through its activations.                          *)

LEMMA TopShape ==
    ASSUME IInv, frames # <<>>
    PROVE  /\ Len(frames) \in Nat \ {0} /\ Top \in FrameType /\ Len(frames) \in 1 .. Len(frames)
           /\ Below \in Seq(FrameType) /\ Len(Below) = Len(frames) - 1
           /\ \A j \in 1 .. Len(frames) - 1 : Below[j] = frames[j]
  <1>1. frames \in Seq(FrameType) /\ Len(frames) \in Nat /\ \A j \in 1 .. Len(frames) : frames[j] \in FrameType
    BY TypesAll
  <1>2. Len(frames) # 0
    BY <1>1, EmptySeq
  <1>3. Len(frames) \in 1 .. Len(frames)
    BY <1>1, <1>2
  <1>4. /\ Below \in Seq(FrameType) /\ Len(Below) = Len(frames) - 1
        /\ \A j \in 1 .. Len(frames) - 1 : Below[j] = frames[j]
    <2>1. \A j \in 1 .. Len(frames) - 1 : frames[j] \in FrameType
      BY <1>1
    <2>2. 1 \in Int /\ Len(frames) - 1 \in Int /\ Len(frames) - 1 >= 0
      BY <1>1, <1>2
    <2> DEFINE m == Len(frames) - 1
               sub == SubSeq(frames, 1, m)
    <2>3. /\ sub \in Seq(FrameType) /\ Len(sub) = IF 1 <= m THEN m - 1 + 1 ELSE 0
          /\ \A j \in 1 .. m - 1 + 1 : sub[j] = frames[1 + j - 1]
      BY <1>1, <2>1, <2>2, SubSeqProperties
    <2>4. m \in Nat /\ Below = sub
      BY <1>1, <1>2 DEF Below
    <2> HIDE DEF m, sub
    <2>5. Len(sub) = m /\ \A j \in 1 .. m : sub[j] = frames[j]
      BY <2>3, <2>4
    <2>6. QED BY <2>3, <2>4, <2>5 DEF m
  <1>5. QED BY <1>1, <1>2, <1>3, <1>4 DEF Top

(* The same activations, the topmost one further on.                       *)
LEMMA AdvancedShape ==
    ASSUME IInv, frames # <<>>, NEW next, next = Append(Below, [Top EXCEPT !.i = @ + 1])
    PROVE  /\ next \in Seq(FrameType) /\ Len(next) = Len(frames) /\ next # <<>>
           /\ \A j \in 1 .. Len(frames) : next[j].slot = frames[j].slot
  <1> DEFINE n == Len(frames)
             top == [Top EXCEPT !.i = @ + 1]
  <1>1. /\ n \in Nat \ {0} /\ Top \in FrameType /\ Below \in Seq(FrameType) /\ Len(Below) = n - 1
        /\ \A j \in 1 .. n - 1 : Below[j] = frames[j]
    BY TopShape
  <1>2. top \in FrameType /\ top.slot = Top.slot
    BY <1>1 DEF FrameType
  <1>3. next = Append(Below, top)
    OBVIOUS
  <1> HIDE DEF top
  <1>4. /\ next \in Seq(FrameType) /\ Len(next) = (n - 1) + 1
        /\ \A j \in 1 .. n - 1 : next[j] = Below[j]
        /\ next[(n - 1) + 1] = top
    BY <1>1, <1>2, <1>3, AppendProperties
  <1>5. (n - 1) + 1 = n /\ \A j \in 1 .. n : j \in 1 .. n - 1 \/ j = n
    BY <1>1
  <1>6. next[n].slot = frames[n].slot
    BY <1>2, <1>4, <1>5 DEF Top
  <1>7. \A j \in 1 .. n : next[j].slot = frames[j].slot
    BY <1>1, <1>4, <1>5, <1>6
  <1>8. next # <<>>
    BY <1>1, <1>4, <1>5
  <1>9. QED BY <1>4, <1>5, <1>7, <1>8

LEMMA DeallocStep == ASSUME IInv, resource_dealloc PROVE IInv'
  <1> DEFINE next == Append(Below, [Top EXCEPT !.i = @ + 1])
             n == Len(frames)
  <1>1. mode = "kernel" /\ frames # <<>> /\ Top.i <= Len(threads[Top.slot])
    BY DEF resource_dealloc
  <1>2. n \in Nat \ {0} /\ Top \in FrameType
    BY <1>1, TopShape
  <1>3. /\ next \in Seq(FrameType) /\ Len(next) = n /\ next # <<>>
        /\ \A j \in 1 .. n : next[j].slot = frames[j].slot
    BY <1>1, AdvancedShape
  <1>4. threaded
    <2> SUFFICES ASSUME ~threaded PROVE FALSE
      OBVIOUS
    <2>1. Top.slot \in Slots /\ Top.i \in Nat \ {0}
      BY <1>2 DEF FrameType
    <2>2. threads[Top.slot] = <<>>
      BY <2>1 DEF IInv, Clean
    <2>3. Len(threads[Top.slot]) = 0
      BY <2>2
    <2>4. QED BY <1>1, <2>1, <2>3
  <1>5. /\ \A j \in 1 .. n : frames[j].slot \notin active /\ frames[j].slot \in taken
        /\ \A j, k \in 1 .. n : frames[j].slot = frames[k].slot => j = k
        /\ origin # "syscall" => frames[1].slot = current_task /\ parent[current_task] = NOPARENT
    BY <1>1 DEF IInv, FramesOK
  <1>6. 1 \in 1 .. n
    BY <1>2
  <1> HIDE DEF next
  <1>7. /\ \A j \in 1 .. Len(next) : next[j].slot \notin active /\ next[j].slot \in taken
        /\ \A j, k \in 1 .. Len(next) : next[j].slot = next[k].slot => j = k
        /\ origin # "syscall" => next[1].slot = current_task /\ parent[current_task] = NOPARENT
    BY <1>3, <1>5, <1>6
  <1>8. ASSUME NEW t \in active, exit_task(t, 0, next), UNCHANGED origin PROVE IInv'
    <2>1. origin' \in {"syscall", "exception", "abort"}
      BY <1>8 DEF IInv, Types, TypeOK
    <2>2. 0 \in Int
      OBVIOUS
    <2>3. QED BY <1>3, <1>4, <1>7, <1>8, <2>1, <2>2, ExitTaskStep
  <1>9. CASE frames' = next /\ UNCHANGED <<table, pids, current_task, codes, contexts, cr3, mode, origin, intr>>
    <2>1. UNCHANGED <<active, taken, pid, parent, ctx, threads, current_pid, threaded, current_task, exit_codes,
                      exit_codes_idx, exited, contexts, cr3, mode, origin, intr>>
      BY <1>9 DEF table, pids, codes
    <2>2. frames' \in Seq([slot : Slots, i : Nat \ {0}])
      BY <1>3, <1>9 DEF FrameType
    <2>3. Types'
      BY <2>1, <2>2 DEF IInv, Types, TypeOK
    <2>4. UniquePids' /\ Dead'
      BY <2>1 DEF IInv, UniquePids, Dead
    <2>5. FramesOK'
      BY <1>1, <1>3, <1>7, <1>9, <2>1 DEF FramesOK
    <2>6. Clean'
      BY <1>4, <2>1 DEF Clean
    <2>7. RingOK'
      BY <2>1 DEF IInv, RingOK, RecentExits
    <2>8. QED BY <2>3, <2>4, <2>5, <2>6, <2>7 DEF IInv
  <1>10. \/ \E t \in active : exit_task(t, 0, next) /\ UNCHANGED origin
         \/ frames' = next /\ UNCHANGED <<table, pids, current_task, codes, contexts, cr3, mode, origin, intr>>
    BY DEF resource_dealloc, get_task_by_pid, next
  <1>11. QED BY <1>8, <1>9, <1>10

LEMMA ExitFinishStep == ASSUME IInv, exit_finish PROVE IInv'
  <1> DEFINE s == Top.slot
             n == Len(frames)
  <1>1. mode = "kernel" /\ frames # <<>>
    BY DEF exit_finish
  <1>2. /\ n \in Nat \ {0} /\ n \in 1 .. n /\ Top \in FrameType /\ s \in Slots /\ s = frames[n].slot
        /\ Below \in Seq(FrameType) /\ Len(Below) = n - 1
        /\ \A j \in 1 .. n - 1 : Below[j] = frames[j]
    BY <1>1, TopShape DEF FrameType, Top
  <1>3. /\ contexts' = Destroyed(s) /\ taken' = taken \ {s}
        /\ UNCHANGED <<active, pid, parent, ctx, threads, current_pid, threaded, current_task, exit_codes,
                       exit_codes_idx, exited, origin, intr>>
    BY DEF exit_finish, Released, pids, codes
  <1>4. /\ s = current_task => /\ mode' = "hlt" /\ frames' = frames
                               /\ cr3' = IF parent[s] = NOPARENT THEN KERNEL ELSE cr3
        /\ s # current_task => /\ mode' = "kernel" /\ frames' = Below /\ cr3' = ctx[current_task]
    BY DEF exit_finish, ReturnContext
  <1>5. /\ active \subseteq Slots /\ taken \subseteq Slots /\ active \subseteq taken
        /\ ctx \in [Slots -> Pids] /\ current_task \in Slots /\ contexts \subseteq Pids
        /\ cr3 \in Pids \cup {KERNEL} /\ frames \in Seq(FrameType)
    BY TypesAll
  <1>6. /\ \A j \in 1 .. n : frames[j].slot \notin active /\ frames[j].slot \in taken
        /\ \A j, k \in 1 .. n : frames[j].slot = frames[k].slot => j = k
        /\ origin # "syscall" => frames[1].slot = current_task /\ parent[current_task] = NOPARENT
    BY <1>1 DEF IInv, FramesOK
  <1>7. s \notin active /\ s \in taken /\ \A j \in 1 .. n - 1 : frames[j].slot # s /\ j \in 1 .. n
    BY <1>2, <1>6
  <1> HIDE DEF s, n
  <1>8. frames' \in Seq(FrameType) /\ cr3' \in Pids \cup {KERNEL} /\ mode' \in {"hlt", "kernel"}
    BY <1>2, <1>4, <1>5
  <1>9. Types'
    <2>1. contexts' \subseteq Pids /\ taken' \subseteq Slots /\ mode' \in Modes
      BY <1>3, <1>5, <1>8 DEF Destroyed, Modes
    <2>2. frames' \in Seq([slot : Slots, i : Nat \ {0}])
      BY <1>8 DEF FrameType
    <2>3. QED BY <1>3, <1>8, <2>1, <2>2 DEF IInv, Types, TypeOK
  <1>10. UniquePids' /\ Dead'
    <2>1. active' \subseteq taken'
      BY <1>3, <1>5, <1>7
    <2>2. QED BY <1>3, <2>1 DEF IInv, UniquePids, Dead
  <1>11. FramesOK'
    <2>1. CASE s = current_task
      <3>1. mode' = "hlt" /\ frames' = frames /\ Len(frames') = n /\ cr3' = IF parent[s] = NOPARENT THEN KERNEL ELSE cr3
        BY <1>4, <2>1 DEF n
      <3>2. Top' = Top /\ Top'.slot = current_task'
        BY <1>3, <2>1, <3>1 DEF Top, s
      <3>3. \A j \in 1 .. Len(frames') - 1 : frames'[j].slot \in taken'
        BY <1>3, <1>6, <1>7, <3>1
      <3>4. QED BY <1>1, <1>3, <1>6, <2>1, <3>1, <3>2, <3>3 DEF FramesOK
    <2>2. CASE s # current_task
      <3>1. mode' = "kernel" /\ frames' = Below /\ Len(frames') = n - 1
        BY <1>2, <1>4, <2>2
      <3>2. \A j \in 1 .. Len(frames') : frames'[j].slot = frames[j].slot /\ frames[j].slot # s /\ j \in 1 .. n
        BY <1>2, <1>7, <3>1
      <3>3. \A j \in 1 .. Len(frames') : frames'[j].slot \notin active' /\ frames'[j].slot \in taken'
        BY <1>3, <1>6, <3>2
      <3>4. \A j, k \in 1 .. Len(frames') : frames'[j].slot = frames'[k].slot => j = k
        BY <1>6, <3>2
      <3>5. origin # "syscall" => n # 1
        BY <1>2, <1>6, <2>2
      <3>6. CASE n = 1
        <4>1. Len(frames') = 0 /\ frames' = <<>>
          BY <1>8, <3>1, <3>6, EmptySeq
        <4>2. QED BY <1>3, <3>1, <3>3, <3>4, <3>5, <3>6, <4>1 DEF FramesOK
      <3>7. CASE n # 1
        <4>1. 1 \in 1 .. Len(frames') /\ frames' # <<>>
          BY <1>2, <3>1, <3>7
        <4>2. frames'[1].slot = frames[1].slot
          BY <3>2, <4>1
        <4>3. QED BY <1>3, <1>6, <3>1, <3>3, <3>4, <4>1, <4>2 DEF FramesOK
      <3>8. QED BY <3>6, <3>7
    <2>3. QED BY <2>1, <2>2
  <1>12. Clean'
    <2> SUFFICES ASSUME ~threaded PROVE Clean'
      BY <1>3 DEF Clean
    <2>1. /\ \A t \in Slots : parent[t] = NOPARENT /\ threads[t] = <<>>
          /\ \A t \in taken : ctx[t] = pid[t]
          /\ contexts = {ctx[t] : t \in taken} /\ Len(frames) <= 1 /\ NoSlotLeak
          /\ cr3 = KERNEL \/ (current_task \in taken /\ cr3 = ctx[current_task])
          /\ current_task \in active => cr3 = ctx[current_task]
          /\ intr => frames = <<>>
          /\ current_task \in taken
      BY <1>1 DEF IInv, Clean
    <2>2. n = 1 /\ ~intr
      <3>1. n <= 1
        BY <2>1 DEF n
      <3>2. QED BY <1>1, <1>2, <2>1, <3>1
    <2>3. \A t \in taken : t # s => ctx[t] # ctx[s]
      BY <1>7, <2>1 DEF IInv, UniquePids
    <2>4. contexts' = {ctx'[t] : t \in taken'}
      <3>1. contexts' = contexts \ {ctx[s]}
        BY <1>2, <1>3, <2>1 DEF Destroyed
      <3>2. QED BY <1>3, <1>7, <2>1, <2>3, <3>1
    <2>5. \A t \in taken : t \in active \/ t = s
      <3>1. \A j \in 1 .. Len(frames) : frames[j].slot = s
        BY <1>2, <2>2 DEF n
      <3>2. QED BY <2>1, <3>1 DEF NoSlotLeak
    <2>6. NoSlotLeak'
      BY <1>3, <2>5 DEF NoSlotLeak
    <2>7. CASE s = current_task
      <3>1. mode' = "hlt" /\ frames' = frames /\ cr3' = KERNEL
        BY <1>2, <1>4, <2>1, <2>7
      <3>2. current_task \notin active /\ current_task' \notin taken'
        BY <1>3, <1>7, <2>7
      <3>3. QED BY <1>3, <2>1, <2>4, <2>6, <3>1, <3>2 DEF Clean
    <2>8. CASE s # current_task
      <3>1. mode' = "kernel" /\ frames' = Below /\ cr3' = ctx[current_task]
        BY <1>4, <2>8
      <3>2. Len(frames') = 0
        BY <1>2, <2>2, <3>1
      <3>3. current_task \in taken' /\ frames' = <<>>
        BY <1>3, <1>8, <2>1, <2>8, <3>2, EmptySeq
      <3>4. QED BY <1>3, <2>1, <2>2, <2>4, <2>6, <2>8, <3>1, <3>2, <3>3 DEF Clean
    <2>9. QED BY <2>7, <2>8
  <1>13. RingOK'
    BY <1>3 DEF IInv, RingOK, RecentExits
  <1>14. QED BY <1>9, <1>10, <1>11, <1>12, <1>13 DEF IInv

LEMMA DeviceInterruptStep == ASSUME IInv, DeviceInterrupt PROVE IInv'
  <1> DEFINE n == Len(frames)
  <1>1. /\ mode = "hlt" /\ mode' = "kernel" /\ intr' = TRUE /\ frames' = Below
        /\ UNCHANGED <<active, taken, pid, parent, ctx, threads, current_pid, threaded, current_task, exit_codes,
                       exit_codes_idx, exited, contexts, cr3, origin>>
    BY DEF DeviceInterrupt, table, pids, codes
  <1>2. /\ frames # <<>> /\ Top.slot = current_task
        /\ parent[current_task] = NOPARENT => cr3 = KERNEL
        /\ \A j \in 1 .. n - 1 : frames[j].slot \in taken
        /\ \A j \in 1 .. n : frames[j].slot \notin active
        /\ \A j, k \in 1 .. n : frames[j].slot = frames[k].slot => j = k
        /\ origin # "syscall" => frames[1].slot = current_task /\ parent[current_task] = NOPARENT
    BY <1>1 DEF IInv, FramesOK
  <1>3. /\ n \in Nat \ {0} /\ n \in 1 .. n /\ Below \in Seq(FrameType) /\ Len(Below) = n - 1
        /\ \A j \in 1 .. n - 1 : Below[j] = frames[j] /\ j \in 1 .. n
    BY <1>2, TopShape
  <1>4. current_task \notin active
    BY <1>2, <1>3 DEF Top
  <1> HIDE DEF n
  <1>5. Types'
    <2>1. frames' \in Seq([slot : Slots, i : Nat \ {0}]) /\ mode' \in Modes
      BY <1>1, <1>3 DEF FrameType, Modes
    <2>2. QED BY <1>1, <2>1 DEF IInv, Types, TypeOK
  <1>6. UniquePids' /\ Dead'
    BY <1>1 DEF IInv, UniquePids, Dead
  <1>7. FramesOK'
    <2>1. \A j \in 1 .. Len(frames') : frames'[j] = frames[j] /\ j \in 1 .. n /\ j \in 1 .. n - 1
      BY <1>1, <1>3
    <2>2. \A j \in 1 .. Len(frames') : frames'[j].slot \notin active' /\ frames'[j].slot \in taken'
      BY <1>1, <1>2, <2>1
    <2>3. \A j, k \in 1 .. Len(frames') : frames'[j].slot = frames'[k].slot => j = k
      BY <1>2, <2>1
    <2>4. frames' # <<>> => frames'[1] = frames[1]
      <3>1. SUFFICES ASSUME frames' # <<>> PROVE frames'[1] = frames[1]
        OBVIOUS
      <3>2. Len(frames') # 0 /\ Len(frames') \in Nat
        BY <1>1, <1>3, <3>1, EmptySeq
      <3>3. QED BY <2>1, <3>2
    <2>5. QED BY <1>1, <1>2, <1>4, <2>2, <2>3, <2>4 DEF FramesOK
  <1>8. Clean'
    <2> SUFFICES ASSUME ~threaded PROVE Clean'
      BY <1>1 DEF Clean
    <2>1. n <= 1 /\ NoSlotLeak /\ current_task \notin taken
      BY <1>1 DEF IInv, Clean, n
    <2>2. n = 1
      BY <1>3, <2>1
    <2>3. Len(frames') = 0 /\ frames' = <<>>
      BY <1>1, <1>3, <2>2, EmptySeq
    <2>4. \A j \in 1 .. Len(frames) : frames[j].slot = current_task
      BY <1>2, <2>2 DEF Top, n
    <2>5. NoSlotLeak'
      BY <1>1, <2>1, <2>4 DEF NoSlotLeak
    <2>6. QED BY <1>1, <2>3, <2>5 DEF IInv, Clean
  <1>9. RingOK'
    BY <1>1 DEF IInv, RingOK, RecentExits
  <1>10. QED BY <1>5, <1>6, <1>7, <1>8, <1>9 DEF IInv

LEMMA InterruptReturnStep == ASSUME IInv, handle_interrupt_return PROVE IInv'
  <1>1. mode = "kernel" /\ frames = <<>>
    BY DEF handle_interrupt_return
  <1>2. CASE schedule
    BY <1>1, <1>2, NoneLeaving, ScheduleStep
  <1>3. CASE mode' = "halted" /\ UNCHANGED <<table, pids, current_task, codes, contexts, cr3, frames, origin, intr>>
    BY <1>3, HaltStep
  <1>4. CASE /\ current_task \in active \/ origin = "exception"
             /\ mode' = "user" /\ intr' = FALSE
             /\ UNCHANGED <<table, pids, current_task, codes, contexts, cr3, frames, origin>>
    <2>1. UNCHANGED <<active, taken, pid, parent, ctx, threads, current_pid, threaded, current_task, exit_codes,
                      exit_codes_idx, exited, contexts, cr3, frames, origin>>
      BY <1>4 DEF table, pids, codes
    <2>2. mode' \in Modes /\ intr' \in BOOLEAN
      BY <1>4 DEF Modes
    <2>3. Types' /\ UniquePids' /\ Dead'
      BY <2>1, <2>2 DEF IInv, Types, TypeOK, UniquePids, Dead
    <2>4. current_task \notin active => cr3 = KERNEL
      BY <1>1, <1>4 DEF IInv, FramesOK
    <2>5. FramesOK'
      BY <1>1, <1>4, <2>1, <2>4 DEF FramesOK
    <2>6. Clean'
      BY <1>4, <2>1 DEF IInv, Clean, NoSlotLeak
    <2>7. RingOK'
      BY <2>1 DEF IInv, RingOK, RecentExits
    <2>8. QED BY <2>3, <2>5, <2>6, <2>7 DEF IInv
  <1>5. QED BY <1>2, <1>3, <1>4 DEF handle_interrupt_return

LEMMA UserExits ==
    ASSUME IInv, mode = "user", current_task \in active, NEW s \in active, NEW code \in Int,
           exit_task(s, code, <<>>), origin' \in {"syscall", "exception", "abort"},
           origin' # "syscall" => parent[current_task] = NOPARENT /\ s = current_task
    PROVE  IInv'
  <1>1. frames = <<>> /\ current_task \in taken
    BY TypesAll DEF IInv, FramesOK
  <1> DEFINE below == <<>>
  <1>2. /\ below \in Seq(FrameType) /\ below = <<>> /\ exit_task(s, code, below)
        /\ \A j \in 1 .. Len(below) : below[j].slot \notin active /\ below[j].slot \in taken
        /\ \A j, k \in 1 .. Len(below) : below[j].slot = below[k].slot => j = k
    OBVIOUS
  <1> HIDE DEF below
  <1>3. QED BY <1>1, <1>2, ExitTaskStep

LEMMA KillStep ==
    ASSUME IInv, mode = "user", NEW from \in {"exception", "abort"}, kill(from)
    PROVE  IInv'
  <1>1. CASE ArgvMapped /\ origin' = from /\ exit_task(current_task, -1, <<>>)
    <2>1. parent[current_task] = NOPARENT /\ cr3 = ctx[current_task]
      BY <1>1 DEF ArgvMapped
    <2>2. cr3 # KERNEL
      BY <2>1, TypesAll, Constants
    <2>3. current_task \in active
      BY <2>2 DEF IInv, FramesOK
    <2>4. -1 \in Int
      OBVIOUS
    <2>5. QED BY <1>1, <2>1, <2>3, <2>4, UserExits
  <1>2. CASE /\ mode' = "crashed"
             /\ UNCHANGED <<table, pids, current_task, codes, contexts, cr3, frames, origin, intr>>
    BY <1>2, HaltStep
  <1>3. QED BY <1>1, <1>2 DEF kill

LEMMA SysExitStep == ASSUME IInv, NEW code \in Codes, sys_exit(code) PROVE IInv'
  <1>1. code \in Int /\ mode = "user" /\ current_task \in active /\ origin' = "syscall" /\ exit_task(current_task, code, <<>>)
    BY Constants DEF sys_exit, Running
  <1>2. QED BY <1>1, UserExits

LEMMA SysKillStep == ASSUME IInv, NEW p \in Pids, sys_kill(p) PROVE IInv'
  <1>1. mode = "user" /\ current_task \in active /\ -2 \in Int
    BY DEF sys_kill, Running
  <1>2. ASSUME NEW s \in get_task_by_pid(p), origin' = "syscall", exit_task(s, -2, <<>>) PROVE IInv'
    <2>1. s \in active
      BY DEF get_task_by_pid
    <2>2. QED BY <1>1, <1>2, <2>1, UserExits
  <1>3. CASE kill("abort")
    BY <1>1, <1>3, KillStep
  <1>4. QED BY <1>2, <1>3 DEF sys_kill

LEMMA ExceptionStep == ASSUME IInv, Exception PROVE IInv'
  BY KillStep DEF Exception
-----------------------------------------------------------------------------
LEMMA InitInv == ASSUME Init PROVE IInv
  <1>1. Len(exited) = 0 /\ Len(frames) = 0 /\ exited = <<>> /\ frames = <<>>
    BY DEF Init
  <1>2. /\ 0 \in Slots /\ 0 \in Pids /\ 1 \in Pids /\ Slots \subseteq Nat
    BY Constants
  <1>3. Types
    <2>1. active \subseteq Slots /\ taken \subseteq Slots /\ contexts \subseteq Pids /\ cr3 \in Pids
      BY <1>2 DEF Init
    <2>2. /\ pid \in [Slots -> Pids] /\ parent \in [Slots -> Pids \cup {NOPARENT}]
          /\ ctx \in [Slots -> Pids] /\ threads \in [Slots -> Seq(Pids)]
      BY <1>2 DEF Init
    <2>3. exit_codes \in [Slots -> [pid : Pids, exit_code : Int]] /\ exit_codes_idx \in Slots
      BY <1>2 DEF Init
    <2>4. mode \in Modes /\ frames \in Seq([slot : Slots, i : Nat \ {0}]) /\ exited \in Seq(Pids \X Int)
      BY DEF Init, Modes
    <2>5. QED BY <1>2, <2>1, <2>2, <2>3, <2>4 DEF Init, Types, TypeOK
  <1>4. UniquePids
    BY <1>1, <1>2 DEF Init, UniquePids
  <1>5. Dead
    BY <1>1 DEF Dead
  <1>6. FramesOK
    BY DEF Init, FramesOK
  <1>7. Clean
    <2>1. NoSlotLeak
      BY DEF Init, NoSlotLeak
    <2>2. contexts = {ctx[s] : s \in taken} /\ \A s \in taken : ctx[s] = pid[s]
      BY <1>2 DEF Init
    <2>3. QED BY <1>1, <1>2, <2>1, <2>2 DEF Init, Clean
  <1>8. RingOK
    <2>1. 0 % MaxTasks = 0
      BY <1>2, ModSmall
    <2>2. RecentExits = {}
      BY <1>1 DEF RecentExits
    <2>3. \A i \in Slots : exit_codes[i].pid = 0
      BY DEF Init
    <2>4. exit_codes_idx = 0
      BY DEF Init
    <2>5. QED BY <1>1, <1>2, <2>1, <2>2, <2>3, <2>4 DEF RingOK
  <1>9. QED BY <1>3, <1>4, <1>5, <1>6, <1>7, <1>8 DEF IInv

LEMMA NextInv == ASSUME IInv, [Next]_vars PROVE IInv'
  <1>1. CASE UNCHANGED vars
    <2>1. UNCHANGED <<active, taken, pid, parent, ctx, threads, current_pid, threaded, current_task, exit_codes,
                      exit_codes_idx, exited, contexts, cr3, mode, frames, origin, intr>>
      BY <1>1 DEF vars, table, pids, codes, cpu
    <2>2. Types' /\ UniquePids' /\ Dead'
      BY <2>1 DEF IInv, Types, TypeOK, UniquePids, Dead
    <2>3. FramesOK'
      BY <2>1 DEF IInv, FramesOK, Top
    <2>4. Clean'
      BY <2>1 DEF IInv, Clean, NoSlotLeak
    <2>5. RingOK'
      BY <2>1 DEF IInv, RingOK, RecentExits
    <2>6. QED BY <2>2, <2>3, <2>4, <2>5 DEF IInv
  <1>2. CASE Next
    BY <1>2, SpawnStep, ThreadStep, YieldStep, TickStep, SysExitStep, SysKillStep, ExceptionStep,
       DeallocStep, ExitFinishStep, InterruptReturnStep, DeviceInterruptStep DEF Next
  <1>3. QED BY <1>1, <1>2

(* The invariant the results below rest on.                                *)
THEOREM TasksInv == Spec => []IInv
  <1>1. Init => IInv
    BY InitInv
  <1>2. IInv /\ [Next]_vars => IInv'
    BY NextInv
  <1>3. QED BY <1>1, <1>2, PTL DEF Spec

(* Table, ring index, stack of activations and CPU state keep their types  *)
(* (TypeOK of Tasks), with threads and with a dead task resumed.           *)
THEOREM TasksTypeOK == Spec => []TypeOK
  <1>1. IInv => TypeOK
    BY DEF IInv, Types
  <1>2. QED BY <1>1, TasksInv, PTL

(* No two slots in use carry one pid, and no task exits twice (UniquePids):*)
(* the recursion of exit_task through threads and the resumption of a      *)
(* killed task never call exit_task for a task that is already dead.       *)
THEOREM TasksUniquePids == Spec => []UniquePids
  <1>1. IInv => UniquePids
    BY DEF IInv
  <1>2. QED BY <1>1, TasksInv, PTL

(* Without threads the end of a task, on whichever path exit_task is left, *)
(* keeps slots, page directories and the CPU in step (CleanExits).         *)
THEOREM TasksCleanExits == Spec => []CleanExits
  <1>1. ASSUME IInv PROVE CleanExits
    <2> SUFFICES ASSUME ~threaded PROVE LiveContexts /\ OwnContext /\ NoSlotLeak
      BY DEF CleanExits
    <2>1. /\ contexts = {ctx[s] : s \in taken} /\ NoSlotLeak
          /\ cr3 = KERNEL \/ (current_task \in taken /\ cr3 = ctx[current_task])
          /\ current_task \in active => cr3 = ctx[current_task]
      BY <1>1 DEF IInv, Clean
    <2>2. active \subseteq taken
      BY <1>1, TypesAll
    <2>3. LiveContexts
      BY <2>1, <2>2 DEF LiveContexts
    <2>4. OwnContext
      BY <2>1 DEF OwnContext, Running
    <2>5. QED BY <2>1, <2>3, <2>4
  <1>2. QED BY <1>1, TasksInv, PTL

(* get_exit_code answers, for each of the last MAX_TASKS tasks to exit,    *)
(* the code that task ended with (ExitCodesKept), the first task, whose    *)
(* pid is the value of unused entries, included.                           *)
THEOREM TasksExitCodesKept == Spec => []ExitCodesKept
  <1>1. IInv => ExitCodesKept
    BY InvExitCodes
  <1>2. QED BY <1>1, TasksInv, PTL
=============================================================================
