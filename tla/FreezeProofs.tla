----------------------------- MODULE FreezeProofs -----------------------------
(***************************************************************************)
(* The safety properties of module Freeze, proved for any set of threads   *)
(* and objects and any bounds.                                             *)
(***************************************************************************)
EXTENDS Freeze, TLAPS

Level == [obj : Object, tx : Tx, logged : BOOLEAN, done : BOOLEAN]

(* Where a thread steps back for a snapshot, and where it can be at all.   *)
Waiting == {"lock", "check", "asleep", "woken", "resume"}
PC == {"app", "gate", "body", "create", "ended"} \cup Waiting

(* What the variables of the workers, the logs and the snapshot hold.      *)
WorkerType ==
    /\ tpc \in [Thread -> PC]
    /\ ntx \in 0 .. MaxTx
    /\ open \in [Thread -> Seq(Level)]
    /\ closing \in [Thread -> Seq(Level)]
    /\ depth \in [Thread -> Nat]
    /\ own \in [Thread -> Nat]
    /\ asleep = {t \in Thread : tpc[t] = "asleep"}

LogType ==
    /\ log \in [Object -> Seq(Tx)]
    /\ last \in [Object -> Nat]
    /\ cid \in [Tx -> Nat]
    /\ heap \subseteq Tx

SnapType ==
    /\ registry \subseteq Thread
    /\ pending \subseteq Thread
    /\ lock \in [Object -> BOOLEAN]
    /\ spc \in {"none", "block", "wait", "save", "unblock", "copy"}
    /\ saved \in [last : [Object -> Nat], tail : [Object -> Nat], image : SUBSET Tx]
    /\ unseen \subseteq Thread

(* Where a thread is tells how many levels it has open, whether it closes  *)
(* one, and the depth it has stored.                                       *)
ThreadInv(t) ==
    /\ tpc[t] \in {"app", "ended"} => open[t] = <<>>
    /\ tpc[t] \in Waiting \cup {"gate"} =>
           Len(open[t]) = 1 /\ ~open[t][1].logged /\ ~open[t][1].done
    /\ own[t] = IF tpc[t] \in Waiting THEN 0 ELSE Len(open[t])
    /\ tpc[t] = "create" => open[t] # <<>>
    /\ tpc[t] # "body" => closing[t] = <<>>
    /\ tpc[t] = "body" /\ open[t] = <<>> => closing[t] # <<>>

(* The phases of the snapshot: it holds the manager's lock, and the        *)
(* objects its first loop has passed are locked.                           *)
PhaseInv ==
    /\ spc # "none" => manager = "snap"
    /\ spc = "block" => \A o \in Object \ todo : lock[o]
    /\ spc \in {"wait", "save"} => \A o \in Object : lock[o]

(* A thread whose depth was read as zero is not inside, or was not seen.   *)
BlockedInv ==
    /\ spc = "wait" => \A t \in registry \ todo : Inside(t) => t \in unseen
    /\ AllThreadsBlocked

(* The level is one that its thread opened: its transaction has no id yet, *)
(* and its flags say whether its method ran and where its entry is.        *)
LevelOk(t, l, n, id, h, lg) ==
    /\ l.tx[1] = t /\ l.tx[2] <= n
    /\ id[l.tx] = 0
    /\ l.done <=> l.tx \in h
    /\ l.logged => \E i \in DOMAIN lg[l.obj] : lg[l.obj][i] = l.tx
    /\ ~l.logged => \A o \in Object : \A i \in DOMAIN lg[o] : lg[o][i] # l.tx

LevelInv(t, l) == LevelOk(t, l, ntx, cid, heap, log)

LevelsInv(t) ==
    /\ \A i \in DOMAIN open[t] : LevelInv(t, open[t][i])
    /\ \A i, j \in DOMAIN open[t] : open[t][i].tx = open[t][j].tx => i = j
    /\ closing[t] # <<>> =>
           /\ Len(closing[t]) = 1
           /\ LevelInv(t, closing[t][1])
           /\ closing[t][1].logged /\ closing[t][1].done
           /\ \A i \in DOMAIN open[t] : open[t][i].tx # closing[t][1].tx

(* The transaction is that of a level of its thread that is open, or that  *)
(* is closing.                                                             *)
OpenIn(x, levels) == \E i \in DOMAIN levels[x[1]] : levels[x[1]][i].tx = x
ClosingIn(x, levels) == levels[x[1]] # <<>> /\ levels[x[1]][1].tx = x

IsOpen(x) == OpenIn(x, open)
IsClosing(x) == ClosingIn(x, closing)

IsLogged(x) == \E o \in Object : \E i \in DOMAIN log[o] : log[o][i] = x

(* A transaction has at most one entry; an entry without an id is that of  *)
(* a level still open or closing, and a call that is over both ran and was *)
(* logged.                                                                 *)
LogInv ==
    /\ \A o, p \in Object : \A i \in DOMAIN log[o], j \in DOMAIN log[p] :
           log[o][i] = log[p][j] => o = p /\ i = j
    /\ \A o \in Object : \A i \in DOMAIN log[o] :
           /\ log[o][i][2] <= ntx
           /\ cid[log[o][i]] <= last[o]
           /\ log[o][i] \in heap \/ IsOpen(log[o][i])
           /\ cid[log[o][i]] = 0 => IsOpen(log[o][i]) \/ IsClosing(log[o][i])
    /\ \A x \in heap : x[2] <= ntx /\ (IsLogged(x) \/ IsOpen(x))
    /\ \A x \in Tx : x[2] > ntx => cid[x] = 0

(* The snapshot has saved the object's last_commit and tail.               *)
IsSaved(o) == spc \in {"unblock", "copy"} \/ (spc = "save" /\ o \notin todo)

(* Above the saved tail no entry has an id the snapshot vouches for.       *)
TailInv ==
    \A o \in Object : IsSaved(o) =>
        /\ saved.last[o] <= last[o]
        /\ saved.tail[o] \in 1 .. Len(log[o]) + 1
        /\ \A i \in DOMAIN log[o] :
               i >= saved.tail[o] => cid[log[o][i]] = 0 \/ cid[log[o][i]] > saved.last[o]

(* With every thread seen, the tail is the end of the log until the heap   *)
(* is made read-only, and the image is what lies below the tails then.     *)
ImageInv ==
    unseen = {} =>
        /\ spc = "save" => \A o \in Object \ todo : saved.tail[o] = Len(log[o]) + 1
        /\ spc \in {"unblock", "copy"} =>
               /\ \A o \in Object : \A i \in DOMAIN log[o] :
                      i < saved.tail[o] => log[o][i] \in saved.image
               /\ \A x \in saved.image : \E o \in Object : \E i \in DOMAIN log[o] :
                      i < saved.tail[o] /\ log[o][i] = x

(* The entry will have, or has, an id above the saved one and lies, or     *)
(* will lie, below the saved tail.                                         *)
Missed(o, i) ==
    \/ spc = "save" /\ cid[log[o][i]] = 0
    \/ IsSaved(o) /\ i < saved.tail[o] /\ (cid[log[o][i]] = 0 \/ cid[log[o][i]] > saved.last[o])

MissedInv ==
    unseen = {} =>
        \A o, p \in Object : \A i \in DOMAIN log[o], j \in DOMAIN log[p] :
            Missed(o, i) /\ Missed(p, j) /\ log[o][i][1] = log[p][j][1]
            => log[o][i] = log[p][j]

(* The inductive invariant, in the parts that the steps change together.   *)
BaseInv == WorkerType /\ LogType /\ SnapType /\ \A t \in Thread : ThreadInv(t)

GateInv == PhaseInv /\ BlockedInv

DataInv == (\A t \in Thread : LevelsInv(t)) /\ LogInv

CutInv == TailInv /\ ImageInv /\ MissedInv

IInv == BaseInv /\ GateInv /\ DataInv /\ CutInv

-----------------------------------------------------------------------------
(* Appending to a sequence: its length, its domain and its other elements. *)
LEMMA Appended ==
    ASSUME NEW S, NEW s \in Seq(S), NEW e \in S
    PROVE  /\ Append(s, e) \in Seq(S) /\ Len(Append(s, e)) = Len(s) + 1
           /\ Append(s, e) # <<>>
           /\ DOMAIN Append(s, e) = DOMAIN s \cup {Len(s) + 1}
           /\ Len(s) + 1 \notin DOMAIN s
           /\ \A i \in DOMAIN s : Append(s, e)[i] = s[i]
           /\ Append(s, e)[Len(s) + 1] = e
OBVIOUS

(* Dropping the last element of a sequence.                                *)
LEMMA Dropped ==
    ASSUME NEW S, NEW s \in Seq(S), s # <<>>
    PROVE  /\ SubSeq(s, 1, Len(s) - 1) \in Seq(S)
           /\ Len(SubSeq(s, 1, Len(s) - 1)) = Len(s) - 1
           /\ Len(s) \in DOMAIN s /\ s[Len(s)] \in S
           /\ DOMAIN SubSeq(s, 1, Len(s) - 1) = DOMAIN s \ {Len(s)}
           /\ \A i \in DOMAIN s : i # Len(s) => SubSeq(s, 1, Len(s) - 1)[i] = s[i]
<1>1. Len(s) \in Nat \ {0} /\ DOMAIN s = 1 .. Len(s) /\ s \in [1 .. Len(s) -> S]
  OBVIOUS
<1>2. SubSeq(s, 1, Len(s) - 1) = [i \in 1 .. Len(s) - 1 |-> s[i]]
  BY <1>1
<1>3. SubSeq(s, 1, Len(s) - 1) \in Seq(S) /\ Len(SubSeq(s, 1, Len(s) - 1)) = Len(s) - 1
  BY <1>1
<1> QED
  BY <1>1, <1>2, <1>3

(* Replacing one element of a sequence.                                    *)
LEMMA Replaced ==
    ASSUME NEW S, NEW s \in Seq(S), NEW i \in DOMAIN s, NEW e \in S
    PROVE  /\ [s EXCEPT ![i] = e] \in Seq(S)
           /\ Len([s EXCEPT ![i] = e]) = Len(s)
           /\ DOMAIN [s EXCEPT ![i] = e] = DOMAIN s
           /\ \A j \in DOMAIN s : j # i => [s EXCEPT ![i] = e][j] = s[j]
           /\ [s EXCEPT ![i] = e][i] = e
OBVIOUS

(* A non-empty sequence, and one of one element.                           *)
LEMMA Singleton ==
    ASSUME NEW S, NEW s \in Seq(S)
    PROVE  /\ s # <<>> => Len(s) \in DOMAIN s
           /\ s = <<>> <=> Len(s) = 0
           /\ Len(s) = 1 => DOMAIN s = {1} /\ 1 \in DOMAIN s
           /\ s = <<>> => DOMAIN s = {}
           /\ \A i \in DOMAIN s : s[i] \in S
           /\ Len(s) \in Nat
OBVIOUS

(* A sequence of one element.                                              *)
LEMMA SingletonOf ==
    ASSUME NEW S, NEW e \in S
    PROVE  <<e>> \in Seq(S) /\ Len(<<e>>) = 1 /\ <<e>>[1] = e /\ <<e>> # <<>>
OBVIOUS

(* A tail stays within the log when the log keeps its length or grows by   *)
(* one entry.                                                              *)
LEMMA RoomGrows ==
    \A n \in Nat : \A m \in {n, n + 1} : \A c \in 1 .. n + 1 : c \in 1 .. m + 1
OBVIOUS

-----------------------------------------------------------------------------
(* What the actions that change a level, a log or the heap do to them.     *)

(* A thread changes its program counter.                                   *)
LEMMA Moves ==
    ASSUME WorkerType, NEW t \in Thread, NEW s \in PC, tpc' = [tpc EXCEPT ![t] = s]
    PROVE  /\ tpc' \in [Thread -> PC] /\ tpc'[t] = s
           /\ \A u \in Thread : u # t => tpc'[u] = tpc[u]
BY Zenon DEF WorkerType

(* It neither falls asleep nor wakes.                                      *)
LEMMA StaysAwake ==
    ASSUME WorkerType, NEW t \in Thread, NEW s \in PC, tpc' = [tpc EXCEPT ![t] = s],
           tpc[t] # "asleep", s # "asleep", asleep' = asleep
    PROVE  asleep' = {u \in Thread : tpc'[u] = "asleep"}
<1>1. \A u \in Thread : tpc'[u] = "asleep" <=> tpc[u] = "asleep"
  BY Zenon, Moves
<1> QED
  BY Zenon, <1>1 DEF WorkerType

(* A store to the depth.                                                   *)
LEMMA DepthSet ==
    ASSUME WorkerType, NEW t \in Thread, NEW d \in Nat, SetDepth(t, d)
    PROVE  /\ own' \in [Thread -> Nat] /\ depth' \in [Thread -> Nat]
           /\ own'[t] = d /\ \A u \in Thread : u # t => own'[u] = own[u]
BY Zenon DEF WorkerType, SetDepth

(* The stack of open levels of one thread changes.                         *)
LEMMA StackSet ==
    ASSUME WorkerType, NEW t \in Thread, NEW s \in Seq(Level), open' = [open EXCEPT ![t] = s]
    PROVE  /\ open' \in [Thread -> Seq(Level)] /\ open'[t] = s
           /\ \A u \in Thread : u # t => open'[u] = open[u]
BY Zenon DEF WorkerType

(* One thread's level being closed is set, the others stay.                *)
LEMMA ClosingSet ==
    ASSUME WorkerType, NEW t \in Thread, NEW s \in Seq(Level), closing' = [closing EXCEPT ![t] = s]
    PROVE  /\ closing' \in [Thread -> Seq(Level)] /\ closing'[t] = s
           /\ \A u \in Thread : u # t => closing'[u] = closing[u]
BY Zenon DEF WorkerType

(* notify pushes a level with a fresh transaction.                         *)
LEMMA OpenEffect ==
    ASSUME WorkerType, NEW t \in Thread, NEW o \in Object, Open(t, o)
    PROVE  \E l \in Level :
               /\ l.tx = <<t, ntx + 1>> /\ ~l.logged /\ ~l.done
               /\ open' \in [Thread -> Seq(Level)] /\ open'[t] = Append(open[t], l)
               /\ \A u \in Thread : u # t => open'[u] = open[u]
<1> DEFINE l == [obj |-> o, tx |-> <<t, ntx + 1>>, logged |-> FALSE, done |-> FALSE]
<1>1. <<t, ntx + 1>> \in Tx
  BY FreezeAssumption DEF Open, WorkerType, Tx
<1>2. l \in Level
  BY Zenon, <1>1 DEF Level
<1>3. open[t] \in Seq(Level)
  BY Zenon DEF WorkerType
<1>4. Append(open[t], l) \in Seq(Level)
  BY Zenon, <1>2, <1>3, Appended
<1>5. open' = [open EXCEPT ![t] = Append(open[t], l)]
  BY Zenon DEF Open
<1>6. l.tx = <<t, ntx + 1>> /\ ~l.logged /\ ~l.done
  OBVIOUS
<1> HIDE DEF l
<1> QED
  BY Zenon, <1>2, <1>4, <1>5, <1>6, StackSet

(* A level is flagged as logged or as done.                                *)
LEMMA Flagged ==
    ASSUME NEW l \in Level
    PROVE  /\ [l EXCEPT !.logged = TRUE] \in Level /\ [l EXCEPT !.logged = TRUE].logged
           /\ [l EXCEPT !.logged = TRUE].tx = l.tx /\ [l EXCEPT !.logged = TRUE].obj = l.obj
           /\ [l EXCEPT !.logged = TRUE].done = l.done
           /\ [l EXCEPT !.done = TRUE] \in Level /\ [l EXCEPT !.done = TRUE].done
           /\ [l EXCEPT !.done = TRUE].tx = l.tx /\ [l EXCEPT !.done = TRUE].obj = l.obj
           /\ [l EXCEPT !.done = TRUE].logged = l.logged
BY Zenon DEF Level

(* One level of a thread is replaced by another of the same call.          *)
LEMMA LevelSet ==
    ASSUME WorkerType, NEW t \in Thread, NEW i \in DOMAIN open[t], NEW l \in Level,
           open' = [open EXCEPT ![t] = [open[t] EXCEPT ![i] = l]]
    PROVE  /\ open' \in [Thread -> Seq(Level)]
           /\ Len(open'[t]) = Len(open[t]) /\ DOMAIN open'[t] = DOMAIN open[t]
           /\ open'[t][i] = l
           /\ \A j \in DOMAIN open[t] : j # i => open'[t][j] = open[t][j]
           /\ \A u \in Thread : u # t => open'[u] = open[u]
<1>1. open[t] \in Seq(Level)
  BY Zenon DEF WorkerType
<1>2. [open[t] EXCEPT ![i] = l] \in Seq(Level)
  BY Zenon, <1>1, Replaced
<1>3. /\ open' \in [Thread -> Seq(Level)] /\ open'[t] = [open[t] EXCEPT ![i] = l]
      /\ \A u \in Thread : u # t => open'[u] = open[u]
  BY Zenon, <1>2, StackSet
<1>4. /\ Len([open[t] EXCEPT ![i] = l]) = Len(open[t])
      /\ DOMAIN [open[t] EXCEPT ![i] = l] = DOMAIN open[t]
      /\ \A j \in DOMAIN open[t] : j # i => [open[t] EXCEPT ![i] = l][j] = open[t][j]
      /\ [open[t] EXCEPT ![i] = l][i] = l
  BY <1>1, Replaced
<1> QED
  BY Zenon, <1>3, <1>4

(* The logger appends the entry of one level.                              *)
LEMMA LogEffect ==
    ASSUME WorkerType, LogType, NEW t \in Thread, NEW i, LogLevel(t, i)
    PROVE  /\ i \in DOMAIN open[t] /\ open[t][i] \in Level
           /\ \E l \in Level :
                  /\ l.tx = open[t][i].tx /\ l.obj = open[t][i].obj
                  /\ l.done = open[t][i].done /\ l.logged
                  /\ open' = [open EXCEPT ![t] = [open[t] EXCEPT ![i] = l]]
           /\ log' \in [Object -> Seq(Tx)]
           /\ log'[open[t][i].obj] = Append(log[open[t][i].obj], open[t][i].tx)
           /\ \A o \in Object : o # open[t][i].obj => log'[o] = log[o]
<1>1. i \in DOMAIN open[t] /\ open[t][i] \in Level
  BY DEF LogLevel, WorkerType
<1>2. [open[t][i] EXCEPT !.logged = TRUE] \in Level
  BY Zenon, <1>1, Flagged
<1>3. open' = [open EXCEPT ![t] = [open[t] EXCEPT ![i] = [open[t][i] EXCEPT !.logged = TRUE]]]
  BY Zenon, <1>1 DEF LogLevel, WorkerType
<1>4. open[t][i].obj \in Object /\ open[t][i].tx \in Tx
  BY Zenon, <1>1 DEF Level
<1>5. log[open[t][i].obj] \in Seq(Tx)
  BY Zenon, <1>4 DEF LogType
<1>6. Append(log[open[t][i].obj], open[t][i].tx) \in Seq(Tx)
  BY Zenon, <1>4, <1>5, Appended
<1>7. log' = [log EXCEPT ![open[t][i].obj] = Append(log[open[t][i].obj], open[t][i].tx)]
  BY Zenon DEF LogLevel
<1>8. /\ log' \in [Object -> Seq(Tx)]
      /\ log'[open[t][i].obj] = Append(log[open[t][i].obj], open[t][i].tx)
      /\ \A o \in Object : o # open[t][i].obj => log'[o] = log[o]
  BY Zenon, <1>4, <1>6, <1>7 DEF LogType
<1> QED
  BY Zenon, <1>1, <1>2, <1>3, <1>8, Flagged

(* A method changes its object: Body, and the end of a creation.           *)
LEMMA DoneEffect ==
    ASSUME WorkerType, LogType, NEW t \in Thread, open[t] # <<>>,
           open' = [open EXCEPT ![t][Len(open[t])].done = TRUE],
           heap' = heap \cup {Top(t).tx}
    PROVE  /\ Len(open[t]) \in DOMAIN open[t] /\ Top(t) \in Level
           /\ \E l \in Level :
                  /\ l.tx = Top(t).tx /\ l.obj = Top(t).obj
                  /\ l.logged = Top(t).logged /\ l.done
                  /\ open' = [open EXCEPT ![t] = [open[t] EXCEPT ![Len(open[t])] = l]]
           /\ heap' \subseteq Tx
<1>1. Len(open[t]) \in DOMAIN open[t] /\ Top(t) \in Level
  BY DEF Top, WorkerType
<1>2. [Top(t) EXCEPT !.done = TRUE] \in Level
  BY Zenon, <1>1, Flagged
<1>3. open' = [open EXCEPT ![t] = [open[t] EXCEPT ![Len(open[t])] = [Top(t) EXCEPT !.done = TRUE]]]
  BY Zenon, <1>1 DEF Top, WorkerType
<1>4. Top(t).tx \in Tx
  BY Zenon, <1>1 DEF Level
<1> QED
  BY Zenon, <1>1, <1>2, <1>3, <1>4, Flagged DEF LogType

(* wait pops the innermost level.                                          *)
LEMMA CloseEffect ==
    ASSUME WorkerType, NEW t \in Thread, Close(t)
    PROVE  /\ open' \in [Thread -> Seq(Level)] /\ closing' \in [Thread -> Seq(Level)]
           /\ Len(open[t]) \in DOMAIN open[t] /\ Top(t) \in Level
           /\ Len(open'[t]) = Len(open[t]) - 1
           /\ DOMAIN open'[t] = DOMAIN open[t] \ {Len(open[t])}
           /\ \A i \in DOMAIN open[t] : i # Len(open[t]) => open'[t][i] = open[t][i]
           /\ closing'[t] = <<Top(t)>> /\ Len(closing'[t]) = 1
           /\ closing'[t] # <<>> /\ closing'[t][1] = Top(t)
           /\ \A u \in Thread : u # t => open'[u] = open[u] /\ closing'[u] = closing[u]
<1>1. PICK s \in Seq(Level) : s = open[t] /\ s # <<>>
  BY Zenon DEF Close, WorkerType
<1>2. PICK r : r = SubSeq(s, 1, Len(s) - 1)
  BY Zenon
<1>3. /\ r \in Seq(Level) /\ Len(r) = Len(s) - 1
      /\ Len(s) \in DOMAIN s /\ s[Len(s)] \in Level
      /\ DOMAIN r = DOMAIN s \ {Len(s)}
      /\ \A i \in DOMAIN s : i # Len(s) => r[i] = s[i]
  BY Zenon, <1>1, <1>2, Dropped
<1>4. /\ open' = [open EXCEPT ![t] = r]
      /\ closing' = [closing EXCEPT ![t] = <<Top(t)>>]
  BY Zenon, <1>1, <1>2 DEF Close
<1>5. Top(t) \in Level
  BY Zenon, <1>1, <1>3 DEF Top
<1>6. <<Top(t)>> \in Seq(Level) /\ Len(<<Top(t)>>) = 1 /\ <<Top(t)>>[1] = Top(t) /\ <<Top(t)>> # <<>>
  BY Zenon, <1>5, SingletonOf
<1>7. /\ open' \in [Thread -> Seq(Level)] /\ open'[t] = r
      /\ \A u \in Thread : u # t => open'[u] = open[u]
  BY Zenon, <1>3, <1>4, StackSet
<1>8. /\ closing' \in [Thread -> Seq(Level)] /\ closing'[t] = <<Top(t)>>
      /\ \A u \in Thread : u # t => closing'[u] = closing[u]
  BY Zenon, <1>4, <1>6, ClosingSet
<1> QED
  BY Zenon, <1>1, <1>3, <1>5, <1>6, <1>7, <1>8

(* log_commit gives the closed level the next id of its log.               *)
LEMMA CommitEffect ==
    ASSUME WorkerType, LogType, NEW t \in Thread, Commit(t), Len(closing[t]) = 1
    PROVE  \E l \in Level :
               /\ l = closing[t][1]
               /\ closing' \in [Thread -> Seq(Level)] /\ closing'[t] = <<>>
               /\ \A u \in Thread : u # t => closing'[u] = closing[u]
               /\ last' \in [Object -> Nat] /\ cid' \in [Tx -> Nat]
               /\ last'[l.obj] = last[l.obj] + 1 /\ last[l.obj] \in Nat /\ l.obj \in Object
               /\ \A o \in Object : o # l.obj => last'[o] = last[o]
               /\ cid'[l.tx] = last[l.obj] + 1 /\ l.tx \in Tx
               /\ \A x \in Tx : x # l.tx => cid'[x] = cid[x]
<1>1. closing[t][1] \in Level
  <2>1. closing[t] \in Seq(Level)
    BY Zenon DEF WorkerType
  <2> QED
    BY Zenon, <2>1, Singleton
<1>2. PICK l \in Level : l = closing[t][1]
  BY Zenon, <1>1
<1>3. l.obj \in Object /\ l.tx \in Tx
  BY Zenon DEF Level
<1>4. /\ last' = [last EXCEPT ![l.obj] = last[l.obj] + 1]
      /\ cid' = [cid EXCEPT ![l.tx] = last[l.obj] + 1]
  BY Zenon, <1>2 DEF Commit
<1>5. /\ last' \in [Object -> Nat] /\ cid' \in [Tx -> Nat] /\ last[l.obj] \in Nat
      /\ last'[l.obj] = last[l.obj] + 1
      /\ \A o \in Object : o # l.obj => last'[o] = last[o]
      /\ cid'[l.tx] = last[l.obj] + 1
      /\ \A x \in Tx : x # l.tx => cid'[x] = cid[x]
  BY <1>3, <1>4 DEF LogType
<1>6. <<>> \in Seq(Level)
  OBVIOUS
<1>7. /\ closing' \in [Thread -> Seq(Level)] /\ closing'[t] = <<>>
      /\ \A u \in Thread : u # t => closing'[u] = closing[u]
  BY Zenon, <1>6, ClosingSet DEF Commit
<1> QED
  BY Zenon, <1>2, <1>3, <1>5, <1>7

-----------------------------------------------------------------------------
(* The levels and the logs.                                                *)
(* Elements of the logs and of the stacks are typed.                       *)
LEMMA Elements ==
    ASSUME WorkerType, LogType
    PROVE  /\ \A o \in Object : log[o] \in Seq(Tx)
           /\ \A o \in Object : \A i \in DOMAIN log[o] : log[o][i] \in Tx
           /\ \A t \in Thread : open[t] \in Seq(Level) /\ closing[t] \in Seq(Level)
           /\ \A t \in Thread : \A i \in DOMAIN open[t] : open[t][i] \in Level
           /\ \A t \in Thread : closing[t] # <<>> => closing[t][1] \in Level
           /\ \A l \in Level : l.tx \in Tx /\ l.obj \in Object
           /\ \A x \in Tx : x[1] \in Thread /\ x[2] \in Nat
<1>1. \A o \in Object : log[o] \in Seq(Tx)
  BY Zenon DEF LogType
<1>2. \A t \in Thread : open[t] \in Seq(Level) /\ closing[t] \in Seq(Level)
  BY Zenon DEF WorkerType
<1>3. \A s \in Seq(Level) : s # <<>> => s[1] \in Level
  OBVIOUS
<1>4. \A l \in Level : l.tx \in Tx /\ l.obj \in Object
  BY Zenon DEF Level
<1>5. \A x \in Tx : x[1] \in Thread /\ x[2] \in Nat
  BY FreezeAssumption DEF Tx
<1> QED
  BY Zenon, <1>1, <1>2, <1>3, <1>4, <1>5, Singleton

(* A step that leaves the levels, the logs and the heap alone.             *)
LEMMA DataFrame ==
    ASSUME DataInv, UNCHANGED <<ntx, open, closing, log, last, cid, heap>>
    PROVE  DataInv'
<1>1. \A t \in Thread : LevelsInv(t)'
  BY Zenon DEF DataInv, LevelsInv, LevelInv
<1>2. LogInv'
  BY DEF DataInv, LogInv, IsOpen, IsClosing, IsLogged
<1> QED
  BY Zenon, <1>1, <1>2 DEF DataInv

(* A thread whose levels do not change keeps what holds of them if the     *)
(* step keeps it of each level.                                            *)
LEMMA OtherLevels ==
    ASSUME WorkerType, LogType, NEW u \in Thread, LevelsInv(u),
           open'[u] = open[u], closing'[u] = closing[u],
           \A l \in Level : LevelInv(u, l) => LevelInv(u, l)'
    PROVE  LevelsInv(u)'
<1>1. ASSUME NEW i \in DOMAIN open[u] PROVE LevelInv(u, open[u][i])'
  <2>1. PICK k \in Level : k = open[u][i] /\ k = open'[u][i] /\ LevelInv(u, k)
    BY ZenonT(40), Elements DEF LevelsInv
  <2>2. LevelInv(u, k)'
    BY Zenon, <2>1
  <2> QED
    BY Zenon, <2>1, <2>2 DEF LevelInv
<1>2. ASSUME closing[u] # <<>> PROVE LevelInv(u, closing[u][1])'
  <2>1. PICK k \in Level : k = closing[u][1] /\ k = closing'[u][1] /\ LevelInv(u, k)
    BY Zenon, <1>2, Elements DEF LevelsInv
  <2>2. LevelInv(u, k)'
    BY Zenon, <2>1
  <2> QED
    BY Zenon, <2>1, <2>2 DEF LevelInv
<1> QED
  BY Zenon, <1>1, <1>2 DEF LevelsInv

(* A fresh transaction.                                                    *)
LEMMA OpenData ==
    ASSUME WorkerType, LogType, DataInv, NEW t \in Thread, NEW o \in Object, Open(t, o)
    PROVE  DataInv'
<1>1. PICK l \in Level :
          /\ l.tx = <<t, ntx + 1>> /\ ~l.logged /\ ~l.done
          /\ open' \in [Thread -> Seq(Level)] /\ open'[t] = Append(open[t], l)
          /\ \A u \in Thread : u # t => open'[u] = open[u]
  BY Zenon, OpenEffect
<1>2. PICK x \in Tx : x = l.tx
  BY Zenon DEF Level
<1>3. x[1] = t /\ x[2] = ntx + 1 /\ x[2] <= ntx' /\ x[2] > ntx
  BY <1>1, <1>2 DEF Open, WorkerType
<1>4. \A n \in Nat : (n <= ntx => n <= ntx' /\ n # ntx + 1) /\ (n > ntx' => n > ntx)
  BY DEF Open, WorkerType
<1>5. UNCHANGED <<closing, log, last, cid, heap>>
  BY Zenon DEF Open, logVars
<1>6. \A p \in Object : \A i \in DOMAIN log[p] : log[p][i] # x
  BY <1>3, <1>4, Elements DEF DataInv, LogInv
<1>7. x \notin heap /\ cid[x] = 0
  BY Zenon, <1>3, <1>4, Elements DEF DataInv, LogInv, LogType
<1>8. \A i \in DOMAIN open[t] : open[t][i].tx # x
  BY <1>3, <1>4, Elements DEF DataInv, LevelsInv, LevelInv, LevelOk
<1>9. closing[t] = <<>>
  BY Zenon DEF Open
<1>10. PICK m : /\ m \notin DOMAIN open[t] /\ DOMAIN open'[t] = DOMAIN open[t] \cup {m}
                /\ open'[t][m] = l /\ \A i \in DOMAIN open[t] : open'[t][i] = open[t][i]
  <2>1. open[t] \in Seq(Level)
    BY Zenon, Elements
  <2>2. PICK m : m = Len(open[t]) + 1
    BY Zenon
  <2>3. /\ m \notin DOMAIN open[t] /\ DOMAIN open'[t] = DOMAIN open[t] \cup {m}
        /\ open'[t][m] = l /\ \A i \in DOMAIN open[t] : open'[t][i] = open[t][i]
    BY <1>1, <2>1, <2>2, Appended
  <2> QED
    BY Zenon, <2>3
<1>11. \A u \in Thread : \A i \in DOMAIN open[u] : i \in DOMAIN open'[u] /\ open'[u][i] = open[u][i]
  BY Zenon, <1>1, <1>10
<1>a. ASSUME NEW u \in Thread, NEW k \in Level, LevelInv(u, k) PROVE LevelInv(u, k)'
  BY Zenon, <1>a, <1>4, <1>5, Elements DEF LevelInv, LevelOk
<1>12. ASSUME NEW u \in Thread, u # t PROVE LevelsInv(u)'
  <2>1. LevelsInv(u) /\ open'[u] = open[u] /\ closing'[u] = closing[u]
    BY Zenon, <1>1, <1>5, <1>12 DEF DataInv
  <2> QED
    BY Zenon, <2>1, <1>a, OtherLevels
<1>13. LevelsInv(t)'
  <2>1. LevelInv(t, l)'
    BY Zenon, <1>1, <1>2, <1>3, <1>5, <1>6, <1>7 DEF LevelInv, LevelOk
  <2>2. ASSUME NEW i \in DOMAIN open[t] PROVE LevelInv(t, open[t][i])'
    <3>1. PICK k \in Level : k = open[t][i] /\ k = open'[t][i] /\ LevelInv(t, k)
      BY Zenon, <1>10, Elements DEF DataInv, LevelsInv
    <3>2. LevelInv(t, k)'
      BY Zenon, <3>1, <1>a
    <3> QED
      BY Zenon, <3>1, <3>2 DEF LevelInv
  <2>3. \A i, j \in DOMAIN open'[t] : open'[t][i].tx = open'[t][j].tx => i = j
    BY <1>2, <1>8, <1>10 DEF DataInv, LevelsInv
  <2> QED
    BY Zenon, <2>1, <2>2, <2>3, <1>5, <1>9, <1>10 DEF LevelsInv
<1>14. LogInv'
  <2>1. \A y \in Tx : (IsOpen(y) => IsOpen(y)') /\ (IsClosing(y) => IsClosing(y)')
    BY Zenon, <1>5, <1>11, Elements DEF IsOpen, OpenIn, IsClosing, ClosingIn
  <2>2. ASSUME NEW p \in Object, NEW i \in DOMAIN log[p]
        PROVE  /\ log[p][i][2] <= ntx'
               /\ cid[log[p][i]] <= last[p]
               /\ log[p][i] \in heap \/ IsOpen(log[p][i])'
               /\ cid[log[p][i]] = 0 => IsOpen(log[p][i])' \/ IsClosing(log[p][i])'
    <3>1. PICK y \in Tx : y = log[p][i]
      BY Zenon, Elements
    <3>2. /\ y[2] \in Nat /\ y[2] <= ntx /\ cid[y] <= last[p]
          /\ y \in heap \/ IsOpen(y)
          /\ cid[y] = 0 => IsOpen(y) \/ IsClosing(y)
      BY Zenon, <3>1, Elements DEF DataInv, LogInv
    <3>3. y[2] <= ntx' /\ (IsOpen(y) => IsOpen(y)') /\ (IsClosing(y) => IsClosing(y)')
      BY Zenon, <3>2, <2>1, <1>4
    <3> QED
      BY Zenon, <3>1, <3>2, <3>3, <1>5 DEF IsOpen, IsClosing
  <2>3. \A y \in heap : y[2] <= ntx' /\ (IsLogged(y)' \/ IsOpen(y)')
    BY Zenon, <2>1, <1>4, <1>5, Elements DEF DataInv, LogInv, LogType, IsLogged
  <2>4. \A y \in Tx : y[2] > ntx' => cid[y] = 0
    BY Zenon, <1>4, Elements DEF DataInv, LogInv
  <2> QED
    BY <2>2, <2>3, <2>4, <1>5 DEF DataInv, LogInv
<1> QED
  BY Zenon, <1>12, <1>13, <1>14 DEF DataInv

(* The entry of a level.                                                   *)
LEMMA LogData ==
    ASSUME WorkerType, LogType, DataInv, NEW t \in Thread, NEW i, LogLevel(t, i)
    PROVE  DataInv'
<1>1. /\ i \in DOMAIN open[t] /\ open[t][i] \in Level
      /\ log' \in [Object -> Seq(Tx)]
      /\ log'[open[t][i].obj] = Append(log[open[t][i].obj], open[t][i].tx)
      /\ \A o \in Object : o # open[t][i].obj => log'[o] = log[o]
  BY LogEffect
<1>2. PICK l \in Level :
          /\ l.tx = open[t][i].tx /\ l.obj = open[t][i].obj
          /\ l.done = open[t][i].done /\ l.logged
          /\ open' = [open EXCEPT ![t] = [open[t] EXCEPT ![i] = l]]
  BY LogEffect
<1>3. /\ DOMAIN open'[t] = DOMAIN open[t] /\ open'[t][i] = l
      /\ \A j \in DOMAIN open[t] : j # i => open'[t][j] = open[t][j]
      /\ \A u \in Thread : u # t => open'[u] = open[u]
  BY Zenon, <1>1, <1>2, LevelSet
<1>4. PICK x \in Tx, p \in Object : x = open[t][i].tx /\ p = open[t][i].obj
  BY Zenon, <1>1, Elements
<1>5. UNCHANGED <<ntx, closing, last, cid, heap>>
  BY Zenon DEF LogLevel
<1>6. /\ x[1] = t /\ cid[x] = 0 /\ x[2] <= ntx /\ (l.done <=> x \in heap)
      /\ \A o \in Object : \A k \in DOMAIN log[o] : log[o][k] # x
  <2>1. LevelInv(t, open[t][i])
    BY Zenon, <1>1 DEF DataInv, LevelsInv
  <2>2. ~open[t][i].logged
    BY Zenon DEF LogLevel
  <2>3. /\ x[1] = t /\ cid[x] = 0 /\ x[2] <= ntx /\ (open[t][i].done <=> x \in heap)
        /\ \A o \in Object : \A k \in DOMAIN log[o] : log[o][k] # x
    BY Zenon, <2>1, <2>2, <1>4 DEF LevelInv, LevelOk
  <2> QED
    BY Zenon, <2>3, <1>2
<1>7. \A o \in Object : \A k \in DOMAIN log[o] : log[o][k] # x
  BY Zenon, <1>6
<1>8. PICK m : /\ m \notin DOMAIN log[p] /\ DOMAIN log'[p] = DOMAIN log[p] \cup {m}
               /\ log'[p][m] = x /\ \A k \in DOMAIN log[p] : log'[p][k] = log[p][k]
  <2>1. log[p] \in Seq(Tx)
    BY Zenon, Elements
  <2>2. PICK m : m = Len(log[p]) + 1
    OBVIOUS
  <2>3. log'[p] = Append(log[p], x)
    BY Zenon, <1>1, <1>4
  <2>4. /\ m \notin DOMAIN log[p] /\ DOMAIN log'[p] = DOMAIN log[p] \cup {m}
        /\ log'[p][m] = x /\ \A k \in DOMAIN log[p] : log'[p][k] = log[p][k]
    BY <2>1, <2>2, <2>3, Appended
  <2> QED
    BY Zenon, <2>4
<1>9. \A o \in Object : \A k \in DOMAIN log[o] : k \in DOMAIN log'[o] /\ log'[o][k] = log[o][k]
  BY Zenon, <1>1, <1>4, <1>8
<1>10. \A o \in Object : \A k \in DOMAIN log'[o] :
           \/ o = p /\ k = m /\ log'[o][k] = x
           \/ k \in DOMAIN log[o] /\ log'[o][k] = log[o][k]
  BY Zenon, <1>1, <1>4, <1>8
<1>11. ASSUME NEW u \in Thread, NEW k \in Level, k.tx # x, LevelInv(u, k) PROVE LevelInv(u, k)'
  <2>1. k.obj \in Object
    BY Zenon, Elements
  <2> QED
    BY <1>11, <1>5, <1>9, <1>10, <2>1 DEF LevelInv, LevelOk
<1>12. ASSUME NEW u \in Thread, u # t PROVE LevelsInv(u)'
  <2>1. ASSUME NEW k \in Level, LevelInv(u, k) PROVE k.tx # x
    BY Zenon, <2>1, <1>6, <1>12 DEF LevelInv, LevelOk
  <2>2. LevelsInv(u) /\ open'[u] = open[u] /\ closing'[u] = closing[u]
    BY ZenonT(40), <1>3, <1>5, <1>12 DEF DataInv
  <2> QED
    BY Zenon, <2>1, <2>2, <1>11, OtherLevels
<1>13. LevelInv(t, l)'
  BY <1>2, <1>4, <1>5, <1>6, <1>8 DEF LevelInv, LevelOk
<1>14. LevelsInv(t)'
  <2>1. ASSUME NEW j \in DOMAIN open[t] PROVE LevelInv(t, open[t][j])'
    <3>1. CASE j = i
      BY Zenon, <3>1, <1>3, <1>13 DEF LevelInv
    <3>2. CASE j # i
      <4>1. PICK k \in Level : k = open[t][j] /\ k = open'[t][j] /\ LevelInv(t, k) /\ k.tx # x
        BY Zenon, <3>2, <1>1, <1>3, <1>4, Elements DEF DataInv, LevelsInv
      <4>2. LevelInv(t, k)'
        BY Zenon, <4>1, <1>11
      <4> QED
        BY Zenon, <4>1, <4>2 DEF LevelInv
    <3> QED
      BY Zenon, <3>1, <3>2
  <2>2. \A j \in DOMAIN open[t] : open'[t][j].tx = open[t][j].tx
    BY Zenon, <1>2, <1>3
  <2>3. closing[t] # <<>> => LevelInv(t, closing[t][1])'
    <3> SUFFICES ASSUME closing[t] # <<>> PROVE LevelInv(t, closing[t][1])'
      BY Zenon
    <3>1. PICK k \in Level : k = closing[t][1] /\ k = closing'[t][1] /\ LevelInv(t, k) /\ k.tx # x
      BY Zenon, <1>1, <1>4, <1>5, Elements DEF DataInv, LevelsInv
    <3>2. LevelInv(t, k)'
      BY Zenon, <3>1, <1>11
    <3> QED
      BY Zenon, <3>1, <3>2 DEF LevelInv
  <2> QED
    BY <2>1, <2>2, <2>3, <1>3, <1>5 DEF DataInv, LevelsInv
<1>15. LogInv'
  <2>1. \A y \in Tx : (IsOpen(y) => IsOpen(y)') /\ (IsClosing(y) => IsClosing(y)')
    <3>1. \A u \in Thread : \A j \in DOMAIN open[u] :
              j \in DOMAIN open'[u] /\ open'[u][j].tx = open[u][j].tx
      BY Zenon, <1>2, <1>3
    <3> QED
      BY Zenon, <3>1, <1>5, Elements DEF IsOpen, OpenIn, IsClosing, ClosingIn
  <2>2. IsOpen(x)'
    <3>1. i \in DOMAIN open'[t] /\ open'[t][i].tx = x
      BY Zenon, <1>1, <1>2, <1>3, <1>4
    <3>2. x[1] = t
      BY Zenon, <1>6
    <3> QED
      BY Zenon, <3>1, <3>2 DEF IsOpen, OpenIn
  <2>3. cid[x] <= last[p]
    BY <1>6 DEF LogType
  <2>4. \A o \in Object : \A k \in DOMAIN log'[o] :
          /\ log'[o][k][2] <= ntx'
          /\ cid'[log'[o][k]] <= last'[o]
          /\ log'[o][k] \in heap' \/ IsOpen(log[o][k])'
          /\ cid'[log'[o][k]] = 0 => IsOpen(log[o][k])' \/ IsClosing(log[o][k])'
    <3> SUFFICES ASSUME NEW o \in Object, NEW k \in DOMAIN log'[o], NEW y, y = log'[o][k]
                 PROVE  /\ y[2] <= ntx' /\ cid'[y] <= last'[o]
                        /\ y \in heap' \/ IsOpen(y)'
                        /\ cid'[y] = 0 => IsOpen(y)' \/ IsClosing(y)'
      BY Zenon DEF IsOpen, IsClosing
    <3>1. CASE o = p /\ k = m /\ y = x
      BY Zenon, <3>1, <2>2, <2>3, <1>5, <1>6
    <3>2. CASE k \in DOMAIN log[o] /\ y = log[o][k]
      BY <3>2, <2>1, <1>5, Elements DEF DataInv, LogInv
    <3> QED
      BY ZenonT(40), <3>1, <3>2, <1>10
  <2>5. \A y \in heap : y[2] <= ntx /\ (IsLogged(y)' \/ IsOpen(y)')
    <3>1. \A y \in Tx : IsLogged(y) => IsLogged(y)'
      BY ZenonT(40), <1>9 DEF IsLogged
    <3> QED
      BY Zenon, <2>1, <3>1 DEF DataInv, LogInv, LogType
  <2>6. \A o, q \in Object : \A j \in DOMAIN log'[o], k \in DOMAIN log'[q] :
            log'[o][j] = log'[q][k] => o = q /\ j = k
    BY <1>7, <1>10 DEF DataInv, LogInv
  <2>7. \A y \in Tx : y[2] > ntx' => cid'[y] = 0
    BY Zenon, <1>5 DEF DataInv, LogInv
  <2> QED
    BY Zenon, <2>4, <2>5, <2>6, <2>7, <1>5 DEF LogInv
<1> QED
  BY ZenonT(40), <1>12, <1>14, <1>15 DEF DataInv

(* A level is flagged as done and its transaction put into the heap.       *)
LEMMA DoneLevels ==
    ASSUME WorkerType, LogType, DataInv, NEW t \in Thread, NEW n \in DOMAIN open[t],
           NEW l \in Level, l.tx = open[t][n].tx, l.obj = open[t][n].obj,
           l.logged = open[t][n].logged, l.done,
           DOMAIN open'[t] = DOMAIN open[t], open'[t][n] = l,
           \A j \in DOMAIN open[t] : j # n => open'[t][j] = open[t][j],
           \A u \in Thread : u # t => open'[u] = open[u],
           heap' = heap \cup {l.tx},
           UNCHANGED <<ntx, closing, log, last, cid>>
    PROVE  DataInv'
<1>1. PICK x \in Tx : x = l.tx
  BY Zenon, Elements
<1>2. x[1] = t /\ x[2] <= ntx /\ heap' = heap \cup {x} /\ LevelInv(t, open[t][n])
  <2>1. LevelInv(t, open[t][n])
    BY ZenonT(40) DEF DataInv, LevelsInv
  <2> QED
    BY Zenon, <2>1, <1>1 DEF LevelInv, LevelOk
<1>3. ASSUME NEW u \in Thread, NEW k \in Level, k.tx # x, LevelInv(u, k) PROVE LevelInv(u, k)'
  BY <1>3, <1>2 DEF LevelInv, LevelOk
<1>4. ASSUME NEW u \in Thread, u # t PROVE LevelsInv(u)'
  <2>1. ASSUME NEW k \in Level, LevelInv(u, k) PROVE k.tx # x
    BY Zenon, <2>1, <1>2, <1>4 DEF LevelInv, LevelOk
  <2>2. LevelsInv(u) /\ open'[u] = open[u] /\ closing'[u] = closing[u]
    BY ZenonT(40), <1>4 DEF DataInv
  <2> QED
    BY Zenon, <2>1, <2>2, <1>3, OtherLevels
<1>5. LevelInv(t, l)'
  BY SMTT(30), <1>1, <1>2 DEF LevelInv, LevelOk
<1>6. LevelsInv(t)'
  <2>1. ASSUME NEW j \in DOMAIN open[t] PROVE LevelInv(t, open[t][j])'
    <3>1. CASE j = n
      BY Zenon, <3>1, <1>5 DEF LevelInv
    <3>2. CASE j # n
      <4>1. PICK k \in Level : k = open[t][j] /\ k = open'[t][j] /\ LevelInv(t, k) /\ k.tx # x
        BY <3>2, <1>1, Elements DEF DataInv, LevelsInv
      <4>2. LevelInv(t, k)'
        BY Zenon, <4>1, <1>3
      <4> QED
        BY Zenon, <4>1, <4>2 DEF LevelInv
    <3> QED
      BY ZenonT(40), <3>1, <3>2
  <2>2. \A j \in DOMAIN open[t] : open'[t][j].tx = open[t][j].tx
    BY ZenonT(40)
  <2>3. closing[t] # <<>> => LevelInv(t, closing[t][1])'
    <3> SUFFICES ASSUME closing[t] # <<>> PROVE LevelInv(t, closing[t][1])'
      BY Zenon
    <3>1. PICK k \in Level : k = closing[t][1] /\ k = closing'[t][1] /\ LevelInv(t, k) /\ k.tx # x
      BY SMTT(30), <1>1, Elements DEF DataInv, LevelsInv
    <3>2. LevelInv(t, k)'
      BY Zenon, <3>1, <1>3
    <3> QED
      BY Zenon, <3>1, <3>2 DEF LevelInv
  <2> QED
    BY <2>1, <2>2, <2>3 DEF DataInv, LevelsInv
<1>7. LogInv'
  <2>1. \A y \in Tx : /\ IsOpen(y) => IsOpen(y)'
                      /\ IsClosing(y) => IsClosing(y)'
                      /\ IsLogged(y) => IsLogged(y)'
    <3>1. \A u \in Thread : \A j \in DOMAIN open[u] :
              j \in DOMAIN open'[u] /\ open'[u][j].tx = open[u][j].tx
      BY SMTT(30)
    <3> QED
      BY ZenonT(40), <3>1, Elements DEF IsOpen, OpenIn, IsClosing, ClosingIn, IsLogged
  <2>2. IsOpen(x)'
    BY Zenon, <1>1, <1>2 DEF IsOpen, OpenIn
  <2>3. \A o \in Object : \A k \in DOMAIN log[o] :
          /\ log[o][k][2] <= ntx
          /\ cid[log[o][k]] <= last[o]
          /\ log[o][k] \in heap' \/ IsOpen(log[o][k])'
          /\ cid[log[o][k]] = 0 => IsOpen(log[o][k])' \/ IsClosing(log[o][k])'
    <3> SUFFICES ASSUME NEW o \in Object, NEW k \in DOMAIN log[o], NEW y, y = log[o][k]
                 PROVE  /\ y[2] <= ntx /\ cid[y] <= last[o]
                        /\ y \in heap' \/ IsOpen(y)'
                        /\ cid[y] = 0 => IsOpen(y)' \/ IsClosing(y)'
      BY Zenon DEF IsOpen, IsClosing
    <3>1. y \in Tx
      BY Zenon, Elements
    <3> QED
      BY Zenon, <3>1, <2>1, <1>2 DEF DataInv, LogInv
  <2>4. \A y \in heap' : y[2] <= ntx /\ (IsLogged(y)' \/ IsOpen(y)')
    BY Zenon, <2>1, <2>2, <1>2 DEF DataInv, LogInv, LogType
  <2> QED
    BY <2>3, <2>4 DEF DataInv, LogInv
<1> QED
  BY Zenon, <1>4, <1>6, <1>7 DEF DataInv

(* The method of the innermost level runs.                                 *)
LEMMA DoneData ==
    ASSUME WorkerType, LogType, DataInv, NEW t \in Thread, open[t] # <<>>, Body(t) \/ Created(t)
    PROVE  DataInv'
<1>0. /\ open' = [open EXCEPT ![t][Len(open[t])].done = TRUE]
      /\ heap' = heap \cup {Top(t).tx}
      /\ UNCHANGED <<ntx, closing, log, last, cid>>
  BY Zenon DEF Body, Created
<1>1. PICK n \in DOMAIN open[t] : n = Len(open[t]) /\ open[t][n] = Top(t)
  BY Zenon, <1>0, DoneEffect DEF Top
<1>2. PICK l \in Level :
          /\ l.tx = Top(t).tx /\ l.obj = Top(t).obj /\ l.logged = Top(t).logged /\ l.done
          /\ open' = [open EXCEPT ![t] = [open[t] EXCEPT ![n] = l]]
  BY Zenon, <1>0, <1>1, DoneEffect
<1>3. /\ DOMAIN open'[t] = DOMAIN open[t] /\ open'[t][n] = l
      /\ \A j \in DOMAIN open[t] : j # n => open'[t][j] = open[t][j]
      /\ \A u \in Thread : u # t => open'[u] = open[u]
  BY Zenon, <1>1, <1>2, LevelSet
<1>4. /\ heap' = heap \cup {l.tx} /\ l.tx = open[t][n].tx /\ l.obj = open[t][n].obj
      /\ l.logged = open[t][n].logged
  BY Zenon, <1>0, <1>1, <1>2
<1> QED
  BY Zenon, <1>0, <1>1, <1>2, <1>3, <1>4, DoneLevels

(* The innermost level is closed.                                          *)
LEMMA CloseData ==
    ASSUME WorkerType, LogType, DataInv, NEW t \in Thread, Close(t)
    PROVE  DataInv'
<1>0. PICK l \in Level : l = Top(t)
  BY Zenon, CloseEffect
<1>n. PICK n : n = Len(open[t])
  BY Zenon
<1>1. /\ n \in DOMAIN open[t] /\ open[t][n] = l
      /\ DOMAIN open'[t] = DOMAIN open[t] \ {n}
      /\ \A i \in DOMAIN open[t] : i # n => open'[t][i] = open[t][i]
      /\ Len(closing'[t]) = 1 /\ closing'[t] # <<>> /\ closing'[t][1] = l
      /\ \A u \in Thread : u # t => open'[u] = open[u] /\ closing'[u] = closing[u]
  BY Zenon, <1>0, <1>n, CloseEffect DEF Top
<1>2. UNCHANGED <<ntx, log, last, cid, heap>> /\ closing[t] = <<>> /\ l.logged /\ l.done
  BY Zenon, <1>0 DEF Close, logVars
<1>3. PICK x \in Tx : x = l.tx
  BY Zenon, Elements
<1>4. LevelInv(t, l)
  BY <1>1 DEF DataInv, LevelsInv
<1>5. ASSUME NEW u \in Thread, NEW k \in Level, LevelInv(u, k) PROVE LevelInv(u, k)'
  BY Zenon, <1>5, <1>2 DEF LevelInv, LevelOk
<1>6. ASSUME NEW u \in Thread, u # t PROVE LevelsInv(u)'
  <2>1. LevelsInv(u) /\ open'[u] = open[u] /\ closing'[u] = closing[u]
    BY Zenon, <1>1, <1>6 DEF DataInv
  <2> QED
    BY Zenon, <2>1, <1>5, OtherLevels
<1>7. LevelsInv(t)'
  <2>1. ASSUME NEW j \in DOMAIN open'[t] PROVE LevelInv(t, open[t][j])' /\ open'[t][j].tx # l.tx
    <3>1. PICK k \in Level : k = open[t][j] /\ k = open'[t][j] /\ LevelInv(t, k) /\ k.tx # l.tx
      BY <1>1, Elements DEF DataInv, LevelsInv
    <3>2. LevelInv(t, k)'
      BY Zenon, <3>1, <1>5
    <3> QED
      BY Zenon, <3>1, <3>2 DEF LevelInv
  <2>2. \A i, j \in DOMAIN open'[t] : open'[t][i].tx = open'[t][j].tx => i = j
    BY <1>1 DEF DataInv, LevelsInv
  <2>3. LevelInv(t, closing[t][1])'
    <3>1. LevelInv(t, l)'
      BY ZenonT(40), <1>4, <1>5
    <3> QED
      BY <3>1, <1>1 DEF LevelInv, LevelOk
  <2> QED
    BY <2>1, <2>2, <2>3, <1>1, <1>2 DEF LevelsInv
<1>8. LogInv'
  <2>1. ASSUME NEW y \in Tx, y # x
        PROVE  (IsOpen(y) => IsOpen(y)') /\ (IsClosing(y) => IsClosing(y)')
    <3>1. ASSUME IsOpen(y) PROVE IsOpen(y)'
      <4>0. PICK u \in Thread : u = y[1]
        BY Zenon, Elements
      <4>1. PICK i \in DOMAIN open[u] : open[u][i].tx = y
        BY Zenon, <3>1, <4>0 DEF IsOpen, OpenIn
      <4>2. i \in DOMAIN open'[u] /\ open'[u][i] = open[u][i]
        BY Zenon, <4>1, <2>1, <1>1, <1>3
      <4> QED
        BY Zenon, <4>0, <4>1, <4>2 DEF IsOpen, OpenIn
    <3>2. ASSUME IsClosing(y) PROVE IsClosing(y)'
      BY Zenon, <3>2, <1>1, <1>2, Elements DEF IsClosing, ClosingIn
    <3> QED
      BY Zenon, <3>1, <3>2
  <2>2. IsClosing(x)' /\ x \in heap /\ IsLogged(x)
    <3>1. x[1] = t
      BY Zenon, <1>3, <1>4 DEF LevelInv, LevelOk
    <3>2. IsClosing(x)'
      BY Zenon, <3>1, <1>1, <1>3 DEF IsClosing, ClosingIn
    <3>3. l.obj \in Object
      BY Zenon, Elements
    <3> QED
      BY Zenon, <3>2, <3>3, <1>2, <1>3, <1>4 DEF LevelInv, LevelOk, IsLogged
  <2>3. \A o \in Object : \A k \in DOMAIN log[o] :
          /\ log[o][k][2] <= ntx
          /\ cid[log[o][k]] <= last[o]
          /\ log[o][k] \in heap \/ IsOpen(log[o][k])'
          /\ cid[log[o][k]] = 0 => IsOpen(log[o][k])' \/ IsClosing(log[o][k])'
    <3> SUFFICES ASSUME NEW o \in Object, NEW k \in DOMAIN log[o], NEW y, y = log[o][k]
                 PROVE  /\ y[2] <= ntx /\ cid[y] <= last[o]
                        /\ y \in heap \/ IsOpen(y)'
                        /\ cid[y] = 0 => IsOpen(y)' \/ IsClosing(y)'
      BY Zenon, <1>2 DEF IsOpen, IsClosing
    <3>1. y \in Tx
      BY Zenon, Elements
    <3> QED
      BY ZenonT(40), <3>1, <2>1, <2>2 DEF DataInv, LogInv
  <2>4. \A y \in heap : y[2] <= ntx /\ (IsLogged(y)' \/ IsOpen(y)')
    <3>1. \A y : IsLogged(y) => IsLogged(y)'
      BY Zenon, <1>2 DEF IsLogged
    <3> QED
      BY Zenon, <3>1, <2>1, <2>2 DEF DataInv, LogInv, LogType
  <2> QED
    BY <2>3, <2>4, <1>2 DEF DataInv, LogInv
<1> QED
  BY Zenon, <1>6, <1>7, <1>8 DEF DataInv

(* The closed level gets its id.                                           *)
LEMMA CommitData ==
    ASSUME WorkerType, LogType, DataInv, NEW t \in Thread, Commit(t)
    PROVE  DataInv'
<1>1. closing[t] # <<>> /\ Len(closing[t]) = 1
  BY Zenon DEF Commit, DataInv, LevelsInv
<1>2. PICK l \in Level :
          /\ l = closing[t][1]
          /\ closing'[t] = <<>>
          /\ \A u \in Thread : u # t => closing'[u] = closing[u]
          /\ last' \in [Object -> Nat] /\ cid' \in [Tx -> Nat]
          /\ last'[l.obj] = last[l.obj] + 1 /\ last[l.obj] \in Nat /\ l.obj \in Object
          /\ \A o \in Object : o # l.obj => last'[o] = last[o]
          /\ cid'[l.tx] = last[l.obj] + 1 /\ l.tx \in Tx
          /\ \A x \in Tx : x # l.tx => cid'[x] = cid[x]
  BY Zenon, <1>1, CommitEffect
<1>3. UNCHANGED <<ntx, open, log, heap>>
  BY Zenon DEF Commit
<1>4. PICK x \in Tx, p \in Object : x = l.tx /\ p = l.obj
  BY Zenon, <1>2
<1>5. LevelInv(t, l) /\ l.logged /\ \A i \in DOMAIN open[t] : open[t][i].tx # x
  BY Zenon, <1>1, <1>2, <1>4 DEF DataInv, LevelsInv
<1>6. PICK m \in DOMAIN log[p] : log[p][m] = x
  BY Zenon, <1>4, <1>5 DEF LevelInv, LevelOk
<1>7. x[1] = t /\ x[2] <= ntx
  BY Zenon, <1>4, <1>5 DEF LevelInv, LevelOk
<1>8. ASSUME NEW u \in Thread, NEW k \in Level, k.tx # x, LevelInv(u, k) PROVE LevelInv(u, k)'
  <2>1. k.tx \in Tx
    BY Zenon, Elements
  <2>2. cid'[k.tx] = cid[k.tx]
    BY Zenon, <2>1, <1>8, <1>2, <1>4
  <2> QED
    BY Zenon, <2>2, <1>8, <1>3 DEF LevelInv, LevelOk
<1>9. ASSUME NEW u \in Thread, u # t PROVE LevelsInv(u)'
  <2>1. ASSUME NEW k \in Level, LevelInv(u, k) PROVE k.tx # x
    BY Zenon, <2>1, <1>7, <1>9 DEF LevelInv, LevelOk
  <2>2. LevelsInv(u) /\ open'[u] = open[u] /\ closing'[u] = closing[u]
    BY Zenon, <1>2, <1>3, <1>9 DEF DataInv
  <2> QED
    BY Zenon, <2>1, <2>2, <1>8, OtherLevels
<1>10. LevelsInv(t)'
  <2>1. ASSUME NEW j \in DOMAIN open[t] PROVE LevelInv(t, open[t][j])'
    <3>1. PICK k \in Level : k = open[t][j] /\ LevelInv(t, k) /\ k.tx # x
      BY <1>5, Elements DEF DataInv, LevelsInv
    <3>2. LevelInv(t, k)'
      BY ZenonT(40), <3>1, <1>8
    <3> QED
      BY Zenon, <3>1, <3>2, <1>3 DEF LevelInv
  <2> QED
    BY <2>1, <1>2, <1>3 DEF DataInv, LevelsInv
<1>11. LogInv'
  <2>1. \A y \in Tx : /\ IsOpen(y) => IsOpen(y)'
                      /\ y # x /\ IsClosing(y) => IsClosing(y)'
                      /\ IsLogged(y) => IsLogged(y)'
    <3>1. \A y \in Tx : IsOpen(y) => IsOpen(y)'
      BY Zenon, <1>3 DEF IsOpen, OpenIn
    <3>2. \A y \in Tx : IsLogged(y) => IsLogged(y)'
      BY Zenon, <1>3 DEF IsLogged
    <3>3. ASSUME NEW y \in Tx, y # x, IsClosing(y) PROVE IsClosing(y)'
      <4>1. y[1] \in Thread
        BY Zenon, Elements
      <4>2. y[1] # t
        BY Zenon, <3>3, <1>2, <1>4 DEF IsClosing, ClosingIn
      <4>3. closing'[y[1]] = closing[y[1]]
        BY Zenon, <4>1, <4>2, <1>2
      <4> QED
        BY Zenon, <3>3, <4>3 DEF IsClosing, ClosingIn
    <3> QED
      BY Zenon, <3>1, <3>2, <3>3
  <2>2. \A o \in Object : \A k \in DOMAIN log[o] :
          /\ log[o][k][2] <= ntx
          /\ cid'[log[o][k]] <= last'[o]
          /\ log[o][k] \in heap \/ IsOpen(log[o][k])'
          /\ cid'[log[o][k]] = 0 => IsOpen(log[o][k])' \/ IsClosing(log[o][k])'
    <3> SUFFICES ASSUME NEW o \in Object, NEW k \in DOMAIN log[o], NEW y, y = log[o][k]
                 PROVE  /\ y[2] <= ntx /\ cid'[y] <= last'[o]
                        /\ y \in heap \/ IsOpen(y)'
                        /\ cid'[y] = 0 => IsOpen(y)' \/ IsClosing(y)'
      BY Zenon, <1>3 DEF IsOpen, IsClosing
    <3>1. /\ y \in Tx /\ y[2] <= ntx /\ cid[y] <= last[o] /\ (y \in heap \/ IsOpen(y))
          /\ cid[y] = 0 => IsOpen(y) \/ IsClosing(y)
      BY Zenon, Elements DEF DataInv, LogInv
    <3>2. CASE y = x
      <4>1. o = p
        BY Zenon, <3>2, <1>6 DEF DataInv, LogInv
      <4>2. cid'[y] = last[p] + 1 /\ last'[o] = last[p] + 1 /\ last[p] \in Nat
        BY Zenon, <4>1, <3>2, <1>2, <1>4
      <4>3. cid'[y] # 0 /\ cid'[y] <= last'[o]
        BY <4>2
      <4> QED
        BY Zenon, <4>3, <3>1, <2>1
    <3>3. CASE y # x
      <4>1. cid'[y] = cid[y] /\ cid[y] \in Nat
        BY Zenon, <3>1, <3>3, <1>2, <1>4 DEF LogType
      <4>2. last[o] \in Nat /\ last'[o] \in {last[o], last[o] + 1}
        BY Zenon, <1>2 DEF LogType
      <4>3. cid'[y] <= last'[o]
        BY <4>1, <4>2, <3>1
      <4> QED
        BY Zenon, <4>1, <4>3, <3>1, <3>3, <2>1
    <3> QED
      BY ZenonT(40), <3>2, <3>3
  <2>3. \A y \in heap : y[2] <= ntx /\ (IsLogged(y)' \/ IsOpen(y)')
    BY Zenon, <2>1 DEF DataInv, LogInv, LogType
  <2>4. \A y \in Tx : y[2] > ntx => cid'[y] = 0
    <3>1. ~(x[2] > ntx)
      BY <1>7, Elements DEF WorkerType
    <3> QED
      BY Zenon, <3>1, <1>2, <1>4 DEF DataInv, LogInv
  <2> QED
    BY <2>2, <2>3, <2>4, <1>3 DEF DataInv, LogInv
<1> QED
  BY Zenon, <1>9, <1>10, <1>11 DEF DataInv

-----------------------------------------------------------------------------
(* Types, and what the place of a thread tells.                            *)
LEMMA OtherThread ==
    ASSUME NEW u \in Thread, ThreadInv(u), tpc'[u] = tpc[u], open'[u] = open[u],
           closing'[u] = closing[u], own'[u] = own[u]
    PROVE  ThreadInv(u)'
BY Zenon DEF ThreadInv

(* A thread moves and changes nothing else.                                *)
LEMMA MoveBase ==
    ASSUME BaseInv, NEW t \in Thread, NEW s \in PC, tpc' = [tpc EXCEPT ![t] = s],
           tpc[t] # "asleep", s # "asleep",
           (tpc[t] \in Waiting /\ s \in Waiting) \/ (tpc[t] = "gate" /\ s = "body")
           \/ (tpc[t] = "body" /\ s = "create" /\ open[t] # <<>> /\ closing[t] = <<>>)
           \/ (tpc[t] = "app" /\ s = "ended"),
           UNCHANGED <<levelVars, depthVars, asleep, logVars, pending, lock, spc, saved>>,
           registry' \subseteq Thread, unseen' = unseen
    PROVE  BaseInv'
<1>1. /\ tpc' \in [Thread -> PC] /\ tpc'[t] = s
      /\ \A u \in Thread : u # t => tpc'[u] = tpc[u]
  BY Zenon, Moves DEF BaseInv
<1>2. WorkerType' /\ LogType' /\ SnapType'
  <2>1. asleep' = {u \in Thread : tpc'[u] = "asleep"}
    BY ZenonT(40), StaysAwake DEF BaseInv
  <2> QED
    BY Zenon, <1>1, <2>1 DEF BaseInv, WorkerType, LogType, SnapType, levelVars, depthVars, logVars
<1>3. ThreadInv(t)'
  <2>1. ThreadInv(t) /\ open'[t] = open[t] /\ closing'[t] = closing[t] /\ own'[t] = own[t]
    BY Zenon DEF BaseInv, levelVars, depthVars
  <2>2. open[t] \in Seq(Level)
    BY Zenon DEF BaseInv, WorkerType
  <2>3. open[t] = <<>> <=> Len(open[t]) = 0
    BY Zenon, <2>2, Singleton
  <2> QED
    BY <1>1, <2>1, <2>3 DEF ThreadInv, Waiting
<1>4. ASSUME NEW u \in Thread, u # t PROVE ThreadInv(u)'
  <2>1. /\ tpc'[u] = tpc[u] /\ open'[u] = open[u] /\ closing'[u] = closing[u]
        /\ own'[u] = own[u] /\ ThreadInv(u)
    BY Zenon, <1>1, <1>4 DEF BaseInv, levelVars, depthVars
  <2> QED
    BY Zenon, <2>1, OtherThread
<1> QED
  BY Zenon, <1>2, <1>3, <1>4 DEF BaseInv

(* A thread moves and stores its depth.                                    *)
LEMMA StoreBase ==
    ASSUME BaseInv, NEW t \in Thread, NEW s \in PC, tpc' = [tpc EXCEPT ![t] = s],
           NEW d \in Nat, SetDepth(t, d),
           (tpc[t] = "gate" /\ s = "lock" /\ d = 0) \/ (tpc[t] = "resume" /\ s = "body" /\ d = 1),
           UNCHANGED <<levelVars, asleep, logVars, threadSetVars, lock, spc, saved>>,
           unseen' \subseteq Thread
    PROVE  BaseInv'
<1>1. /\ tpc' \in [Thread -> PC] /\ tpc'[t] = s
      /\ \A u \in Thread : u # t => tpc'[u] = tpc[u]
  BY Zenon, Moves DEF BaseInv
<1>2. /\ own' \in [Thread -> Nat] /\ depth' \in [Thread -> Nat]
      /\ own'[t] = d /\ \A u \in Thread : u # t => own'[u] = own[u]
  BY Zenon, DepthSet DEF BaseInv
<1>3. tpc[t] # "asleep" /\ s # "asleep"
  OBVIOUS
<1>4. WorkerType' /\ LogType' /\ SnapType'
  <2>1. asleep' = {u \in Thread : tpc'[u] = "asleep"}
    BY Zenon, <1>3, StaysAwake DEF BaseInv
  <2> QED
    BY Zenon, <1>1, <1>2, <2>1 DEF BaseInv, WorkerType, LogType, SnapType, levelVars, logVars, threadSetVars
<1>5. ThreadInv(t)'
  <2>1. ThreadInv(t) /\ open'[t] = open[t] /\ closing'[t] = closing[t]
    BY Zenon DEF BaseInv, levelVars
  <2>2. open[t] \in Seq(Level)
    BY Zenon DEF BaseInv, WorkerType
  <2>3. open[t] = <<>> <=> Len(open[t]) = 0
    BY Zenon, <2>2, Singleton
  <2>4. CASE tpc[t] = "gate" /\ s = "lock" /\ d = 0
    <3>1. tpc'[t] = "lock" /\ own'[t] = 0
      BY Zenon, <2>4, <1>1, <1>2
    <3>2. "gate" \in Waiting \cup {"gate"} /\ "lock" \in Waiting
      BY Zenon DEF Waiting
    <3> QED
      BY Zenon, <3>1, <3>2, <2>4, <2>1 DEF ThreadInv
  <2>5. CASE tpc[t] = "resume" /\ s = "body" /\ d = 1
    <3>1. tpc'[t] = "body" /\ own'[t] = 1
      BY Zenon, <2>5, <1>1, <1>2
    <3>2. "resume" \in Waiting \cup {"gate"} /\ "body" \notin Waiting \cup {"gate"} /\ "body" \notin Waiting
      BY Zenon DEF Waiting
    <3>3. Len(open[t]) = 1 /\ open[t] # <<>>
      BY <3>2, <2>5, <2>1, <2>3 DEF ThreadInv
    <3> QED
      BY Zenon, <3>1, <3>2, <3>3, <2>5, <2>1 DEF ThreadInv
  <2> QED
    BY Zenon, <2>4, <2>5
<1>6. ASSUME NEW u \in Thread, u # t PROVE ThreadInv(u)'
  <2>1. /\ tpc'[u] = tpc[u] /\ open'[u] = open[u] /\ closing'[u] = closing[u]
        /\ own'[u] = own[u] /\ ThreadInv(u)
    BY Zenon, <1>1, <1>2, <1>6 DEF BaseInv, levelVars
  <2> QED
    BY Zenon, <2>1, OtherThread
<1> QED
  BY Zenon, <1>4, <1>5, <1>6 DEF BaseInv

(* A step that leaves the threads and the logs alone.                      *)
LEMMA BaseFrame ==
    ASSUME BaseInv, UNCHANGED <<tpc, levelVars, own, asleep, logVars>>, depth' \in [Thread -> Nat],
           SnapType'
    PROVE  BaseInv'
<1>1. WorkerType' /\ LogType'
  BY Zenon DEF BaseInv, WorkerType, LogType, levelVars, logVars
<1>2. ASSUME NEW u \in Thread PROVE ThreadInv(u)'
  BY Zenon, OtherThread DEF BaseInv, levelVars
<1> QED
  BY Zenon, <1>1, <1>2 DEF BaseInv

(* The first look at the lock, and the wait on ckptCondition.              *)
LEMMA WaitBase ==
    ASSUME BaseInv, NEW t \in Thread,
           Flush(t) \/ Gate(t) \/ LockCkpt(t) \/ Check(t) \/ Resume(t)
    PROVE  BaseInv'
<1> USE DEF snapVars, threadSetVars
<1>0. "gate" \in PC /\ Waiting \subseteq PC /\ "body" \in PC /\ "gate" \notin Waiting
  BY Zenon DEF PC, Waiting
<1>1. CASE Flush(t)
  <2>1. depth' \in [Thread -> Nat]
    BY Zenon, <1>1 DEF Flush, BaseInv, WorkerType
  <2>2. SnapType'
    BY Zenon, <1>1 DEF Flush, BaseInv, SnapType
  <2> QED
    BY Zenon, <1>1, <2>1, <2>2, BaseFrame DEF Flush, lockVars
<1>2. CASE Gate(t) /\ lock[Top(t).obj]
  <2>1. tpc' = [tpc EXCEPT ![t] = "lock"] /\ SetDepth(t, 0) /\ tpc[t] = "gate"
    BY Zenon, <1>2 DEF Gate
  <2>2. "lock" \in PC /\ 0 \in Nat
    BY Zenon DEF PC, Waiting
  <2>3. UNCHANGED <<levelVars, asleep, logVars, threadSetVars, lock, spc, saved, unseen>>
    BY Zenon, <1>2 DEF Gate, lockVars
  <2>4. unseen' \subseteq Thread
    BY Zenon, <2>3 DEF BaseInv, SnapType
  <2> QED
    BY Zenon, <2>1, <2>2, <2>3, <2>4, StoreBase
<1>3. CASE Gate(t) /\ ~lock[Top(t).obj]
  <2>1. tpc' = [tpc EXCEPT ![t] = "body"] /\ tpc[t] = "gate"
    BY Zenon, <1>3 DEF Gate
  <2>2. UNCHANGED <<levelVars, depthVars, asleep, logVars, registry, pending, lock, spc, saved, unseen>>
    BY Zenon, <1>3 DEF Gate, lockVars
  <2>3. registry' \subseteq Thread /\ "gate" # "asleep" /\ "body" # "asleep"
    BY Zenon, <2>2 DEF BaseInv, SnapType
  <2> QED
    BY Zenon, <2>1, <2>2, <2>3, <1>0, MoveBase
<1>4. CASE LockCkpt(t)
  <2>1. tpc' = [tpc EXCEPT ![t] = "check"] /\ tpc[t] \in {"lock", "woken"}
    BY Zenon, <1>4 DEF LockCkpt
  <2>2. UNCHANGED <<levelVars, depthVars, asleep, logVars, registry, pending, lock, spc, saved, unseen>>
    BY Zenon, <1>4 DEF LockCkpt
  <2>3. registry' \subseteq Thread
    BY Zenon, <2>2 DEF BaseInv, SnapType
  <2>4. tpc[t] # "asleep" /\ "check" # "asleep" /\ tpc[t] \in Waiting /\ "check" \in Waiting
    BY Zenon, <2>1 DEF Waiting
  <2> QED
    BY Zenon, <2>1, <2>2, <2>3, <2>4, <1>0, MoveBase
<1>5. CASE Check(t) /\ ~lock[Top(t).obj]
  <2>1. tpc' = [tpc EXCEPT ![t] = "resume"] /\ tpc[t] = "check"
    BY Zenon, <1>5 DEF Check
  <2>2. UNCHANGED <<levelVars, depthVars, asleep, logVars, registry, pending, lock, spc, saved, unseen>>
    BY Zenon, <1>5 DEF Check
  <2>3. registry' \subseteq Thread
    BY Zenon, <2>2 DEF BaseInv, SnapType
  <2>4. tpc[t] # "asleep" /\ "resume" # "asleep" /\ tpc[t] \in Waiting /\ "resume" \in Waiting
    BY Zenon, <2>1 DEF Waiting
  <2> QED
    BY Zenon, <2>1, <2>2, <2>3, <2>4, <1>0, MoveBase
<1>6. CASE Check(t) /\ lock[Top(t).obj]
  <2>1. /\ tpc' = [tpc EXCEPT ![t] = "asleep"] /\ tpc[t] = "check" /\ asleep' = asleep \cup {t}
        /\ UNCHANGED <<levelVars, depthVars, logVars, registry, pending, lock, spc, saved, unseen>>
    BY Zenon, <1>6 DEF Check
  <2>2. "asleep" \in PC /\ "asleep" \in Waiting /\ "check" \in Waiting
    BY Zenon DEF PC, Waiting
  <2>3. /\ tpc' \in [Thread -> PC] /\ tpc'[t] = "asleep"
        /\ \A u \in Thread : u # t => tpc'[u] = tpc[u]
    BY Zenon, <2>1, <2>2, Moves DEF BaseInv
  <2>4. asleep' = {u \in Thread : tpc'[u] = "asleep"}
    BY Zenon, <2>1, <2>3 DEF BaseInv, WorkerType
  <2>5. WorkerType' /\ LogType' /\ SnapType'
    BY Zenon, <2>1, <2>3, <2>4 DEF BaseInv, WorkerType, LogType, SnapType, levelVars, depthVars, logVars
  <2>6. ThreadInv(t)'
    <3>1. ThreadInv(t) /\ open'[t] = open[t] /\ closing'[t] = closing[t] /\ own'[t] = own[t]
      BY Zenon, <2>1 DEF BaseInv, levelVars, depthVars
    <3> QED
      BY Zenon, <3>1, <2>1, <2>3 DEF ThreadInv, Waiting
  <2>7. ASSUME NEW u \in Thread, u # t PROVE ThreadInv(u)'
    <3>1. /\ tpc'[u] = tpc[u] /\ open'[u] = open[u] /\ closing'[u] = closing[u]
          /\ own'[u] = own[u] /\ ThreadInv(u)
      BY Zenon, <2>1, <2>3, <2>7 DEF BaseInv, levelVars, depthVars
    <3> QED
      BY Zenon, <3>1, OtherThread
  <2> QED
    BY Zenon, <2>5, <2>6, <2>7 DEF BaseInv
<1>7. CASE Resume(t)
  <2>1. tpc' = [tpc EXCEPT ![t] = "body"] /\ SetDepth(t, 1) /\ tpc[t] = "resume"
    BY Zenon, <1>7 DEF Resume
  <2>2. 1 \in Nat
    OBVIOUS
  <2>3. UNCHANGED <<levelVars, asleep, logVars, threadSetVars, lock, spc, saved>>
    BY Zenon, <1>7 DEF Resume, lockVars
  <2>4. unseen' \subseteq Thread
    BY Zenon, <1>7 DEF BaseInv, SnapType, Resume
  <2> QED
    BY Zenon, <2>1, <2>2, <2>3, <2>4, <1>0, StoreBase
<1> QED
  BY Zenon, <1>1, <1>2, <1>3, <1>4, <1>5, <1>6, <1>7

(* A method that begins to create, the end of a thread, a registration.    *)
LEMMA ThreadSetBase ==
    ASSUME BaseInv, NEW t \in Thread, Create(t) \/ End(t) \/ Register(t)
    PROVE  BaseInv'
<1> USE DEF snapVars, threadSetVars, lockVars
<1>0. "create" \in PC /\ "ended" \in PC /\ "body" # "asleep" /\ "app" # "asleep"
      /\ "create" # "asleep" /\ "ended" # "asleep"
  BY Zenon DEF PC
<1>1. CASE Create(t)
  <2>1. /\ tpc' = [tpc EXCEPT ![t] = "create"] /\ tpc[t] = "body"
        /\ closing[t] = <<>> /\ open[t] # <<>>
        /\ UNCHANGED <<levelVars, depthVars, asleep, logVars, registry, pending, lock, spc, saved, unseen>>
    BY Zenon, <1>1 DEF Create
  <2>2. registry' \subseteq Thread
    BY Zenon, <2>1 DEF BaseInv, SnapType
  <2> QED
    BY Zenon, <2>1, <2>2, <1>0, MoveBase
<1>2. CASE End(t)
  <2>1. /\ tpc' = [tpc EXCEPT ![t] = "ended"] /\ tpc[t] = "app" /\ registry' = registry \ {t}
        /\ UNCHANGED <<levelVars, depthVars, asleep, logVars, pending, lock, spc, saved, unseen>>
    BY Zenon, <1>2 DEF End
  <2>2. registry' \subseteq Thread
    BY Zenon, <2>1 DEF BaseInv, SnapType
  <2> QED
    BY Zenon, <2>1, <2>2, <1>0, MoveBase
<1>3. CASE Register(t)
  <2>1. SnapType'
    BY Zenon, <1>3 DEF Register, BaseInv, SnapType
  <2>2. UNCHANGED <<tpc, levelVars, own, asleep, logVars>> /\ depth' \in [Thread -> Nat]
    BY Zenon, <1>3 DEF Register, depthVars, BaseInv, WorkerType
  <2> QED
    BY Zenon, <2>1, <2>2, BaseFrame
<1> QED
  BY Zenon, <1>1, <1>2, <1>3

(* A new level.                                                            *)
LEMMA OpenBase ==
    ASSUME BaseInv, NEW t \in Thread, NEW o \in Object, Open(t, o)
    PROVE  BaseInv'
<1> USE DEF snapVars, threadSetVars, lockVars
<1>1. PICK l \in Level :
          /\ ~l.logged /\ ~l.done
          /\ open' \in [Thread -> Seq(Level)] /\ open'[t] = Append(open[t], l)
          /\ \A u \in Thread : u # t => open'[u] = open[u]
  BY Zenon, OpenEffect DEF BaseInv
<1>2. PICK s \in {"gate", "body"} : /\ tpc' = [tpc EXCEPT ![t] = s]
                                    /\ s = "gate" <=> own[t] = 0
  BY Zenon DEF Open
<1>3. /\ tpc[t] \in {"app", "body"} /\ closing[t] = <<>> /\ SetDepth(t, own[t] + 1)
      /\ UNCHANGED <<closing, asleep, registry, pending, logVars, lock, spc, saved, unseen>>
  BY Zenon DEF Open
<1>4. own[t] + 1 \in Nat /\ ntx' \in 0 .. MaxTx /\ own[t] = Len(open[t]) /\ Len(open[t]) \in Nat
  <2>1. ThreadInv(t) /\ open[t] \in Seq(Level)
    BY Zenon DEF BaseInv, WorkerType
  <2>2. own[t] \in Nat /\ ntx' \in 0 .. MaxTx
    BY FreezeAssumption DEF BaseInv, WorkerType, Open
  <2>3. tpc[t] \notin Waiting
    BY Zenon, <1>3 DEF Waiting
  <2> QED
    BY <2>1, <2>2, <2>3 DEF ThreadInv
<1>5. /\ own' \in [Thread -> Nat] /\ depth' \in [Thread -> Nat]
      /\ own'[t] = own[t] + 1 /\ \A u \in Thread : u # t => own'[u] = own[u]
  BY Zenon, <1>3, <1>4, DepthSet DEF BaseInv
<1>6. s \in PC /\ s # "asleep" /\ tpc[t] # "asleep"
  BY Zenon, <1>3 DEF PC
<1>7. /\ tpc' \in [Thread -> PC] /\ tpc'[t] = s
      /\ \A u \in Thread : u # t => tpc'[u] = tpc[u]
  BY Zenon, <1>2, <1>6, Moves DEF BaseInv
<1>8. WorkerType' /\ LogType' /\ SnapType'
  <2>1. asleep' = {u \in Thread : tpc'[u] = "asleep"}
    BY Zenon, <1>2, <1>3, <1>6, StaysAwake DEF BaseInv
  <2> QED
    BY Zenon, <1>1, <1>3, <1>4, <1>5, <1>7, <2>1 DEF BaseInv, WorkerType, LogType, SnapType, logVars
<1>9. ThreadInv(t)'
  <2>1. open[t] \in Seq(Level)
    BY Zenon DEF BaseInv, WorkerType
  <2>2. /\ Len(open'[t]) = Len(open[t]) + 1 /\ open'[t] # <<>> /\ open'[t][Len(open[t]) + 1] = l
    BY <1>1, <2>1, Appended
  <2>3. own'[t] = Len(open'[t]) /\ closing'[t] = <<>>
    BY Zenon, <2>2, <1>3, <1>4, <1>5
  <2>4. s = "gate" => Len(open'[t]) = 1 /\ ~open'[t][1].logged /\ ~open'[t][1].done
    BY <2>2, <1>1, <1>2, <1>4
  <2>5. s \notin Waiting /\ s \notin {"app", "ended", "create"}
    BY Zenon DEF Waiting
  <2> QED
    BY Zenon, <2>2, <2>3, <2>4, <2>5, <1>7 DEF ThreadInv
<1>10. ASSUME NEW u \in Thread, u # t PROVE ThreadInv(u)'
  <2>1. /\ tpc'[u] = tpc[u] /\ open'[u] = open[u] /\ closing'[u] = closing[u]
        /\ own'[u] = own[u] /\ ThreadInv(u)
    BY Zenon, <1>1, <1>3, <1>5, <1>7, <1>10 DEF BaseInv
  <2> QED
    BY Zenon, <2>1, OtherThread
<1> QED
  BY Zenon, <1>8, <1>9, <1>10 DEF BaseInv

(* A level of a thread in the body of a transaction is replaced.           *)
LEMMA FlagBase ==
    ASSUME BaseInv, NEW t \in Thread, NEW i \in DOMAIN open[t], NEW l \in Level,
           open' = [open EXCEPT ![t] = [open[t] EXCEPT ![i] = l]],
           tpc[t] \in {"body", "create"}, tpc' = [tpc EXCEPT ![t] = "body"],
           UNCHANGED <<ntx, closing, depthVars, asleep, threadSetVars, snapVars>>, LogType'
    PROVE  BaseInv'
<1>1. /\ open' \in [Thread -> Seq(Level)]
      /\ Len(open'[t]) = Len(open[t])
      /\ \A u \in Thread : u # t => open'[u] = open[u]
  BY Zenon, LevelSet DEF BaseInv
<1>2. "body" \in PC /\ "body" # "asleep" /\ tpc[t] # "asleep"
  BY Zenon DEF PC
<1>3. /\ tpc' \in [Thread -> PC] /\ tpc'[t] = "body"
      /\ \A u \in Thread : u # t => tpc'[u] = tpc[u]
  BY Zenon, <1>2, Moves DEF BaseInv
<1>4. WorkerType' /\ SnapType'
  <2>1. asleep' = {u \in Thread : tpc'[u] = "asleep"}
    BY Zenon, <1>2, StaysAwake DEF BaseInv
  <2> QED
    BY Zenon, <1>1, <1>3, <2>1 DEF BaseInv, WorkerType, SnapType, snapVars, threadSetVars, depthVars
<1>5. ThreadInv(t)'
  <2>1. open[t] \in Seq(Level) /\ open'[t] \in Seq(Level) /\ ThreadInv(t)
    BY Zenon, <1>1 DEF BaseInv, WorkerType
  <2>2. open[t] # <<>> /\ open'[t] # <<>>
    BY Zenon, <2>1, <1>1, Singleton
  <2>3. own'[t] = own[t] /\ closing'[t] = closing[t]
    BY Zenon DEF depthVars
  <2>4. "body" \notin Waiting /\ tpc[t] \notin Waiting
    BY Zenon DEF Waiting
  <2>5. own'[t] = Len(open'[t])
    BY Zenon, <2>1, <2>3, <2>4, <1>1 DEF ThreadInv
  <2>6. "body" \notin Waiting \cup {"gate"} /\ "body" \notin {"app", "ended"} /\ "body" # "create"
    BY Zenon DEF Waiting
  <2> QED
    BY Zenon, <2>2, <2>4, <2>5, <2>6, <1>3 DEF ThreadInv
<1>6. ASSUME NEW u \in Thread, u # t PROVE ThreadInv(u)'
  <2>1. /\ tpc'[u] = tpc[u] /\ open'[u] = open[u] /\ closing'[u] = closing[u]
        /\ own'[u] = own[u] /\ ThreadInv(u)
    BY Zenon, <1>1, <1>3, <1>6 DEF BaseInv, depthVars
  <2> QED
    BY Zenon, <2>1, OtherThread
<1> QED
  BY Zenon, <1>4, <1>5, <1>6 DEF BaseInv

(* The logger only marks a level as logged.                                *)
LEMMA LogBase ==
    ASSUME BaseInv, NEW t \in Thread, NEW i, LogLevel(t, i)
    PROVE  BaseInv'
<1>1. /\ i \in DOMAIN open[t] /\ log' \in [Object -> Seq(Tx)]
  BY ZenonT(40), LogEffect DEF BaseInv
<1>2. PICK l \in Level : open' = [open EXCEPT ![t] = [open[t] EXCEPT ![i] = l]]
  BY LogEffect DEF BaseInv
<1>3. LogType'
  BY Zenon, <1>1 DEF LogLevel, BaseInv, LogType
<1>4. tpc[t] \in {"body", "create"} /\ tpc' = [tpc EXCEPT ![t] = "body"]
  BY Zenon DEF LogLevel, BaseInv, WorkerType
<1>5. UNCHANGED <<ntx, closing, depthVars, asleep, threadSetVars, snapVars>>
  BY Zenon DEF LogLevel, lockVars
<1> QED
  BY Zenon, <1>1, <1>2, <1>3, <1>4, <1>5, FlagBase

(* The call, or the constructor, only marks its level as done.             *)
LEMMA DoneBase ==
    ASSUME BaseInv, NEW t \in Thread, Body(t) \/ Created(t)
    PROVE  BaseInv'
<1>0. /\ open' = [open EXCEPT ![t][Len(open[t])].done = TRUE]
      /\ heap' = heap \cup {Top(t).tx}
      /\ UNCHANGED <<ntx, closing, log, last, cid, depthVars, asleep, threadSetVars, snapVars>>
      /\ tpc[t] \in {"body", "create"} /\ tpc' = [tpc EXCEPT ![t] = "body"]
      /\ open[t] # <<>>
  <2>0. tpc \in [Thread -> PC] /\ (tpc[t] = "create" => open[t] # <<>>)
    BY Zenon DEF BaseInv, WorkerType, ThreadInv
  <2>1. CASE Body(t)
    BY Zenon, <2>0, <2>1 DEF Body, lockVars
  <2>2. CASE Created(t)
    BY Zenon, <2>0, <2>2 DEF Created, lockVars
  <2> QED
    BY Zenon, <2>1, <2>2
<1>1. PICK n \in DOMAIN open[t] : n = Len(open[t])
  BY Zenon, <1>0, DoneEffect DEF BaseInv
<1>2. PICK l \in Level : open' = [open EXCEPT ![t] = [open[t] EXCEPT ![n] = l]]
  BY Zenon, <1>0, <1>1, DoneEffect DEF BaseInv
<1>3. heap' \subseteq Tx
  BY Zenon, <1>0, DoneEffect DEF BaseInv
<1>4. LogType'
  BY Zenon, <1>0, <1>3 DEF BaseInv, LogType
<1> QED
  BY ZenonT(40), <1>0, <1>1, <1>2, <1>4, FlagBase

(* The innermost level is popped, and then committed.                      *)
LEMMA CloseBase ==
    ASSUME BaseInv, NEW t \in Thread, Close(t)
    PROVE  BaseInv'
<1>1. /\ open' \in [Thread -> Seq(Level)] /\ closing' \in [Thread -> Seq(Level)]
      /\ Len(open'[t]) = Len(open[t]) - 1 /\ Len(open[t]) \in DOMAIN open[t]
      /\ closing'[t] # <<>>
      /\ \A u \in Thread : u # t => open'[u] = open[u] /\ closing'[u] = closing[u]
  BY Zenon, CloseEffect DEF BaseInv
<1>2. /\ tpc[t] = "body" /\ SetDepth(t, own[t] - 1)
      /\ UNCHANGED <<tpc, ntx, asleep, threadSetVars, logVars, snapVars>>
  BY Zenon DEF Close, lockVars
<1>3. own[t] = Len(open[t]) /\ own[t] - 1 \in Nat
  <2>1. ThreadInv(t) /\ open[t] \in Seq(Level)
    BY Zenon DEF BaseInv, WorkerType
  <2>2. tpc[t] \notin Waiting
    BY Zenon, <1>2 DEF Waiting
  <2> QED
    BY <2>1, <2>2, <1>1 DEF ThreadInv
<1>4. /\ own' \in [Thread -> Nat] /\ depth' \in [Thread -> Nat]
      /\ own'[t] = own[t] - 1 /\ \A u \in Thread : u # t => own'[u] = own[u]
  BY Zenon, <1>2, <1>3, DepthSet DEF BaseInv
<1>5. WorkerType' /\ LogType' /\ SnapType'
  BY Zenon, <1>1, <1>2, <1>4 DEF BaseInv, WorkerType, LogType, SnapType, logVars, snapVars, threadSetVars
<1>6. ThreadInv(t)'
  <2>1. own'[t] = Len(open'[t]) /\ tpc'[t] = "body"
    BY Zenon, <1>1, <1>2, <1>3, <1>4
  <2>2. "body" \notin Waiting \cup {"gate"} /\ "body" \notin {"app", "ended"} /\ "body" # "create"
        /\ "body" \notin Waiting
    BY Zenon DEF Waiting
  <2> QED
    BY Zenon, <2>1, <2>2, <1>1 DEF ThreadInv
<1>7. ASSUME NEW u \in Thread, u # t PROVE ThreadInv(u)'
  <2>1. /\ tpc'[u] = tpc[u] /\ open'[u] = open[u] /\ closing'[u] = closing[u]
        /\ own'[u] = own[u] /\ ThreadInv(u)
    BY Zenon, <1>1, <1>2, <1>4, <1>7 DEF BaseInv
  <2> QED
    BY Zenon, <2>1, OtherThread
<1> QED
  BY Zenon, <1>5, <1>6, <1>7 DEF BaseInv

(* The commit forgets the level that was being closed.                     *)
LEMMA CommitBase ==
    ASSUME BaseInv, DataInv, NEW t \in Thread, Commit(t)
    PROVE  BaseInv'
<1>1. closing[t] # <<>> /\ Len(closing[t]) = 1
  BY Zenon DEF Commit, DataInv, LevelsInv
<1>2. /\ closing' \in [Thread -> Seq(Level)] /\ closing'[t] = <<>>
      /\ \A u \in Thread : u # t => closing'[u] = closing[u]
      /\ last' \in [Object -> Nat] /\ cid' \in [Tx -> Nat]
  BY Zenon, <1>1, CommitEffect DEF BaseInv
<1>3. UNCHANGED <<ntx, open, depthVars, asleep, threadSetVars, log, heap, snapVars>>
  BY Zenon DEF Commit, lockVars
<1>4. PICK s \in {"app", "body"} : /\ tpc' = [tpc EXCEPT ![t] = s]
                                   /\ s = "app" <=> open[t] = <<>>
  BY Zenon DEF Commit
<1>5. tpc[t] = "body" /\ ThreadInv(t)
  BY Zenon, <1>1 DEF BaseInv, ThreadInv
<1>6. s \in PC /\ s # "asleep" /\ "body" # "asleep"
  BY Zenon DEF PC
<1>7. /\ tpc' \in [Thread -> PC] /\ tpc'[t] = s
      /\ \A u \in Thread : u # t => tpc'[u] = tpc[u]
  BY Zenon, <1>4, <1>6, Moves DEF BaseInv
<1>8. WorkerType' /\ LogType' /\ SnapType'
  <2>1. asleep' = {u \in Thread : tpc'[u] = "asleep"}
    BY Zenon, <1>3, <1>4, <1>5, <1>6, StaysAwake DEF BaseInv
  <2> QED
    BY Zenon, <1>2, <1>3, <1>7, <2>1
    DEF BaseInv, WorkerType, LogType, SnapType, snapVars, threadSetVars, depthVars
<1>9. ThreadInv(t)'
  <2>1. own'[t] = own[t] /\ open'[t] = open[t]
    BY Zenon, <1>3 DEF depthVars
  <2>2. "body" \notin Waiting /\ s \notin Waiting \cup {"gate"} /\ s \notin Waiting /\ s # "create"
    BY Zenon DEF Waiting
  <2>3. s \in {"app", "ended"} => s = "app"
    OBVIOUS
  <2>4. own[t] = Len(open[t])
    BY Zenon, <2>2, <1>5 DEF ThreadInv
  <2>5. s = "body" => open[t] # <<>>
    BY Zenon, <1>4
  <2> QED
    BY Zenon, <2>1, <2>2, <2>3, <2>4, <2>5, <1>2, <1>4, <1>7 DEF ThreadInv
<1>10. ASSUME NEW u \in Thread, u # t PROVE ThreadInv(u)'
  <2>1. /\ tpc'[u] = tpc[u] /\ open'[u] = open[u] /\ closing'[u] = closing[u]
        /\ own'[u] = own[u] /\ ThreadInv(u)
    BY Zenon, <1>2, <1>3, <1>7, <1>10 DEF BaseInv, depthVars
  <2> QED
    BY Zenon, <2>1, OtherThread
<1> QED
  BY Zenon, <1>8, <1>9, <1>10 DEF BaseInv

(* saveAllocationTables and markPagesReadOnly fill in the snapshot.        *)
LEMMA SaveEffect ==
    ASSUME BaseInv, NEW o \in Object, SaveAllocationTables(o)
    PROVE  /\ SnapType'
           /\ saved'.last[o] = last[o] /\ saved'.tail[o] = Len(log[o]) + 1
           /\ \A p \in Object : p # o => /\ saved'.last[p] = saved.last[p]
                                         /\ saved'.tail[p] = saved.tail[p]
           /\ saved'.image = saved.image
<1>1. /\ last[o] \in Nat /\ Len(log[o]) + 1 \in Nat
  BY DEF BaseInv, LogType
<1>2. PICK a, b : a = last[o] /\ b = Len(log[o]) + 1 /\ saved' = [saved EXCEPT !.last[o] = a, !.tail[o] = b]
  BY Zenon DEF SaveAllocationTables
<1>3. saved \in [last : [Object -> Nat], tail : [Object -> Nat], image : SUBSET Tx]
  BY Zenon DEF BaseInv, SnapType
<1>4. /\ saved' \in [last : [Object -> Nat], tail : [Object -> Nat], image : SUBSET Tx]
      /\ saved'.last = [saved.last EXCEPT ![o] = a] /\ saved'.tail = [saved.tail EXCEPT ![o] = b]
      /\ saved'.image = saved.image
  BY Zenon, <1>1, <1>2, <1>3
<1>5. /\ saved'.last[o] = a /\ saved'.tail[o] = b
      /\ \A p \in Object : p # o => /\ saved'.last[p] = saved.last[p]
                                    /\ saved'.tail[p] = saved.tail[p]
  BY Zenon, <1>3, <1>4
<1>6. SnapType'
  BY Zenon, <1>4 DEF SaveAllocationTables, snapRest, threadSetVars, BaseInv, SnapType
<1> QED
  BY Zenon, <1>2, <1>4, <1>5, <1>6

(* The image the snapshot saves is the heap of that moment.                *)
LEMMA MarkEffect ==
    ASSUME BaseInv, MarkPagesReadOnly
    PROVE  /\ SnapType'
           /\ saved'.last = saved.last /\ saved'.tail = saved.tail /\ saved'.image = heap
<1>1. saved \in [last : [Object -> Nat], tail : [Object -> Nat], image : SUBSET Tx] /\ heap \subseteq Tx
  BY Zenon DEF BaseInv, SnapType, LogType
<1>2. saved' = [saved EXCEPT !.image = heap]
  BY Zenon DEF MarkPagesReadOnly
<1>3. /\ saved' \in [last : [Object -> Nat], tail : [Object -> Nat], image : SUBSET Tx]
      /\ saved'.last = saved.last /\ saved'.tail = saved.tail /\ saved'.image = heap
  BY Zenon, <1>1, <1>2
<1>4. SnapType'
  BY Zenon, <1>3 DEF MarkPagesReadOnly, snapRest, threadSetVars, BaseInv, SnapType
<1> QED
  BY Zenon, <1>3, <1>4

(* The snapshot moves only its own variables and the flags of the objects. *)
LEMMA SnapshotBase ==
    ASSUME BaseInv,
           \/ StartSnapshot \/ NoneRunning \/ MarkPagesReadOnly \/ FinishSnapshot
           \/ \E o \in Object : BlockNewTransactions(o) \/ SaveAllocationTables(o)
           \/ \E o \in Object : UnblockNewTransactions(o)
           \/ \E t \in Thread : ReadDepth(t)
    PROVE  BaseInv'
<1> USE DEF snapRest, threadSetVars, lockVars
<1>1. UNCHANGED <<tpc, levelVars, own, depth, asleep, logVars>>
  BY Zenon DEF StartSnapshot, NoneRunning, MarkPagesReadOnly, FinishSnapshot,
      BlockNewTransactions, SaveAllocationTables, UnblockNewTransactions, ReadDepth, depthVars
<1>2. depth' \in [Thread -> Nat]
  BY Zenon, <1>1 DEF BaseInv, WorkerType
<1>3. SnapType'
  <2>0. SnapType
    BY Zenon DEF BaseInv
  <2>1. CASE StartSnapshot
    BY Zenon, <2>0, <2>1 DEF StartSnapshot, SnapType
  <2>2. CASE NoneRunning
    BY Zenon, <2>0, <2>2 DEF NoneRunning, SnapType
  <2>3. CASE MarkPagesReadOnly
    BY Zenon, <2>3, MarkEffect
  <2>4. CASE FinishSnapshot
    BY Zenon, <2>0, <2>4 DEF FinishSnapshot, SnapType
  <2>5. ASSUME NEW o \in Object, BlockNewTransactions(o) PROVE SnapType'
    BY Zenon, <2>0, <2>5 DEF BlockNewTransactions, SnapType
  <2>6. ASSUME NEW o \in Object, SaveAllocationTables(o) PROVE SnapType'
    BY Zenon, <2>6, SaveEffect
  <2>7. ASSUME NEW o \in Object, UnblockNewTransactions(o) PROVE SnapType'
    BY Zenon, <2>0, <2>7 DEF UnblockNewTransactions, SnapType
  <2>8. ASSUME NEW t \in Thread, ReadDepth(t) PROVE SnapType'
    BY Zenon, <2>0, <2>8 DEF ReadDepth, SnapType
  <2> QED
    BY Zenon, <2>1, <2>2, <2>3, <2>4, <2>5, <2>6, <2>7, <2>8
<1> QED
  BY Zenon, <1>1, <1>2, <1>3, BaseFrame

(* The broadcast wakes the threads that sleep.                             *)
LEMMA BroadcastBase ==
    ASSUME BaseInv, Broadcast
    PROVE  BaseInv'
<1>1. /\ tpc \in [Thread -> PC] /\ asleep = {u \in Thread : tpc[u] = "asleep"}
      /\ tpc' = [u \in Thread |-> IF u \in asleep THEN "woken" ELSE tpc[u]] /\ asleep' = {}
  BY Zenon DEF Broadcast, BaseInv, WorkerType
<1>2. \A u \in Thread : /\ u \in asleep => tpc[u] = "asleep" /\ tpc'[u] = "woken"
                        /\ u \notin asleep => tpc'[u] = tpc[u] /\ tpc[u] # "asleep"
  BY Zenon, <1>1
<1>3. "woken" \in PC /\ "woken" # "asleep" /\ "woken" \in Waiting /\ "asleep" \in Waiting
  BY Zenon DEF PC, Waiting
<1>4. tpc' \in [Thread -> PC] /\ asleep' = {u \in Thread : tpc'[u] = "asleep"}
  BY Zenon, <1>1, <1>2, <1>3
<1>5. /\ UNCHANGED <<levelVars, depthVars, logVars, registry, pending, lock, saved, unseen>>
      /\ spc' = "copy"
  BY Zenon DEF Broadcast, threadSetVars
<1>6. "copy" \in {"none", "block", "wait", "save", "unblock", "copy"}
  OBVIOUS
<1>7. WorkerType' /\ LogType' /\ SnapType'
  BY Zenon, <1>4, <1>5, <1>6 DEF BaseInv, WorkerType, LogType, SnapType, levelVars, depthVars, logVars
<1>8. ASSUME NEW u \in Thread PROVE ThreadInv(u)'
  <2>1. /\ open'[u] = open[u] /\ closing'[u] = closing[u] /\ own'[u] = own[u] /\ ThreadInv(u)
    BY Zenon, <1>5 DEF BaseInv, levelVars, depthVars
  <2>2. CASE u \notin asleep
    BY Zenon, <2>1, <2>2, <1>2, OtherThread
  <2>3. CASE u \in asleep
    BY Zenon, <2>1, <2>3, <1>2 DEF ThreadInv, Waiting
  <2> QED
    BY Zenon, <2>2, <2>3
<1> QED
  BY Zenon, <1>7, <1>8 DEF BaseInv

-----------------------------------------------------------------------------
(* The threads that are blocked.                                           *)
(* No thread gets inside unseen while the snapshot waits or saves.         *)
LEMMA GateFrame ==
    ASSUME GateInv, UNCHANGED <<spc, todo, manager, lock, registry>>, unseen \subseteq unseen',
           registry \subseteq Thread,
           spc \in {"wait", "save"} =>
               \A u \in Thread : Inside(u)' => Inside(u) \/ u \in unseen'
    PROVE  GateInv'
<1>1. PhaseInv'
  BY Zenon DEF GateInv, PhaseInv
<1>2. BlockedInv'
  <2>1. ASSUME spc' = "wait", NEW u \in registry' \ todo', Inside(u)' PROVE u \in unseen'
    BY Zenon, <2>1 DEF GateInv, BlockedInv
  <2>2. ASSUME spc' = "save", NEW u \in Thread, Inside(u)' PROVE u \in unseen'
    BY Zenon, <2>2 DEF GateInv, BlockedInv, AllThreadsBlocked
  <2> QED
    BY Zenon, <2>1, <2>2 DEF BlockedInv, AllThreadsBlocked
<1> QED
  BY Zenon, <1>1, <1>2 DEF GateInv

(* A thread that does not move, or moves with its levels, stays inside or  *)
(* outside.                                                                *)
LEMMA InsideFrame ==
    ASSUME NEW u \in Thread, tpc'[u] = tpc[u], open'[u] = open[u]
    PROVE  Inside(u)' => Inside(u)
BY Zenon DEF Inside

(* Any step of a thread.                                                   *)
LEMMA ThreadGate ==
    ASSUME BaseInv, GateInv, NEW t \in Thread,
           \/ \E o \in Object : Open(t, o)
           \/ ThreadStep(t)
           \/ Create(t)
    PROVE  GateInv' /\ unseen \subseteq unseen'
<1> USE DEF snapVars, threadSetVars, lockVars
<1>0. /\ WorkerType /\ registry \subseteq Thread /\ ThreadInv(t)
      /\ open[t] \in Seq(Level)
  BY Zenon DEF BaseInv, SnapType, WorkerType
<1>1. ASSUME NEW o \in Object, Open(t, o) PROVE GateInv' /\ unseen \subseteq unseen'
  <2>1. /\ \A u \in Thread : u # t => tpc'[u] = tpc[u] /\ open'[u] = open[u]
        /\ tpc'[t] = IF own[t] = 0 THEN "gate" ELSE "body"
    BY Zenon, <1>0, <1>1 DEF Open, WorkerType
  <2>2. tpc[t] \in {"app", "body"} /\ own[t] # 0 => Inside(t)
    BY ZenonT(40), <1>0 DEF ThreadInv, Inside, Waiting
  <2>3. \A u \in Thread : Inside(u)' => Inside(u)
    BY <2>1, <2>2, <1>1, InsideFrame DEF Inside, Open
  <2> QED
    BY Zenon, <2>3, <1>0, <1>1, GateFrame DEF Open
<1>2. CASE Flush(t)
  BY Zenon, <1>0, <1>2, GateFrame, InsideFrame DEF Flush, levelVars
<1>3. CASE Gate(t)
  <2>1. /\ \A u \in Thread : u # t => tpc'[u] = tpc[u] /\ open'[u] = open[u]
        /\ tpc'[t] = IF lock[Top(t).obj] THEN "lock" ELSE "body"
    BY Zenon, <1>0, <1>3 DEF Gate, WorkerType, levelVars
  <2>2. Top(t).obj \in Object
    <3>1. open[t] # <<>>
      BY <1>0, <1>3 DEF Gate, ThreadInv
    <3>2. Top(t) \in Level
      BY <3>1, <1>0 DEF Top
    <3> QED
      BY ZenonT(40), <3>2 DEF Level
  <2>3. spc \in {"wait", "save"} => tpc'[t] = "lock"
    BY Zenon, <2>1, <2>2 DEF GateInv, PhaseInv
  <2>4. spc \in {"wait", "save"} => \A u \in Thread : Inside(u)' => Inside(u)
    BY Zenon, <2>1, <2>3, InsideFrame DEF Inside
  <2> QED
    BY Zenon, <2>4, <1>0, <1>3, GateFrame DEF Gate
<1>4. CASE LockCkpt(t) \/ Check(t)
  <2>1. /\ \A u \in Thread : u # t => tpc'[u] = tpc[u] /\ open'[u] = open[u]
        /\ tpc'[t] \in {"check", "asleep", "resume"}
    BY Zenon, <1>0, <1>4 DEF LockCkpt, Check, WorkerType, levelVars
  <2>2. \A u \in Thread : Inside(u)' => Inside(u)
    BY Zenon, <2>1, InsideFrame DEF Inside
  <2> QED
    BY Zenon, <2>2, <1>0, <1>4, GateFrame DEF LockCkpt, Check
<1>5. CASE Resume(t)
  <2>1. \A u \in Thread : u # t => tpc'[u] = tpc[u] /\ open'[u] = open[u]
    BY ZenonT(40), <1>0, <1>5 DEF Resume, WorkerType, levelVars
  <2>2. Top(t).obj \in Object
    <3>1. open[t] # <<>>
      BY SMTT(30), <1>0, <1>5 DEF Resume, ThreadInv, Waiting
    <3>2. Top(t) \in Level
      BY <3>1, <1>0 DEF Top
    <3> QED
      BY Zenon, <3>2 DEF Level
  <2>3. spc \in {"wait", "save"} => t \in unseen'
    BY Zenon, <2>2, <1>5 DEF GateInv, PhaseInv, Resume
  <2>4. unseen \subseteq unseen'
    BY Zenon, <1>5 DEF Resume
  <2>5. spc \in {"wait", "save"} => \A u \in Thread : Inside(u)' => Inside(u) \/ u \in unseen'
    BY Zenon, <2>1, <2>3, InsideFrame
  <2> QED
    BY Zenon, <2>4, <2>5, <1>0, <1>5, GateFrame DEF Resume
<1>6. ASSUME NEW i, LogLevel(t, i) PROVE GateInv' /\ unseen \subseteq unseen'
  <2>1. /\ \A u \in Thread : u # t => tpc'[u] = tpc[u] /\ open'[u] = open[u]
        /\ tpc[t] = "body" /\ open[t] # <<>>
    BY <1>0, <1>6 DEF LogLevel, WorkerType
  <2>2. \A u \in Thread : Inside(u)' => Inside(u)
    BY Zenon, <2>1, InsideFrame DEF Inside
  <2> QED
    BY Zenon, <2>2, <1>0, <1>6, GateFrame DEF LogLevel
<1>7. CASE Body(t) \/ Created(t)
  <2>1. /\ \A u \in Thread : u # t => tpc'[u] = tpc[u] /\ open'[u] = open[u]
        /\ tpc[t] \in {"body", "create"} /\ open[t] # <<>>
    BY Zenon, <1>0, <1>7 DEF Body, Created, WorkerType, ThreadInv
  <2>2. \A u \in Thread : Inside(u)' => Inside(u)
    BY Zenon, <2>1, InsideFrame DEF Inside
  <2> QED
    BY Zenon, <2>2, <1>0, <1>7, GateFrame DEF Body, Created
<1>8. CASE Create(t)
  <2>1. /\ \A u \in Thread : u # t => tpc'[u] = tpc[u] /\ open'[u] = open[u]
        /\ tpc[t] \in {"body", "create"} /\ open[t] # <<>>
    BY Zenon, <1>0, <1>8 DEF Create, WorkerType, levelVars
  <2>2. \A u \in Thread : Inside(u)' => Inside(u)
    BY Zenon, <2>1, InsideFrame DEF Inside
  <2> QED
    BY Zenon, <2>2, <1>0, <1>8, GateFrame DEF Create
<1>9. CASE Close(t)
  <2>1. /\ \A u \in Thread : u # t => tpc'[u] = tpc[u] /\ open'[u] = open[u]
        /\ tpc[t] \in {"body", "create"} /\ open[t] # <<>>
    BY Zenon, <1>0, <1>9 DEF Close, WorkerType
  <2>2. \A u \in Thread : Inside(u)' => Inside(u)
    BY Zenon, <2>1, InsideFrame DEF Inside
  <2> QED
    BY Zenon, <2>2, <1>0, <1>9, GateFrame DEF Close
<1>10. CASE Commit(t)
  <2>1. /\ \A u \in Thread : u # t => tpc'[u] = tpc[u]
        /\ open' = open /\ tpc[t] = "body"
    BY Zenon, <1>0, <1>10 DEF Commit, WorkerType, ThreadInv
  <2>2. \A u \in Thread : Inside(u)' => Inside(u)
    BY Zenon, <2>1, InsideFrame DEF Inside
  <2> QED
    BY Zenon, <2>2, <1>0, <1>10, GateFrame DEF Commit
<1> QED
  BY Zenon, <1>1, <1>2, <1>3, <1>4, <1>5, <1>6, <1>7, <1>8, <1>9, <1>10 DEF ThreadStep, LibraryStep

(* A thread ends or is registered only while no snapshot is being made.    *)
LEMMA ThreadSetGate ==
    ASSUME GateInv, NEW t \in Thread, End(t) \/ Register(t)
    PROVE  GateInv' /\ unseen' = unseen
<1>1. /\ manager = "free" /\ UNCHANGED <<manager, spc, todo, lock, unseen>>
  BY Zenon DEF End, Register, lockVars, snapVars
<1>2. spc' = "none" /\ manager' = manager
  BY Zenon, <1>1 DEF GateInv, PhaseInv
<1> QED
  BY Zenon, <1>1, <1>2 DEF GateInv, PhaseInv, BlockedInv, AllThreadsBlocked

(* The steps of the snapshot.                                              *)
LEMMA SnapshotGate ==
    ASSUME BaseInv, GateInv, StartSnapshot \/ SnapshotStep
    PROVE  GateInv'
<1> USE DEF snapRest, threadSetVars, lockVars, levelVars
<1>0. SnapType /\ PhaseInv /\ BlockedInv
  BY Zenon DEF BaseInv, GateInv
<1>1. CASE StartSnapshot
  BY Zenon, <1>1 DEF StartSnapshot, GateInv, PhaseInv, BlockedInv, AllThreadsBlocked
<1>2. ASSUME NEW o \in Object, BlockNewTransactions(o) PROVE GateInv'
  <2>1. PhaseInv'
    BY Zenon, <1>0, <1>2 DEF BlockNewTransactions, PhaseInv, SnapType
  <2>2. BlockedInv'
    BY Zenon, <1>2 DEF BlockNewTransactions, BlockedInv, AllThreadsBlocked
  <2> QED
    BY Zenon, <2>1, <2>2 DEF GateInv
<1>3. ASSUME NEW t \in Thread, ReadDepth(t) PROVE GateInv'
  <2>1. PhaseInv'
    BY Zenon, <1>0, <1>3 DEF ReadDepth, PhaseInv
  <2>2. spc = "wait" /\ spc' = "wait" /\ registry' = registry /\ unseen \subseteq unseen'
    BY Zenon, <1>3 DEF ReadDepth
  <2>3. \A u \in Thread : Inside(u)' <=> Inside(u)
    BY Zenon, <1>3 DEF ReadDepth, Inside
  <2>4. CASE todo' = registry
    BY Zenon, <2>1, <2>2, <2>4, <1>3 DEF ReadDepth, GateInv, BlockedInv, AllThreadsBlocked
  <2>5. CASE todo' # registry
    <3>1. own[t] = 0 => ~Inside(t)
      <4>1. ThreadInv(t) /\ open[t] \in Seq(Level)
        BY Zenon DEF BaseInv, WorkerType
      <4> QED
        BY <4>1 DEF ThreadInv, Inside, Waiting
    <3>2. Inside(t) => t \in unseen'
      <4>1. ASSUME Inside(t) PROVE depth[t] = 0
        <5>1. tpc[t] # "ended"
          BY <4>1 DEF Inside
        <5>2. DepthRead(t) = {depth[t]}
          BY Zenon, <5>1 DEF DepthRead
        <5> QED
          BY Zenon, <5>2, <2>5, <1>3 DEF ReadDepth
      <4> QED
        BY Zenon, <4>1, <3>1, <1>3 DEF ReadDepth
    <3>3. todo' = todo \ {t}
      BY Zenon, <2>5, <1>3 DEF ReadDepth
    <3>4. \A u \in registry \ todo' : Inside(u)' => u \in unseen'
      <4> SUFFICES ASSUME NEW u \in registry \ todo', Inside(u)' PROVE u \in unseen'
        BY Zenon
      <4>1. u \in Thread /\ Inside(u)
        BY Zenon, <2>3, <1>0 DEF SnapType
      <4> QED
        BY Zenon, <4>1, <3>2, <3>3, <2>2, <1>0 DEF BlockedInv
    <3> QED
      BY ZenonT(40), <3>4, <2>1, <2>2 DEF GateInv, BlockedInv, AllThreadsBlocked
  <2> QED
    BY Zenon, <2>4, <2>5
<1>4. CASE NoneRunning
  <2>1. PhaseInv'
    BY Zenon, <1>0, <1>4 DEF NoneRunning, PhaseInv
  <2>2. \A u \in Thread : Inside(u)' <=> Inside(u)
    BY Zenon, <1>4 DEF NoneRunning, Inside
  <2>3. ASSUME NEW u \in Thread, Inside(u) PROVE u \in unseen'
    BY Zenon, <2>3, <1>0, <1>4 DEF NoneRunning, BlockedInv
  <2>4. spc' = "save"
    BY Zenon, <1>4 DEF NoneRunning
  <2> QED
    BY Zenon, <2>1, <2>2, <2>3, <2>4 DEF GateInv, BlockedInv, AllThreadsBlocked
<1>5. ASSUME NEW o \in Object, SaveAllocationTables(o) PROVE GateInv'
  <2>1. \A u \in Thread : Inside(u)' <=> Inside(u)
    BY Zenon, <1>5 DEF SaveAllocationTables, Inside
  <2> QED
    BY Zenon, <2>1, <1>0, <1>5 DEF SaveAllocationTables, GateInv, PhaseInv, BlockedInv, AllThreadsBlocked
<1>6. CASE MarkPagesReadOnly
  BY Zenon, <1>0, <1>6 DEF MarkPagesReadOnly, GateInv, PhaseInv, BlockedInv, AllThreadsBlocked
<1>7. ASSUME NEW o \in Object, UnblockNewTransactions(o) PROVE GateInv'
  BY Zenon, <1>0, <1>7 DEF UnblockNewTransactions, GateInv, PhaseInv, BlockedInv, AllThreadsBlocked
<1>8. CASE Broadcast
  BY Zenon, <1>0, <1>8 DEF Broadcast, GateInv, PhaseInv, BlockedInv, AllThreadsBlocked
<1>9. CASE FinishSnapshot
  BY Zenon, <1>0, <1>9 DEF FinishSnapshot, GateInv, PhaseInv, BlockedInv, AllThreadsBlocked
<1> QED
  BY Zenon, <1>1, <1>2, <1>3, <1>4, <1>5, <1>6, <1>7, <1>8, <1>9 DEF SnapshotStep

-----------------------------------------------------------------------------
(* What the snapshot has saved.                                            *)
(* Before it has saved anything.                                           *)
LEMMA CutIdle ==
    ASSUME spc' \in {"none", "block", "wait"}
    PROVE  CutInv'
<1>1. \A o : ~IsSaved(o)'
  BY Zenon DEF IsSaved
<1>2. TailInv'
  BY Zenon, <1>1 DEF TailInv
<1>3. ImageInv'
  BY Zenon DEF ImageInv
<1>4. \A o, i : ~Missed(o, i)'
  BY Zenon, <1>1 DEF Missed
<1> QED
  BY Zenon, <1>2, <1>3, <1>4 DEF CutInv, MissedInv

(* A step that leaves the logs and the snapshot alone.                     *)
LEMMA CutFrame ==
    ASSUME CutInv, UNCHANGED <<log, last, cid, spc, todo, saved>>, unseen \subseteq unseen'
    PROVE  CutInv'
<1>1. \A o : IsSaved(o)' <=> IsSaved(o)
  BY Zenon DEF IsSaved
<1>2. TailInv'
  BY Zenon, <1>1 DEF CutInv, TailInv
<1>3. unseen' = {} => unseen = {}
  OBVIOUS
<1>4. ImageInv'
  BY Zenon, <1>3 DEF CutInv, ImageInv
<1>5. \A o, i : Missed(o, i)' <=> Missed(o, i)
  BY Zenon, <1>1 DEF Missed
<1>6. MissedInv'
  BY <1>3, <1>5 DEF CutInv, MissedInv
<1> QED
  BY Zenon, <1>2, <1>4, <1>6 DEF CutInv

(* With no thread inside, the levels that are open are those of threads at *)
(* the gate or asleep: nothing of them is in the heap or in a log.         *)
LEMMA BlockedLevels ==
    ASSUME BaseInv, DataInv, \A t \in Thread : ~Inside(t), NEW x \in Tx, IsOpen(x)
    PROVE  x \notin heap /\ ~IsLogged(x)
<1>1. PICK t \in Thread : t = x[1]
  BY Zenon, Elements DEF BaseInv
<1>2. PICK i \in DOMAIN open[t] : open[t][i].tx = x
  BY Zenon, <1>1 DEF IsOpen, OpenIn
<1>3. open[t] \in Seq(Level) /\ tpc[t] \in PC /\ ThreadInv(t) /\ LevelInv(t, open[t][i])
  BY Zenon DEF BaseInv, WorkerType, DataInv, LevelsInv
<1>4. ~Inside(t)
  BY Zenon
<1>5. open[t] # <<>>
  BY <1>3
<1>6. Len(open[t]) = 1 /\ ~open[t][1].logged /\ ~open[t][1].done
  BY Zenon, <1>3, <1>4, <1>5 DEF ThreadInv, Inside, PC, Waiting
<1>7. i = 1
  BY <1>3, <1>6
<1> QED
  BY Zenon, <1>2, <1>3, <1>6, <1>7 DEF LevelInv, LevelOk, IsLogged

(* The logger appends above the saved tail.                                *)
LEMMA LogCut ==
    ASSUME BaseInv, DataInv, AllThreadsBlocked, CutInv, NEW t \in Thread, NEW i, LogLevel(t, i)
    PROVE  CutInv'
<1>1. /\ UNCHANGED <<last, cid, spc, todo, saved, unseen>>
      /\ tpc[t] = "body" /\ i \in DOMAIN open[t]
  BY Zenon DEF LogLevel, snapVars
<1>2. PICK p \in Object, x \in Tx :
          /\ cid[x] = 0
          /\ log'[p] = Append(log[p], x)
          /\ \A o \in Object : o # p => log'[o] = log[o]
  <2>1. open[t][i] \in Level /\ LevelInv(t, open[t][i])
    BY Zenon, <1>1, Elements DEF BaseInv, DataInv, LevelsInv
  <2>2. open[t][i].obj \in Object /\ open[t][i].tx \in Tx /\ cid[open[t][i].tx] = 0
    BY ZenonT(40), <2>1 DEF Level, LevelInv, LevelOk
  <2>3. /\ log'[open[t][i].obj] = Append(log[open[t][i].obj], open[t][i].tx)
        /\ \A o \in Object : o # open[t][i].obj => log'[o] = log[o]
    BY LogEffect DEF BaseInv
  <2> QED
    BY Zenon, <2>2, <2>3
<1>3. \A o \in Object : log[o] \in Seq(Tx)
  BY Zenon, Elements DEF BaseInv
<1>4. PICK m : m = Len(log[p]) + 1
  BY Zenon
<1>5. /\ Len(log'[p]) = m /\ DOMAIN log'[p] = DOMAIN log[p] \cup {m}
      /\ log'[p][m] = x /\ \A k \in DOMAIN log[p] : log'[p][k] = log[p][k]
  BY <1>2, <1>3, <1>4, Appended
<1>6. \A o \in Object : \A k \in DOMAIN log'[o] :
          \/ o = p /\ k = m /\ log'[o][k] = x
          \/ k \in DOMAIN log[o] /\ log'[o][k] = log[o][k]
  BY Zenon, <1>2, <1>5
<1>7. \A o \in Object : IsSaved(o)' <=> IsSaved(o)
  BY Zenon, <1>1 DEF IsSaved
<1>8. TailInv'
  <2> SUFFICES ASSUME NEW o \in Object, IsSaved(o)
               PROVE  /\ saved.last[o] <= last[o]
                      /\ saved.tail[o] \in 1 .. Len(log'[o]) + 1
                      /\ \A k \in DOMAIN log'[o] : k >= saved.tail[o] =>
                             cid[log'[o][k]] = 0 \/ cid[log'[o][k]] > saved.last[o]
    BY Zenon, <1>1, <1>7 DEF TailInv
  <2>1. /\ saved.last[o] <= last[o] /\ saved.tail[o] \in 1 .. Len(log[o]) + 1
        /\ \A k \in DOMAIN log[o] :
               k >= saved.tail[o] => cid[log[o][k]] = 0 \/ cid[log[o][k]] > saved.last[o]
    BY Zenon DEF CutInv, TailInv
  <2>2. saved.tail[o] \in 1 .. Len(log'[o]) + 1
    <3>1. Len(log[o]) \in Nat
      BY <1>3
    <3>2. Len(log'[o]) \in {Len(log[o]), Len(log[o]) + 1}
      BY Zenon, <1>2, <1>4, <1>5
    <3> QED
      BY Zenon, <3>1, <3>2, <2>1, RoomGrows
  <2> QED
    BY Zenon, <2>1, <2>2, <1>2, <1>6
<1>9. CASE unseen # {}
  BY Zenon, <1>1, <1>8, <1>9 DEF CutInv, ImageInv, MissedInv
<1>10. CASE unseen = {} /\ spc \notin {"save", "unblock", "copy"}
  <2>1. spc' \in {"none", "block", "wait"}
    BY Zenon, <1>1, <1>10 DEF BaseInv, SnapType
  <2> QED
    BY Zenon, <2>1, CutIdle
<1>11. CASE unseen = {} /\ spc = "save"
  <2>1. open[t] # <<>>
    BY <1>1 DEF BaseInv, WorkerType
  <2> QED
    BY Zenon, <2>1, <1>1, <1>11 DEF AllThreadsBlocked, Inside
<1>12. CASE unseen = {} /\ spc \in {"unblock", "copy"}
  <2>1. spc' \in {"unblock", "copy"} /\ spc # "save" /\ spc' # "save"
    BY Zenon, <1>1, <1>12
  <2>2. \A o \in Object : IsSaved(o)
    BY Zenon, <1>12 DEF IsSaved
  <2>3. saved.tail[p] <= m
    BY <2>2, <1>3, <1>4 DEF CutInv, TailInv
  <2>4. saved.tail[p] \in Nat /\ m \in Nat
    BY <1>3, <1>4 DEF BaseInv, SnapType
  <2>5. ~(m < saved.tail[p])
    BY <2>3, <2>4
  <2>6. \A o \in Object : \A k \in DOMAIN log'[o] : k < saved.tail[o] =>
            k \in DOMAIN log[o] /\ log'[o][k] = log[o][k]
    BY Zenon, <2>5, <1>6
  <2>7. \A o \in Object : \A k \in DOMAIN log[o] : k \in DOMAIN log'[o] /\ log'[o][k] = log[o][k]
    BY ZenonT(40), <1>2, <1>5
  <2>8. ImageInv'
    BY <2>1, <2>6, <2>7, <1>1, <1>12 DEF CutInv, ImageInv
  <2>9. \A o \in Object : \A k \in DOMAIN log'[o] :
            Missed(o, k)' => k \in DOMAIN log[o] /\ log'[o][k] = log[o][k] /\ Missed(o, k)
    BY ZenonT(40), <2>1, <2>6, <1>1, <1>7 DEF Missed
  <2>10. MissedInv'
    <3> SUFFICES ASSUME NEW o \in Object, NEW q \in Object,
                        NEW j \in DOMAIN log'[o], NEW k \in DOMAIN log'[q],
                        Missed(o, j)', Missed(q, k)', log'[o][j][1] = log'[q][k][1]
                 PROVE  log'[o][j] = log'[q][k]
      BY DEF MissedInv
    <3>1. /\ j \in DOMAIN log[o] /\ log'[o][j] = log[o][j] /\ Missed(o, j)
          /\ k \in DOMAIN log[q] /\ log'[q][k] = log[q][k] /\ Missed(q, k)
      BY Zenon, <2>9
    <3>2. log[o][j][1] = log[q][k][1]
      BY Zenon, <3>1
    <3>3. log[o][j] = log[q][k]
      BY Zenon, <3>1, <3>2, <1>12 DEF CutInv, MissedInv
    <3> QED
      BY Zenon, <3>1, <3>3
  <2> QED
    BY Zenon, <2>8, <2>10, <1>8 DEF CutInv
<1> QED
  BY Zenon, <1>9, <1>10, <1>11, <1>12

(* An id taken after the tables were saved lies above the saved one.       *)
LEMMA CommitCut ==
    ASSUME BaseInv, DataInv, CutInv, NEW t \in Thread, Commit(t)
    PROVE  CutInv'
<1>1. closing[t] # <<>> /\ Len(closing[t]) = 1
  BY Zenon DEF Commit, DataInv, LevelsInv
<1>2. PICK l \in Level :
          /\ l = closing[t][1]
          /\ last'[l.obj] = last[l.obj] + 1 /\ last[l.obj] \in Nat /\ l.obj \in Object
          /\ \A o \in Object : o # l.obj => last'[o] = last[o]
          /\ cid'[l.tx] = last[l.obj] + 1 /\ l.tx \in Tx
          /\ \A x \in Tx : x # l.tx => cid'[x] = cid[x]
  BY Zenon, <1>1, CommitEffect DEF BaseInv
<1>3. PICK p \in Object, x \in Tx : p = l.obj /\ x = l.tx
  BY Zenon, <1>2
<1>4. UNCHANGED <<log, spc, todo, saved, unseen>>
  BY Zenon DEF Commit, snapVars
<1>5. LevelInv(t, l) /\ l.logged
  BY Zenon, <1>1, <1>2 DEF DataInv, LevelsInv
<1>6. cid[x] = 0 /\ \E k \in DOMAIN log[p] : log[p][k] = x
  BY Zenon, <1>3, <1>5 DEF LevelInv, LevelOk
<1>7. \A o \in Object : \A k \in DOMAIN log[o] :
          /\ log[o][k] \in Tx
          /\ log[o][k] = x => o = p
          /\ log[o][k] # x => cid'[log[o][k]] = cid[log[o][k]]
  <2>1. \A o \in Object : \A k \in DOMAIN log[o] : log[o][k] \in Tx
    BY ZenonT(40), Elements DEF BaseInv
  <2>2. \A o \in Object : \A k \in DOMAIN log[o] : log[o][k] = x => o = p
    BY SMTT(30), <1>6 DEF DataInv, LogInv
  <2> QED
    BY Zenon, <2>1, <2>2, <1>2, <1>3
<1>8. \A o \in Object : IsSaved(o)' <=> IsSaved(o)
  BY Zenon, <1>4 DEF IsSaved
<1>9. \A o \in Object : last[o] \in Nat /\ last'[o] \in {last[o], last[o] + 1} /\ saved.last[o] \in Nat
  BY Zenon, <1>2 DEF BaseInv, LogType, SnapType
<1>10. TailInv'
  <2> SUFFICES ASSUME NEW o \in Object, IsSaved(o)
               PROVE  /\ saved.last[o] <= last'[o]
                      /\ saved.tail[o] \in 1 .. Len(log[o]) + 1
                      /\ \A k \in DOMAIN log[o] : k >= saved.tail[o] =>
                             cid'[log[o][k]] = 0 \/ cid'[log[o][k]] > saved.last[o]
    BY Zenon, <1>4, <1>8 DEF TailInv
  <2>1. /\ saved.last[o] <= last[o] /\ saved.tail[o] \in 1 .. Len(log[o]) + 1
        /\ \A k \in DOMAIN log[o] :
               k >= saved.tail[o] => cid[log[o][k]] = 0 \/ cid[log[o][k]] > saved.last[o]
    BY Zenon DEF CutInv, TailInv
  <2>2. saved.last[o] <= last'[o]
    BY SMTT(30), <2>1, <1>9
  <2>3. o = p => cid'[x] > saved.last[o]
    <3>1. cid'[x] = last[p] + 1
      BY Zenon, <1>2, <1>3
    <3> QED
      BY <3>1, <2>1, <1>9
  <2> QED
    BY Zenon, <2>1, <2>2, <2>3, <1>7
<1>11. ImageInv'
  BY ZenonT(40), <1>4 DEF CutInv, ImageInv
<1>12. MissedInv'
  <2>1. ASSUME NEW o \in Object, NEW k \in DOMAIN log[o], Missed(o, k)' PROVE Missed(o, k)
    <3>1. CASE log[o][k] = x
      <4>1. cid'[x] # 0
        BY <1>2, <1>3
      <4> QED
        BY ZenonT(40), <4>1, <3>1, <2>1, <1>4, <1>6, <1>8 DEF Missed
    <3>2. CASE log[o][k] # x
      BY Zenon, <3>2, <2>1, <1>4, <1>7, <1>8 DEF Missed
    <3> QED
      BY Zenon, <3>1, <3>2
  <2> QED
    BY <2>1, <1>4 DEF CutInv, MissedInv
<1> QED
  BY Zenon, <1>10, <1>11, <1>12 DEF CutInv

(* The tables begin to be saved: with every thread seen, an entry without  *)
(* an id is that of a level being closed, one for each thread.             *)
LEMMA NoneRunningCut ==
    ASSUME BaseInv, DataInv, AllThreadsBlocked', NoneRunning
    PROVE  CutInv'
<1>1. spc' = "save" /\ todo' = Object
  BY Zenon DEF NoneRunning
<1>2. \A o \in Object : ~IsSaved(o)'
  BY Zenon, <1>1 DEF IsSaved
<1>3. TailInv' /\ ImageInv'
  BY Zenon, <1>1, <1>2 DEF TailInv, ImageInv
<1>4. UNCHANGED <<tpc, open, log, cid>>
  BY Zenon DEF NoneRunning, snapRest, levelVars, logVars
<1>5. MissedInv'
  <2> SUFFICES ASSUME unseen' = {}, NEW o \in Object, NEW q \in Object,
                      NEW j \in DOMAIN log[o], NEW k \in DOMAIN log[q],
                      cid[log[o][j]] = 0, cid[log[q][k]] = 0, log[o][j][1] = log[q][k][1]
               PROVE  log[o][j] = log[q][k]
    BY SMTT(30), <1>2, <1>4 DEF MissedInv, Missed
  <2>1. PICK x \in Tx, y \in Tx : x = log[o][j] /\ y = log[q][k]
    BY Zenon, Elements DEF BaseInv
  <2>2. IsLogged(x) /\ IsLogged(y)
    BY Zenon, <2>1 DEF IsLogged
  <2>3. (IsOpen(x) \/ IsClosing(x)) /\ (IsOpen(y) \/ IsClosing(y))
    BY Zenon, <2>1 DEF DataInv, LogInv
  <2>4. \A t \in Thread : ~Inside(t)
    BY Zenon, <1>1, <1>4 DEF AllThreadsBlocked, Inside
  <2>5. ~IsOpen(x) /\ ~IsOpen(y)
    BY Zenon, <2>2, <2>4, BlockedLevels
  <2>6. x[1] = y[1]
    BY Zenon, <2>1
  <2> QED
    BY ZenonT(40), <2>1, <2>3, <2>5, <2>6 DEF IsClosing, ClosingIn
<1> QED
  BY Zenon, <1>3, <1>5 DEF CutInv

(* The tables of one object.                                               *)
LEMMA SaveCut ==
    ASSUME BaseInv, DataInv, CutInv, NEW o \in Object, SaveAllocationTables(o)
    PROVE  CutInv'
<1>1. /\ saved'.last[o] = last[o] /\ saved'.tail[o] = Len(log[o]) + 1
      /\ \A p \in Object : p # o => /\ saved'.last[p] = saved.last[p]
                                    /\ saved'.tail[p] = saved.tail[p]
  BY Zenon, SaveEffect
<1>2. /\ spc = "save" /\ spc' = "save" /\ todo' = todo \ {o}
      /\ UNCHANGED <<log, last, cid, unseen>>
  BY Zenon DEF SaveAllocationTables, snapRest, logVars
<1>3. \A p \in Object : p # o => (IsSaved(p)' <=> IsSaved(p))
  BY Zenon, <1>2 DEF IsSaved
<1>4. last[o] \in Nat /\ log[o] \in Seq(Tx)
  BY Zenon DEF BaseInv, LogType
<1>5. TailInv'
  <2> SUFFICES ASSUME NEW p \in Object, IsSaved(p)'
               PROVE  /\ saved'.last[p] <= last[p]
                      /\ saved'.tail[p] \in 1 .. Len(log[p]) + 1
                      /\ \A k \in DOMAIN log[p] : k >= saved'.tail[p] =>
                             cid[log[p][k]] = 0 \/ cid[log[p][k]] > saved'.last[p]
    BY ZenonT(40), <1>2 DEF TailInv
  <2>1. CASE p = o
    BY SMTT(30), <2>1, <1>1, <1>4
  <2>2. CASE p # o
    BY Zenon, <2>2, <1>1, <1>3 DEF CutInv, TailInv
  <2> QED
    BY Zenon, <2>1, <2>2
<1>6. ImageInv'
  BY ZenonT(40), <1>1, <1>2 DEF CutInv, ImageInv
<1>7. MissedInv'
  <2>1. ASSUME NEW p \in Object, NEW k \in DOMAIN log[p], Missed(p, k)' PROVE Missed(p, k)
    <3>1. CASE cid[log[p][k]] = 0
      BY Zenon, <3>1, <1>2 DEF Missed
    <3>2. CASE cid[log[p][k]] # 0 /\ p = o
      <4>1. cid[log[p][k]] <= last[o] /\ cid[log[p][k]] \in Nat
        BY ZenonT(40), <3>2, Elements DEF BaseInv, DataInv, LogInv, LogType
      <4>2. ~(cid[log[p][k]] > last[o])
        BY <4>1, <1>4
      <4> QED
        BY Zenon, <4>2, <3>2, <2>1, <1>1, <1>2 DEF Missed
    <3>3. CASE cid[log[p][k]] # 0 /\ p # o
      BY Zenon, <3>3, <2>1, <1>1, <1>2, <1>3 DEF Missed
    <3> QED
      BY Zenon, <3>1, <3>2, <3>3
  <2> QED
    BY <2>1, <1>2 DEF CutInv, MissedInv
<1> QED
  BY Zenon, <1>5, <1>6, <1>7 DEF CutInv

(* The heap is made read-only.                                             *)
LEMMA MarkCut ==
    ASSUME BaseInv, DataInv, AllThreadsBlocked, CutInv, MarkPagesReadOnly
    PROVE  CutInv'
<1>1. saved'.last = saved.last /\ saved'.tail = saved.tail /\ saved'.image = heap
  BY Zenon, MarkEffect
<1>2. /\ spc = "save" /\ spc' = "unblock" /\ todo = {}
      /\ UNCHANGED <<log, last, cid, unseen>>
  BY Zenon DEF MarkPagesReadOnly, snapRest, logVars
<1>3. \A o \in Object : IsSaved(o) /\ IsSaved(o)'
  BY Zenon, <1>2 DEF IsSaved
<1>4. TailInv'
  BY Zenon, <1>1, <1>2, <1>3 DEF CutInv, TailInv
<1>5. ImageInv'
  <2> SUFFICES ASSUME unseen = {}
               PROVE  /\ \A o \in Object : \A i \in DOMAIN log[o] : log[o][i] \in heap
                      /\ \A x \in heap : \E o \in Object : \E i \in DOMAIN log[o] :
                             i < saved.tail[o] /\ log[o][i] = x
    BY Zenon, <1>1, <1>2 DEF ImageInv
  <2>1. \A t \in Thread : ~Inside(t)
    BY Zenon, <1>2 DEF AllThreadsBlocked
  <2>2. \A o \in Object : \A i \in DOMAIN log[o] : log[o][i] \in heap
    <3> SUFFICES ASSUME NEW o \in Object, NEW i \in DOMAIN log[o], log[o][i] \notin heap
                 PROVE  FALSE
      BY Zenon
    <3>1. PICK x \in Tx : x = log[o][i]
      BY Zenon, Elements DEF BaseInv
    <3>2. IsLogged(x)
      BY Zenon, <3>1 DEF IsLogged
    <3>3. IsOpen(x)
      BY Zenon, <3>1 DEF DataInv, LogInv
    <3> QED
      BY Zenon, <3>2, <3>3, <2>1, BlockedLevels
  <2>3. \A x \in heap : IsLogged(x)
    BY Zenon, <2>1, BlockedLevels DEF DataInv, LogInv, BaseInv, LogType
  <2>4. \A o \in Object : saved.tail[o] = Len(log[o]) + 1 /\ log[o] \in Seq(Tx)
    BY ZenonT(40), <1>2 DEF CutInv, ImageInv, BaseInv, LogType
  <2>5. \A o \in Object : \A i \in DOMAIN log[o] : i < saved.tail[o]
    BY <2>4
  <2> QED
    BY Zenon, <2>2, <2>3, <2>5 DEF IsLogged
<1>6. MissedInv'
  <2>1. ASSUME NEW p \in Object, NEW k \in DOMAIN log[p], Missed(p, k)' PROVE Missed(p, k)
    BY Zenon, <2>1, <1>1, <1>2, <1>3 DEF Missed
  <2> QED
    BY <2>1, <1>2 DEF CutInv, MissedInv
<1> QED
  BY Zenon, <1>4, <1>5, <1>6 DEF CutInv

(* Once everything is saved only the phase changes.                        *)
LEMMA SavedCut ==
    ASSUME CutInv, spc = "unblock", spc' \in {"unblock", "copy"},
           UNCHANGED <<log, last, cid, saved, unseen>>
    PROVE  CutInv'
<1>1. \A o : IsSaved(o) /\ IsSaved(o)'
  BY Zenon DEF IsSaved
<1>2. \A o, i : Missed(o, i)' <=> Missed(o, i)
  BY Zenon, <1>1 DEF Missed
<1>3. TailInv'
  BY Zenon, <1>1 DEF CutInv, TailInv
<1>4. ImageInv'
  BY Zenon DEF CutInv, ImageInv
<1>5. MissedInv'
  BY <1>2 DEF CutInv, MissedInv
<1> QED
  BY Zenon, <1>3, <1>4, <1>5 DEF CutInv

-----------------------------------------------------------------------------
(* The program as it starts.                                               *)
LEMMA InitIInv == Init => IInv
<1> SUFFICES ASSUME Init PROVE IInv
  OBVIOUS
<1>1. WorkerType
  <2>1. <<>> \in Seq(Level) /\ "app" \in PC /\ 0 \in 0 .. MaxTx /\ "app" # "asleep"
    BY FreezeAssumption DEF PC
  <2>2. 0 \in Nat
    OBVIOUS
  <2>3. tpc \in [Thread -> PC] /\ asleep = {t \in Thread : tpc[t] = "asleep"}
    BY Zenon, <2>1 DEF Init
  <2> QED
    BY Zenon, <2>1, <2>2, <2>3 DEF Init, WorkerType
<1>2. LogType
  BY DEF Init, LogType
<1>3. SnapType
  BY Zenon, FreezeAssumption DEF Init, SnapType
<1>4. ASSUME NEW t \in Thread PROVE ThreadInv(t) /\ LevelsInv(t)
  <2>1. tpc[t] = "app" /\ open[t] = <<>> /\ closing[t] = <<>> /\ own[t] = 0
    BY Zenon DEF Init
  <2>2. "app" \notin Waiting \cup {"gate"} /\ "app" \notin Waiting
    BY Zenon DEF Waiting
  <2>3. Len(<<>>) = 0
    OBVIOUS
  <2>4. DOMAIN open[t] = {}
    BY <2>1
  <2>5. ThreadInv(t)
    BY Zenon, <2>1, <2>2, <2>3 DEF ThreadInv
  <2>6. LevelsInv(t)
    BY Zenon, <2>1, <2>4 DEF LevelsInv
  <2> QED
    BY Zenon, <2>5, <2>6
<1>5. GateInv
  BY Zenon DEF Init, GateInv, PhaseInv, BlockedInv, AllThreadsBlocked
<1>6. LogInv
  <2>1. \A o \in Object : DOMAIN log[o] = {}
    BY DEF Init
  <2>2. heap = {} /\ \A x \in Tx : cid[x] = 0
    BY Zenon DEF Init
  <2> QED
    BY Zenon, <2>1, <2>2 DEF LogInv
<1>7. CutInv
  <2>1. spc = "none"
    BY Zenon DEF Init
  <2>2. \A o : ~IsSaved(o)
    BY Zenon, <2>1 DEF IsSaved
  <2>3. \A o, i : ~Missed(o, i)
    BY Zenon, <2>1, <2>2 DEF Missed
  <2>4. ImageInv
    BY Zenon, <2>1 DEF ImageInv
  <2> QED
    BY Zenon, <2>2, <2>3, <2>4 DEF CutInv, TailInv, MissedInv
<1> QED
  BY Zenon, <1>1, <1>2, <1>3, <1>4, <1>5, <1>6, <1>7 DEF IInv, BaseInv, DataInv

(* Every step keeps the invariant.                                         *)
LEMMA NextIInv == IInv /\ [Next]_vars => IInv'
<1> SUFFICES ASSUME IInv, [Next]_vars PROVE IInv'
  OBVIOUS
<1> USE DEF snapRest, logVars, levelVars, snapVars, lockVars, threadSetVars
<1>0. /\ BaseInv /\ GateInv /\ DataInv /\ CutInv /\ AllThreadsBlocked
      /\ WorkerType /\ LogType /\ \A t \in Thread : ThreadInv(t)
  BY Zenon DEF IInv, BaseInv, GateInv, BlockedInv
<1>1. ASSUME NEW t \in Thread, NEW o \in Object, Open(t, o) PROVE IInv'
  <2>1. BaseInv' /\ DataInv' /\ GateInv' /\ unseen \subseteq unseen'
    BY Zenon, <1>0, <1>1, OpenBase, OpenData, ThreadGate
  <2>2. CutInv'
    BY Zenon, <2>1, <1>0, <1>1, CutFrame DEF Open
  <2> QED
    BY Zenon, <2>1, <2>2 DEF IInv
<1>2. ASSUME NEW t \in Thread, ThreadStep(t) PROVE IInv'
  <2>0. GateInv' /\ unseen \subseteq unseen'
    BY Zenon, <1>0, <1>2, ThreadGate
  <2>1. CASE Flush(t) \/ Gate(t) \/ LockCkpt(t) \/ Check(t) \/ Resume(t)
    <3>1. BaseInv'
      BY Zenon, <2>1, <1>0, WaitBase
    <3>2. UNCHANGED <<ntx, open, closing, log, last, cid, heap, spc, todo, saved>>
      BY Zenon, <2>1 DEF Flush, Gate, LockCkpt, Check, Resume
    <3>3. DataInv' /\ CutInv'
      BY Zenon, <3>2, <2>0, <1>0, DataFrame, CutFrame
    <3> QED
      BY Zenon, <3>1, <3>3, <2>0 DEF IInv
  <2>2. ASSUME NEW i, LogLevel(t, i) PROVE IInv'
    BY Zenon, <2>2, <2>0, <1>0, LogBase, LogData, LogCut DEF IInv
  <2>3. CASE Body(t) \/ Created(t)
    <3>1. open[t] # <<>>
      BY Zenon, <2>3, <1>0 DEF Body, Created, ThreadInv
    <3>2. UNCHANGED <<log, last, cid, spc, todo, saved>>
      BY Zenon, <2>3 DEF Body, Created
    <3> QED
      BY Zenon, <3>1, <3>2, <2>0, <2>3, <1>0, DoneBase, DoneData, CutFrame DEF IInv
  <2>4. CASE Close(t)
    <3>1. UNCHANGED <<log, last, cid, spc, todo, saved>>
      BY Zenon, <2>4 DEF Close
    <3> QED
      BY Zenon, <3>1, <2>0, <2>4, <1>0, CloseBase, CloseData, CutFrame DEF IInv
  <2>5. CASE Commit(t)
    BY Zenon, <2>0, <2>5, <1>0, CommitBase, CommitData, CommitCut DEF IInv
  <2> QED
    BY Zenon, <2>1, <2>2, <2>3, <2>4, <2>5, <1>2 DEF ThreadStep, LibraryStep
<1>3. ASSUME NEW t \in Thread, Create(t) \/ End(t) \/ Register(t) PROVE IInv'
  <2>1. BaseInv'
    BY Zenon, <1>0, <1>3, ThreadSetBase
  <2>2. UNCHANGED <<ntx, open, closing, log, last, cid, heap, spc, todo, saved>>
    BY Zenon, <1>3 DEF Create, End, Register
  <2>3. GateInv' /\ unseen \subseteq unseen'
    BY Zenon, <1>0, <1>3, ThreadGate, ThreadSetGate
  <2>4. DataInv' /\ CutInv'
    BY Zenon, <2>2, <2>3, <1>0, DataFrame, CutFrame
  <2> QED
    BY Zenon, <2>1, <2>3, <2>4 DEF IInv
<1>4. CASE StartSnapshot \/ SnapshotStep
  <2>0. GateInv' /\ AllThreadsBlocked'
    BY Zenon, <1>0, <1>4, SnapshotGate DEF GateInv, BlockedInv
  <2>1. CASE Broadcast
    <3>1. BaseInv'
      BY Zenon, <2>1, <1>0, BroadcastBase
    <3>2. /\ UNCHANGED <<ntx, open, closing, log, last, cid, heap, saved, unseen>>
          /\ spc = "unblock" /\ spc' \in {"unblock", "copy"}
      BY Zenon, <2>1 DEF Broadcast
    <3> QED
      BY Zenon, <3>1, <3>2, <2>0, <1>0, DataFrame, SavedCut DEF IInv
  <2>2. CASE ~Broadcast
    <3>1. \/ StartSnapshot \/ NoneRunning \/ MarkPagesReadOnly \/ FinishSnapshot
          \/ \E o \in Object : BlockNewTransactions(o) \/ SaveAllocationTables(o)
          \/ \E o \in Object : UnblockNewTransactions(o)
          \/ \E t \in Thread : ReadDepth(t)
      BY Zenon, <2>2, <1>4 DEF SnapshotStep
    <3>2. BaseInv'
      BY Zenon, <3>1, <1>0, SnapshotBase
    <3>3. UNCHANGED <<ntx, open, closing, log, last, cid, heap>>
      BY Zenon, <3>1 DEF StartSnapshot, NoneRunning, MarkPagesReadOnly, FinishSnapshot,
          BlockNewTransactions, SaveAllocationTables, UnblockNewTransactions, ReadDepth
    <3>4. DataInv'
      BY Zenon, <3>3, <1>0, DataFrame
    <3>5. CutInv'
      <4>1. ASSUME StartSnapshot \/ FinishSnapshot \/ (\E t \in Thread : ReadDepth(t))
                   \/ (\E o \in Object : BlockNewTransactions(o))
            PROVE  spc' \in {"none", "block", "wait"}
        BY Zenon, <4>1 DEF StartSnapshot, FinishSnapshot, ReadDepth, BlockNewTransactions
      <4>2. CASE NoneRunning
        BY Zenon, <4>2, <2>0, <1>0, NoneRunningCut
      <4>3. CASE MarkPagesReadOnly
        BY Zenon, <4>3, <1>0, MarkCut
      <4>4. ASSUME NEW o \in Object, SaveAllocationTables(o) PROVE CutInv'
        BY Zenon, <4>4, <1>0, SaveCut
      <4>5. ASSUME NEW o \in Object, UnblockNewTransactions(o) PROVE CutInv'
        <5>1. /\ spc = "unblock" /\ spc' \in {"unblock", "copy"}
              /\ UNCHANGED <<log, last, cid, saved, unseen>>
          BY Zenon, <4>5 DEF UnblockNewTransactions
        <5> QED
          BY Zenon, <5>1, <1>0, SavedCut
      <4> QED
        BY Zenon, <4>1, <4>2, <4>3, <4>4, <4>5, <3>1, CutIdle
    <3> QED
      BY Zenon, <3>2, <3>4, <3>5, <2>0 DEF IInv
  <2> QED
    BY Zenon, <2>1, <2>2
<1>5. CASE Ended \/ UNCHANGED vars
  <2>1. UNCHANGED vars
    BY Zenon, <1>5 DEF Ended
  <2>2. DataInv' /\ CutInv'
    <3>1. /\ UNCHANGED <<ntx, open, closing, log, last, cid, heap, spc, todo, saved>>
          /\ unseen \subseteq unseen'
      BY Zenon, <2>1 DEF vars
    <3> QED
      BY Zenon, <3>1, <1>0, DataFrame, CutFrame
  <2>3. BaseInv'
    <3>1. SnapType' /\ depth' \in [Thread -> Nat]
      BY Zenon, <2>1, <1>0 DEF BaseInv, SnapType, WorkerType, vars, depthVars
    <3> QED
      BY Zenon, <3>1, <2>1, <1>0, BaseFrame DEF vars, depthVars
  <2>4. GateInv'
    <3>1. \A u \in Thread : Inside(u)' => Inside(u)
      BY Zenon, <2>1 DEF vars, Inside
    <3>2. registry \subseteq Thread /\ unseen \subseteq unseen' /\ UNCHANGED <<spc, todo, manager, lock, registry>>
      BY Zenon, <2>1, <1>0 DEF vars, BaseInv, SnapType
    <3> QED
      BY Zenon, <3>1, <3>2, <1>0, GateFrame
  <2> QED
    BY Zenon, <2>2, <2>3, <2>4 DEF IInv
<1> QED
  BY Zenon, <1>1, <1>2, <1>3, <1>4, <1>5 DEF Next

(* The inductive invariant holds of Snapshot::create against any number of *)
(* worker threads.                                                         *)
THEOREM Invariance == Spec => []IInv
BY InitIInv, NextIInv, PTL DEF Spec

(* While the tables are saved and the pages made read-only, every thread   *)
(* inside a transaction is one that the snapshot did not see.              *)
THEOREM Blocked == Spec => []AllThreadsBlocked
<1>1. IInv => AllThreadsBlocked
  BY Zenon DEF IInv, GateInv, BlockedInv
<1> QED
  BY <1>1, Invariance, PTL

(* Where the entries of a transaction are.                                 *)
LEMMA Positions ==
    ASSUME NEW x, NEW p
    PROVE  p \in Position(x) <=>
               \E o \in Object : \E i \in DOMAIN log[o] : log[o][i] = x /\ p = <<o, i>>
BY DEF Position

(* With every thread seen, what the snapshot saved is a cut of the calls.  *)
THEOREM Cut == Spec => []SnapshotIsCut
<1>1. IInv => SnapshotIsCut
  <2> SUFFICES ASSUME IInv, spc \in {"unblock", "copy"}, unseen = {}
               PROVE  /\ saved.image = BelowTail
                      /\ \A o \in Object : \A i \in DOMAIN log[o] :
                             cid[log[o][i]] \in 1 .. saved.last[o] => i < saved.tail[o]
    BY Zenon DEF SnapshotIsCut
  <2>0. BaseInv /\ CutInv /\ saved.image \subseteq Tx /\ \A o \in Object : IsSaved(o)
    BY Zenon DEF IInv, BaseInv, SnapType, IsSaved
  <2>1. ASSUME NEW x \in saved.image PROVE x \in BelowTail
    <3>1. PICK o \in Object : \E i \in DOMAIN log[o] : i < saved.tail[o] /\ log[o][i] = x
      BY Zenon, <2>0 DEF CutInv, ImageInv
    <3>2. PICK i \in DOMAIN log[o] : i < saved.tail[o] /\ log[o][i] = x
      BY Zenon, <3>1
    <3>3. <<o, i>> \in Position(x)
      BY Zenon, <3>2, Positions
    <3> QED
      BY Zenon, <3>2, <3>3, <2>0 DEF BelowTail
  <2>2. ASSUME NEW x \in BelowTail PROVE x \in saved.image
    <3>1. PICK p \in Position(x) : p[2] < saved.tail[p[1]]
      BY Zenon DEF BelowTail
    <3>2. PICK o \in Object : \E i \in DOMAIN log[o] : log[o][i] = x /\ p = <<o, i>>
      BY <3>1 DEF Position
    <3>3. PICK i \in DOMAIN log[o] : log[o][i] = x /\ p = <<o, i>>
      BY Zenon, <3>2
    <3>4. i < saved.tail[o]
      BY Zenon, <3>1, <3>3
    <3> QED
      BY Zenon, <3>3, <3>4, <2>0 DEF CutInv, ImageInv
  <2>3. ASSUME NEW o \in Object, NEW i \in DOMAIN log[o], cid[log[o][i]] \in 1 .. saved.last[o]
        PROVE  i < saved.tail[o]
    <3>1. /\ saved.tail[o] \in Nat /\ saved.last[o] \in Nat /\ i \in Nat
      BY SMTT(30), <2>0 DEF BaseInv, SnapType, LogType
    <3>2. i >= saved.tail[o] => cid[log[o][i]] = 0 \/ cid[log[o][i]] > saved.last[o]
      BY Zenon, <2>0 DEF CutInv, TailInv
    <3> QED
      BY <3>1, <3>2, <2>3
  <2> QED
    BY Zenon, <2>1, <2>2, <2>3
<1> QED
  BY <1>1, Invariance, PTL

(* With every thread seen, a thread leaves at most one id that replay will *)
(* not find: that of the transaction it was closing.                       *)
THEOREM Replay == Spec => []ReplayMissesOnlyClosing
<1>1. IInv => ReplayMissesOnlyClosing
  <2> SUFFICES ASSUME IInv, spc = "copy", unseen = {},
                      NEW x \in Unreachable, NEW y \in Unreachable, x[1] = y[1]
               PROVE  x = y
    BY Zenon DEF ReplayMissesOnlyClosing
  <2>0. DataInv /\ CutInv /\ \A o \in Object : IsSaved(o)
    BY Zenon DEF IInv, IsSaved
  <2>1. ASSUME NEW z \in Unreachable
        PROVE  \E o \in Object : \E i \in DOMAIN log[o] : log[o][i] = z /\ Missed(o, i)
    <3>1. PICK p \in Position(z) : p[2] < saved.tail[p[1]]
      BY Zenon DEF Unreachable, BelowTail
    <3>2. PICK q \in Position(z) : cid[z] > saved.last[q[1]]
      BY Zenon DEF Unreachable
    <3>3. PICK o \in Object : \E i \in DOMAIN log[o] : log[o][i] = z /\ p = <<o, i>>
      BY <3>1 DEF Position
    <3>4. PICK i \in DOMAIN log[o] : log[o][i] = z /\ p = <<o, i>>
      BY Zenon, <3>3
    <3>5. PICK r \in Object : \E j \in DOMAIN log[r] : log[r][j] = z /\ q = <<r, j>>
      BY <3>2 DEF Position
    <3>6. r = o
      BY ZenonT(40), <3>4, <3>5, <2>0 DEF DataInv, LogInv
    <3>7. i < saved.tail[o] /\ cid[log[o][i]] > saved.last[o]
      BY <3>1, <3>2, <3>4, <3>5, <3>6
    <3> QED
      BY Zenon, <3>4, <3>7, <2>0 DEF Missed
  <2>2. PICK o \in Object : \E i \in DOMAIN log[o] : log[o][i] = x /\ Missed(o, i)
    BY Zenon, <2>1
  <2>3. PICK p \in Object : \E j \in DOMAIN log[p] : log[p][j] = y /\ Missed(p, j)
    BY Zenon, <2>1
  <2> QED
    BY <2>2, <2>3, <2>0 DEF CutInv, MissedInv
<1> QED
  BY <1>1, Invariance, PTL
=============================================================================
