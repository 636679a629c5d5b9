----------------------------- MODULE FaultyDisk -----------------------------
(* The storage device as the filesystems use it: DiskRead and DiskWrite are  *)
(* storage_read and storage_write (kernel/drivers/storage/storage.c).  They  *)
(* report success or failure, and the machine may lose power after any write *)
(* that reached the medium.  A filesystem keeps its state in a record with   *)
(* the fields                                                                *)
(*   ok      the result of the last call,                                    *)
(*   up      FALSE once the power has failed,                                *)
(*   faults  how many transfers may still fail,                              *)
(*   power   how many power failures may still come,                         *)
(*   marred  whether a transfer has failed so far,                           *)
(*   late    whether one has failed after the medium took it,                *)
(*   cut     whether the power has failed so far.                            *)
(*   present whether the machine has such a volume at all.                   *)
(* A call is the set of the states it may leave behind.                      *)
EXTENDS Naturals

DiskFields(faults, power) ==
    [present |-> TRUE, ok |-> TRUE, up |-> TRUE, faults |-> faults, power |-> power,
     marred |-> FALSE, late |-> FALSE, cut |-> FALSE]

(* The state of a filesystem on a machine without such a volume: no call of  *)
(* it is made and nothing is asked of it.                                    *)
NoVolume == [present |-> FALSE]

(* A transfer that reports failure; T is what the medium then holds. *)
Fails(T) == [T EXCEPT !.ok = FALSE, !.faults = @ - 1, !.marred = TRUE]

DiskRead(S) ==
    IF ~S.up THEN {[S EXCEPT !.ok = FALSE]}
    ELSE {[S EXCEPT !.ok = TRUE]} \cup {Fails(S) : i \in 1 .. (IF S.faults > 0 THEN 1 ELSE 0)}

(* One write that turns S into T.  A driver that fails after the transfer    *)
(* (the flush that follows it, a late status) reports failure although the   *)
(* sector is on the medium.                                                  *)
DiskWrite(S, T) ==
    IF ~S.up THEN {[S EXCEPT !.ok = FALSE]}
    ELSE {[T EXCEPT !.ok = TRUE]}
         \cup {Fails(X) : X \in IF S.faults > 0 THEN {S, [T EXCEPT !.late = TRUE]} ELSE {}}
         \cup {[X EXCEPT !.ok = FALSE, !.up = FALSE, !.power = @ - 1, !.cut = TRUE] :
                  X \in IF S.power > 0 THEN {T} ELSE {}}

(* Ts, and then F where the last call succeeded. *)
Then(Ts, F(_)) == UNION {IF T.ok THEN F(T) ELSE {T} : T \in Ts}

(* Ts, and then F whatever the last call returned. *)
Always(Ts, F(_)) == UNION {F(T) : T \in Ts}

(* The error exit of a call: it reports failure. *)
Refuse(Ts) == {[T EXCEPT !.ok = FALSE] : T \in Ts}

(* The normal exit of a call: it reports success. *)
Accept(Ts) == {[T EXCEPT !.ok = TRUE] : T \in Ts}

CeilDiv(n, d) == (n + d - 1) \div d
=============================================================================
