------------------------------ MODULE MCLoopback ------------------------------
(***************************************************************************)
(* Small instances of Loopback with the real checksum.                     *)
(***************************************************************************)
EXTENDS Loopback, Crc

Master(unit, fc, addr, count) ==
    [device_id |-> unit, func_code |-> fc, reg_addr |-> addr, reg_count |-> count]
Row(unit, addr) == [device_id |-> unit, reg_addr |-> addr]

(* Five devices, one more than the slave registers; one key occurs twice. *)
FiveDevices == <<Row(1, 2), Row(1, 4), Row(1, 4), Row(2, 0), Row(3, 0), Row(4, 0), Row(5, 0)>>

(* A key that exists, one that does not, coils, a device that is not registered, a write
   and a function code that cannot be encoded; then counts that cannot be answered: none,
   registers and coils that overrun an array, and a byte count that wraps to 0. *)
Asked == {Master(1, 3, 4, 2), Master(2, 3, 7, 1), Master(1, 1, 4, 9), Master(5, 3, 0, 1),
          Master(1, 6, 2, 1), Master(1, 7, 0, 1),
          Master(1, 3, 4, 0), Master(1, 3, 4, 126), Master(1, 1, 4, 257), Master(1, 4, 2, 128)}

(* Two values memory may hold. *)
AnyJunk == {0, 7}

===============================================================================
