----------------------------- MODULE PointTable -----------------------------
(***************************************************************************)
(* What the point table layer (src/ptable/egw_ptable.c) computes from the  *)
(* rows of a business table, as pure operators: which rows end up in the   *)
(* row set, in which order, with which values, and how a row is looked up. *)
(*                                                                         *)
(* A row of the database has the two columns the schemas order by and look *)
(* up: dev (device_id) and sub (reg_addr, or sig_id in the route table).   *)
(* The other columns are copied alike and are left out.                    *)
(***************************************************************************)
EXTENDS Integers, Sequences, Functions

\* The greatest value of a 16-bit field.
UINT16_MAX == 65535

\* read_column: sqlite3_column_int64, which is wider than the fields, cut to an
\* unsigned field that holds `size' values.
read_column(v, size) == v % size

\* The row set's copy of a row: device_id is 16 bits wide, reg_addr too.
StoredRow(r) ==
  [dev |-> read_column(r.dev, UINT16_MAX + 1), sub |-> read_column(r.sub, UINT16_MAX + 1)]

\* What calloc leaves in a row no SELECT result was copied to.
ZeroRow == [dev |-> 0, sub |-> 0]

\* The permutations of the positions of a table, and the rows so permuted.
Orders(rows) == Bijection(DOMAIN rows, DOMAIN rows)
Permuted(rows, p) == [i \in DOMAIN rows |-> rows[p[i]]]

\* The rows are compared by device_id, rows of one device by reg_addr.
key_less(a, b) == a.dev < b.dev \/ (a.dev = b.dev /\ a.sub < b.sub)

\* No row is before a lesser one.
InOrder(rows) == \A i, j \in DOMAIN rows : i < j => ~key_less(rows[j], rows[i])

\* Mutant of OrderBy: the columns are swapped.
OrderBySubFirst(rows) ==
  LET swapped == [i \in DOMAIN rows |-> [dev |-> rows[i].sub, sub |-> rows[i].dev]]
  IN  Permuted(rows, CHOOSE p \in Orders(rows) : InOrder(Permuted(swapped, p)))

\* ORDER BY device_id, reg_addr: on the values of the database.
OrderBy(rows) == Permuted(rows, CHOOSE p \in Orders(rows) : InOrder(Permuted(rows, p)))

\* master_lkp_cmp and slave_lkp_cmp compare (device_id << 16) | reg_addr.
lkp_less(a, b) == a.dev * 65536 + a.sub < b.dev * 65536 + b.sub

\* bsearch of the C library, as the row sets use it: the index of a row that
\* compares equal to the key, 0 when the search ends without one.
rs_lookup(rows, key) ==
  LET Bounds == 1..(Len(rows) + 1)
      search[w \in Bounds \X Bounds] ==
        LET mid == (w[1] + w[2]) \div 2
        IN  IF w[1] >= w[2] THEN 0
            ELSE IF lkp_less(key, rows[mid]) THEN search[<<w[1], mid>>]
            ELSE IF lkp_less(rows[mid], key) THEN search[<<mid + 1, w[2]>>]
            ELSE mid
  IN  search[<<1, Len(rows) + 1>>]
=============================================================================
