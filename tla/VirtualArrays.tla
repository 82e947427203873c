--------------------------- MODULE VirtualArrays ---------------------------
(***************************************************************************)
(* The virtual arrays of libjpeg's memory manager (jmemmgr.c), which hold  *)
(* the coefficients or the samples of an image: a strip of rows in memory  *)
(* and, when that is too small for all of them, a backing store for the    *)
(* rest (jmemansi.c or jmemname.c; with jmemnobs.c there is always room    *)
(* for all).  The code of both kinds of array is the same but for the size *)
(* of what is in a row; a row is one value here.                           *)
(***************************************************************************)
EXTENDS Integers

CONSTANTS
  Contents,        \* what a row may hold
  Zero,            \* what it holds when it is zeroed
  NoOfRows,        \* rows_in_array
  MaxAccess,       \* maxaccess: rows that are accessed at once
  MaxMinHeights    \* max_minheights: how many times as many fit in memory

ASSUME VirtualArraysAssumption ==
  /\ Zero \in Contents
  /\ NoOfRows \in Nat \ {0} /\ MaxAccess \in Nat \ {0} /\ MaxMinHeights \in Nat \ {0}

\* realize_virt_arrays: what memory and backing store hold is undefined.
Realized(rows_in_array, maxaccess, max_minheights, memory, store) ==
  LET fits == (rows_in_array - 1) \div maxaccess + 1 <= max_minheights
      rows_in_mem == IF fits THEN rows_in_array ELSE max_minheights * maxaccess
  IN  [rows_in_array |-> rows_in_array, maxaccess |-> maxaccess,
       rows_in_mem |-> rows_in_mem, b_s_open |-> ~fits,
       cur_start_row |-> 0, first_undef_row |-> 0, dirty |-> FALSE,
       mem_buffer |-> [i \in 0 .. rows_in_mem - 1 |-> memory],
       b_s_info |-> [r \in 0 .. rows_in_array - 1 |-> store],
       error |-> "none"]

InWindow(a, r) == r \in a.cur_start_row .. a.cur_start_row + a.rows_in_mem - 1

\* do_barray_io, do_sarray_io: chunk by chunk, but no row that is not defined yet and none
\* behind the last.
Transferred(a) ==
  {r \in 0 .. a.rows_in_array - 1 : InWindow(a, r) /\ r < a.first_undef_row}
WrittenBack(a) ==
  [a EXCEPT !.b_s_info = [r \in DOMAIN a.b_s_info |->
     IF r \in Transferred(a) THEN a.mem_buffer[r - a.cur_start_row] ELSE a.b_s_info[r]],
            !.dirty = FALSE]
ReadIn(a) ==
  [a EXCEPT !.mem_buffer = [i \in DOMAIN a.mem_buffer |->
     IF i + a.cur_start_row \in Transferred(a) THEN a.b_s_info[i + a.cur_start_row]
     ELSE a.mem_buffer[i]]]

\* The window moves: forward to the rows that are asked for, backward so that
\* they are its last.
\* (Mutant: what is in it is not written back.)
StartOfWindow(a, start, end) ==
  IF start > a.cur_start_row THEN start
  ELSE IF end < a.rows_in_mem THEN 0 ELSE end - a.rows_in_mem
MovedAway(a, start, end) ==
  ReadIn([a EXCEPT !.cur_start_row = StartOfWindow(a, start, end), !.dirty = FALSE])
Moved(a, start, end) ==
  ReadIn([IF a.dirty THEN WrittenBack(a) ELSE a
            EXCEPT !.cur_start_row = StartOfWindow(a, start, end)])

\* Rows nobody has written yet are zeroed, and defined if they will be written.
Defined(a, start, end, writable, zero) ==
  LET undef == IF a.first_undef_row < start THEN start ELSE a.first_undef_row
  IN  IF a.first_undef_row >= end THEN a
      ELSE [a EXCEPT
             !.first_undef_row = IF writable THEN end ELSE @,
             !.mem_buffer = [i \in DOMAIN a.mem_buffer |->
               IF i + a.cur_start_row \in undef .. end - 1 THEN zero ELSE a.mem_buffer[i]]]

\* access_virt_barray and access_virt_sarray, of an array that is to be zeroed.
Outside(a, start, end) ==
  start < a.cur_start_row \/ end > a.cur_start_row + a.rows_in_mem
\* (What is written behind undefined rows is refused when the window has moved
\* already, which no row shows.)
BadAccess(a, start, end, writable) ==
  \/ end > a.rows_in_array \/ end - start > a.maxaccess
  \/ writable /\ a.first_undef_row < start
Accessed(a, start, end, writable, zero) ==
  LET moved == IF Outside(a, start, end) THEN Moved(a, start, end) ELSE a
  IN  IF BadAccess(a, start, end, writable)
      THEN [a EXCEPT !.error = "JERR_BAD_VIRTUAL_ACCESS"]
      ELSE IF Outside(a, start, end) /\ ~a.b_s_open
      THEN [a EXCEPT !.error = "JERR_VIRTUAL_BUG"]
      ELSE [Defined(moved, start, end, writable, zero) EXCEPT !.dirty = @ \/ writable]

\* What the caller sees at the address it gets, and puts there.
RowAt(a, r) == a.mem_buffer[r - a.cur_start_row]
Stored(a, contents) ==
  [a EXCEPT !.mem_buffer = [i \in DOMAIN a.mem_buffer |->
     IF i + a.cur_start_row \in DOMAIN contents THEN contents[i + a.cur_start_row]
     ELSE a.mem_buffer[i]]]
-----------------------------------------------------------------------------
VARIABLES
  array,    \* jvirt_barray_control, with its buffer and its backing store
  view      \* the rows the last access was for, as the caller sees them

arrayVars == <<array, view>>

VirtualInit ==
  /\ \E memory, store \in Contents :
       array = Realized(NoOfRows, MaxAccess, MaxMinHeights, memory, store)
  /\ view = << >>

Access(start, end, writable) ==
  array.error = "none" /\ start < end
    /\ Accessed(array, start, end, writable, Zero).error = "none"

WriteStrip(start, end) ==
  /\ Access(start, end, TRUE)
  /\ \E contents \in [start .. end - 1 -> Contents] :
       array' = Stored(Accessed(array, start, end, TRUE, Zero), contents)
  /\ view' = << >>

ReadStrip(start, end) ==
  /\ Access(start, end, FALSE)
  /\ array' = Accessed(array, start, end, FALSE, Zero)
  /\ view' = [r \in start .. end - 1 |-> RowAt(array', r)]

Refused(start, end, writable) ==
  /\ array.error = "none" /\ start < end
  /\ Accessed(array, start, end, writable, Zero).error # "none"
  /\ array' = Accessed(array, start, end, writable, Zero)
  /\ UNCHANGED view

VirtualNext ==
  \E start, end \in 0 .. NoOfRows :
    \/ WriteStrip(start, end)
    \/ ReadStrip(start, end)
    \/ \E writable \in BOOLEAN : Refused(start, end, writable)

VirtualSpec == VirtualInit /\ [][VirtualNext]_arrayVars
-----------------------------------------------------------------------------
\* What the array stands for.
Row(a, r, zero) ==
  IF r >= a.first_undef_row THEN zero
  ELSE IF InWindow(a, r) THEN RowAt(a, r) ELSE a.b_s_info[r]

Plain == INSTANCE PlainArray
  WITH rows <- [r \in 0 .. NoOfRows - 1 |-> Row(array, r, Zero)], seen <- view

\* However the window moves, forward, backward or over itself, the caller finds
\* in each row what was last put there, and zero where nothing was
\* (jmemmgr.c:862).
RowsComeBack == Plain!ArraySpec
=============================================================================
