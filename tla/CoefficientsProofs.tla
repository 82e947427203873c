------------------------- MODULE CoefficientsProofs -------------------------
(***************************************************************************)
(* What holds of the coefficients of an image, where libjpeg keeps them    *)
(* and as tulipan changes them.                                            *)
(*                                                                         *)
(* The virtual arrays that hold them are plain arrays, for every number of *)
(* rows, size of the window and contents.  Through them, the blocks of an  *)
(* image of any size and sampling come back from the scans they are        *)
(* written in.  The decoder reads the parities the encoder meant, the      *)
(* stego image is the recompressed cover but for steps of one, and the dry *)
(* coefficients are those that could go either way, for every image, steps *)
(* and threshold.  And as progressive scans are written, the buffer of     *)
(* correction bits holds what is put into it.                              *)
(***************************************************************************)
EXTENDS VirtualArrays, WetCoefficients, ProgressiveCoding, BlockGeometry,
        FiniteSetTheorems, SequenceTheorems, WellFoundedInduction, TLAPS

-----------------------------------------------------------------------------
(***************************************************************************)
(* Virtual arrays                                                          *)
(***************************************************************************)
\* How many rows an array has, how many are accessed at once, how many times as
\* many fit in memory, what a row may hold, and what it holds when it is zeroed.
IsKind(k) ==
  /\ k.rows \in Nat \ {0} /\ k.access \in Nat \ {0} /\ k.heights \in Nat \ {0}
  /\ k.zero \in k.contents

Fits(k) == (k.rows - 1) \div k.access + 1 <= k.heights
MemRows(k) == IF Fits(k) THEN k.rows ELSE k.heights * k.access
Errors == {"none", "JERR_BAD_VIRTUAL_ACCESS", "JERR_VIRTUAL_BUG"}

\* jvirt_barray_control, with its buffer and its backing store.
Control(k) ==
  [rows_in_array : {k.rows}, maxaccess : {k.access}, rows_in_mem : {MemRows(k)},
   b_s_open : {~Fits(k)}, cur_start_row : Nat, first_undef_row : 0 .. k.rows,
   dirty : BOOLEAN, mem_buffer : [0 .. MemRows(k) - 1 -> k.contents],
   b_s_info : [0 .. k.rows - 1 -> k.contents], error : Errors]

\* Unless something was changed in the window, what the backing store has of it
\* is what is in it; all of an array without backing store is in the window.
Good(k, a) ==
  /\ a \in Control(k)
  /\ ~a.dirty => \A r \in Transferred(a) : a.mem_buffer[r - a.cur_start_row] = a.b_s_info[r]
  /\ Fits(k) => a.cur_start_row = 0

Within(a, start, end) ==
  a.cur_start_row <= start /\ end <= a.cur_start_row + a.rows_in_mem

Touched(a, writable) == [a EXCEPT !.dirty = @ \/ writable]

\* What the caller puts into its rows is what they stand for then.
IsStored(k, a, b, contents) ==
  /\ Good(k, b) /\ b.error = a.error /\ b.first_undef_row = a.first_undef_row
  /\ \A r \in 0 .. k.rows - 1 :
       Row(b, r, k.zero) = IF r \in DOMAIN contents THEN contents[r] ELSE Row(a, r, k.zero)

\* An access fails for one of two reasons, and changes nothing then.
IsRefused(a, b) ==
  \E error \in {"JERR_BAD_VIRTUAL_ACCESS", "JERR_VIRTUAL_BUG"} : b = [a EXCEPT !.error = error]

\* What array a becomes when its window moves.
HasMoved(k, a, b, start, end) ==
  /\ Good(k, b) /\ Within(b, start, end)
  /\ b.dirty = FALSE /\ b.first_undef_row = a.first_undef_row /\ b.error = a.error
  /\ \A r \in 0 .. k.rows - 1 : Row(b, r, k.zero) = Row(a, r, k.zero)

\* What it becomes by an access: every row stays as it was, and the caller finds
\* in the window what the rows that were asked for stand for.
IsAccessed(k, a, b, start, end, writable) ==
  /\ Good(k, b) /\ Within(b, start, end) /\ b.error = a.error
  /\ writable => b.dirty
  /\ writable => end <= b.first_undef_row
  /\ a.first_undef_row <= b.first_undef_row
  /\ \A r \in 0 .. k.rows - 1 : Row(b, r, k.zero) = Row(a, r, k.zero)
  /\ \A r \in start .. end - 1 : RowAt(b, r) = Row(a, r, k.zero)

-----------------------------------------------------------------------------
\* The window holds the rows of one access, and is not empty.
LEMMA WindowIsLargeEnough ==
  ASSUME NEW k, IsKind(k)
  PROVE  /\ MemRows(k) \in Nat \ {0}
         /\ Fits(k) \in BOOLEAN
         /\ ~Fits(k) => k.access <= MemRows(k)
<1>1. ASSUME NEW m \in Nat \ {0}, NEW n \in Nat \ {0}
      PROVE  m * n \in Nat \ {0} /\ n <= m * n
  <2>1. m * n = (m - 1) * n + n
    BY SMT
  <2>2. (m - 1) * n \in Nat
    BY SMT
  <2> QED BY <2>1, <2>2
<1>2. k.heights * k.access \in Nat \ {0} /\ k.access <= k.heights * k.access
  BY <1>1 DEF IsKind
<1> QED BY <1>2 DEF IsKind, MemRows, Fits

\* The fields of an array that was written back.
LEMMA WriteBackKeepsTheRows ==
  ASSUME NEW k, IsKind(k), NEW a \in Control(k)
  PROVE  /\ WrittenBack(a) \in Control(k)
         /\ WrittenBack(a).dirty = FALSE
         /\ WrittenBack(a).cur_start_row = a.cur_start_row
         /\ WrittenBack(a).first_undef_row = a.first_undef_row
         /\ WrittenBack(a).mem_buffer = a.mem_buffer
         /\ WrittenBack(a).error = a.error
         /\ \A r \in 0 .. k.rows - 1 :
              WrittenBack(a).b_s_info[r] =
                IF r \in Transferred(a) THEN a.mem_buffer[r - a.cur_start_row]
                ELSE a.b_s_info[r]
<1> DEFINE store == [r \in DOMAIN a.b_s_info |->
             IF r \in Transferred(a) THEN a.mem_buffer[r - a.cur_start_row] ELSE a.b_s_info[r]]
<1>1. DOMAIN a.b_s_info = 0 .. k.rows - 1
  BY DEF Control
<1>2. \A r \in Transferred(a) : r - a.cur_start_row \in 0 .. MemRows(k) - 1
  BY WindowIsLargeEnough DEF IsKind, Transferred, InWindow, Control
<1>3. store \in [0 .. k.rows - 1 -> k.contents]
  BY <1>1, <1>2 DEF Control
<1>4. WrittenBack(a) = [a EXCEPT !.b_s_info = store, !.dirty = FALSE]
  BY DEF WrittenBack
<1> HIDE DEF store
<1>5. /\ WrittenBack(a) \in Control(k)
      /\ WrittenBack(a).dirty = FALSE
      /\ WrittenBack(a).b_s_info = store
      /\ WrittenBack(a).cur_start_row = a.cur_start_row
      /\ WrittenBack(a).first_undef_row = a.first_undef_row
      /\ WrittenBack(a).mem_buffer = a.mem_buffer
      /\ WrittenBack(a).error = a.error
  BY <1>3, <1>4 DEF Control
<1> USE DEF store
<1> QED BY <1>1, <1>5

\* What is read into the window is what the backing store has of its rows.
LEMMA ReadInFillsTheWindow ==
  ASSUME NEW k, IsKind(k), NEW a \in Control(k)
  PROVE  /\ ReadIn(a) \in Control(k)
         /\ ReadIn(a).dirty = a.dirty
         /\ ReadIn(a).cur_start_row = a.cur_start_row
         /\ ReadIn(a).first_undef_row = a.first_undef_row
         /\ ReadIn(a).b_s_info = a.b_s_info
         /\ ReadIn(a).error = a.error
         /\ \A i \in 0 .. MemRows(k) - 1 :
              ReadIn(a).mem_buffer[i] =
                IF i + a.cur_start_row \in Transferred(a) THEN a.b_s_info[i + a.cur_start_row]
                ELSE a.mem_buffer[i]
<1> DEFINE memory == [i \in DOMAIN a.mem_buffer |->
             IF i + a.cur_start_row \in Transferred(a) THEN a.b_s_info[i + a.cur_start_row]
             ELSE a.mem_buffer[i]]
<1>1. DOMAIN a.mem_buffer = 0 .. MemRows(k) - 1
  BY DEF Control
<1>2. memory \in [0 .. MemRows(k) - 1 -> k.contents]
  BY <1>1 DEF Control, Transferred
<1>3. ReadIn(a) = [a EXCEPT !.mem_buffer = memory]
  BY DEF ReadIn
<1> HIDE DEF memory
<1>4. /\ ReadIn(a) \in Control(k)
      /\ ReadIn(a).mem_buffer = memory
      /\ ReadIn(a).dirty = a.dirty
      /\ ReadIn(a).cur_start_row = a.cur_start_row
      /\ ReadIn(a).first_undef_row = a.first_undef_row
      /\ ReadIn(a).b_s_info = a.b_s_info
      /\ ReadIn(a).error = a.error
  BY <1>2, <1>3 DEF Control
<1> USE DEF memory
<1> QED BY <1>1, <1>4

-----------------------------------------------------------------------------
\* The window goes where the rows are that were asked for, and takes with it
\* what it held.
LEMMA MovedWindowHoldsTheRows ==
  ASSUME NEW k, IsKind(k), NEW a, Good(k, a), ~Fits(k),
         NEW start \in 0 .. k.rows, NEW end \in 0 .. k.rows,
         start < end, end - start <= k.access, Outside(a, start, end)
  PROVE  HasMoved(k, a, Moved(a, start, end), start, end)
<1> DEFINE b == IF a.dirty THEN WrittenBack(a) ELSE a
           at == StartOfWindow(a, start, end)
           c == [b EXCEPT !.cur_start_row = at]
           m == Moved(a, start, end)
<1>1. a \in Control(k) /\ k.rows \in Nat \ {0} /\ MemRows(k) \in Nat \ {0} /\ k.access <= MemRows(k)
      /\ k.access \in Nat /\ a.rows_in_mem = MemRows(k) /\ a.cur_start_row \in Nat
      /\ a.first_undef_row \in 0 .. k.rows /\ a.dirty \in BOOLEAN
  BY WindowIsLargeEnough DEF IsKind, Good, Control
<1>2. /\ b \in Control(k) /\ b.dirty = FALSE /\ b.error = a.error
      /\ b.cur_start_row = a.cur_start_row
      /\ b.first_undef_row = a.first_undef_row
  BY <1>1, WriteBackKeepsTheRows
<1>3. \A r \in 0 .. k.rows - 1 : r < a.first_undef_row => b.b_s_info[r] = Row(a, r, k.zero)
  <2>1. \A r \in 0 .. k.rows - 1 : r < a.first_undef_row =>
          Row(a, r, k.zero) = IF r \in Transferred(a) THEN a.mem_buffer[r - a.cur_start_row]
                      ELSE a.b_s_info[r]
    BY <1>1 DEF Row, RowAt, Transferred, Control
  <2>2. CASE a.dirty
    BY <2>1, <2>2, <1>1, WriteBackKeepsTheRows
  <2>3. CASE ~a.dirty
    BY <2>1, <2>3 DEF Good
  <2> QED BY <2>2, <2>3
<1>4. at \in Nat /\ at <= start /\ end <= at + MemRows(k)
  BY <1>1 DEF StartOfWindow, Outside
<1>5. /\ c \in Control(k) /\ c.dirty = FALSE /\ c.error = a.error
      /\ c.cur_start_row = at
      /\ c.first_undef_row = a.first_undef_row
      /\ c.b_s_info = b.b_s_info
  <2> HIDE DEF b, at
  <2> QED BY <1>2, <1>4 DEF Control
<1>6. m = ReadIn(c)
  BY DEF Moved
<1> HIDE DEF b, c, at, m
<1>7. /\ m \in Control(k) /\ m.dirty = FALSE /\ m.error = a.error
      /\ m.cur_start_row = at
      /\ m.first_undef_row = a.first_undef_row
      /\ m.b_s_info = b.b_s_info
      /\ \A i \in 0 .. MemRows(k) - 1 :
           m.mem_buffer[i] = IF i + at \in Transferred(c) THEN b.b_s_info[i + at]
                             ELSE c.mem_buffer[i]
  BY <1>5, <1>6, ReadInFillsTheWindow
<1>8. m.rows_in_mem = MemRows(k) /\ m.rows_in_array = k.rows
      /\ c.rows_in_mem = MemRows(k) /\ c.rows_in_array = k.rows
  BY <1>5, <1>7 DEF Control
<1>9. Transferred(m) = Transferred(c)
  BY <1>5, <1>7, <1>8 DEF Transferred, InWindow
<1>10. \A r \in Transferred(m) :
          r - at \in 0 .. MemRows(k) - 1 /\ m.mem_buffer[r - at] = b.b_s_info[r]
  <2>1. ASSUME NEW r \in Transferred(m)
        PROVE  r \in 0 .. k.rows - 1 /\ r \in at .. at + MemRows(k) - 1
    BY <2>1, <1>7, <1>8 DEF Transferred, InWindow
  <2>2. ASSUME NEW r \in Transferred(m)
        PROVE  r - at \in 0 .. MemRows(k) - 1 /\ (r - at) + at = r
    BY <2>1, <1>1, <1>4
  <2>3. ASSUME NEW r \in Transferred(m)
        PROVE  m.mem_buffer[r - at] = b.b_s_info[r]
    BY <2>2, <1>7, <1>9
  <2> QED BY <2>2, <2>3
<1>11. Good(k, m)
  BY <1>7, <1>10 DEF Good
<1>12. Within(m, start, end)
  BY <1>4, <1>7, <1>8 DEF Within
<1>13. \A r \in 0 .. k.rows - 1 : Row(m, r, k.zero) = Row(a, r, k.zero)
  <2>1. ASSUME NEW r \in 0 .. k.rows - 1, r >= a.first_undef_row
        PROVE  Row(m, r, k.zero) = Row(a, r, k.zero)
    BY <2>1, <1>7 DEF Row
  <2>2. ASSUME NEW r \in 0 .. k.rows - 1, r < a.first_undef_row, InWindow(m, r)
        PROVE  Row(m, r, k.zero) = Row(a, r, k.zero)
    <3>1. r \in Transferred(m)
      BY <2>2, <1>7, <1>8 DEF Transferred
    <3>2. Row(m, r, k.zero) = m.mem_buffer[r - at]
      BY <2>2, <1>7, <1>1 DEF Row, RowAt
    <3> QED BY <3>1, <3>2, <1>10, <1>3, <2>2
  <2>3. ASSUME NEW r \in 0 .. k.rows - 1, r < a.first_undef_row, ~InWindow(m, r)
        PROVE  Row(m, r, k.zero) = Row(a, r, k.zero)
    BY <2>3, <1>7, <1>3, <1>1 DEF Row
  <2> QED BY <2>1, <2>2, <2>3, <1>1
<1> USE DEF m
<1> QED BY <1>7, <1>11, <1>12, <1>13 DEF HasMoved

\* Rows that were never written are zeroed where they are looked at or written.
LEMMA DefinedRowsAreZero ==
  ASSUME NEW k, IsKind(k), NEW a, Good(k, a),
         NEW start \in 0 .. k.rows, NEW end \in 0 .. k.rows, NEW writable \in BOOLEAN,
         start < end, Within(a, start, end),
         ~(writable /\ a.first_undef_row < start),
         NEW d, d = Touched(Defined(a, start, end, writable, k.zero), writable)
  PROVE  /\ Good(k, d)
         /\ d.dirty = (a.dirty \/ writable)
         /\ d.error = a.error
         /\ d.cur_start_row = a.cur_start_row
         /\ writable => end <= d.first_undef_row
         /\ a.first_undef_row <= d.first_undef_row
         /\ \A r \in 0 .. k.rows - 1 : Row(d, r, k.zero) = Row(a, r, k.zero)
         /\ \A r \in start .. end - 1 : RowAt(d, r) = Row(a, r, k.zero)
<1> DEFINE undef == IF a.first_undef_row < start THEN start ELSE a.first_undef_row
           memory == [i \in DOMAIN a.mem_buffer |->
               IF i + a.cur_start_row \in undef .. end - 1 THEN k.zero ELSE a.mem_buffer[i]]
           first == IF writable THEN end ELSE a.first_undef_row
           e == Defined(a, start, end, writable, k.zero)
<1>0. d = [e EXCEPT !.dirty = e.dirty \/ writable]
  BY DEF Touched
<1>1. /\ a \in Control(k) /\ k.rows \in Nat \ {0} /\ MemRows(k) \in Nat \ {0}
      /\ a.rows_in_mem = MemRows(k) /\ a.cur_start_row \in Nat /\ a.rows_in_array = k.rows
      /\ a.first_undef_row \in 0 .. k.rows /\ a.dirty \in BOOLEAN
      /\ DOMAIN a.mem_buffer = 0 .. MemRows(k) - 1 /\ k.zero \in k.contents
      /\ start \in Nat /\ end \in Nat
  BY WindowIsLargeEnough DEF IsKind, Good, Control
<1>2. CASE a.first_undef_row >= end
  <2>1. e = a
    BY <1>2, <1>1 DEF Defined
  <2>2. /\ d \in Control(k) /\ d.dirty = (a.dirty \/ writable) /\ d.error = a.error
        /\ d.cur_start_row = a.cur_start_row /\ d.first_undef_row = a.first_undef_row
        /\ d.mem_buffer = a.mem_buffer /\ d.b_s_info = a.b_s_info
        /\ d.rows_in_mem = MemRows(k) /\ d.rows_in_array = k.rows
    <3> HIDE DEF e
    <3> QED BY <2>1, <1>0, <1>1 DEF Control
  <2> HIDE DEF e
  <2>3. Transferred(d) = Transferred(a)
    BY <2>2, <1>1 DEF Transferred, InWindow
  <2>4. ~d.dirty => ~a.dirty
    BY <2>2, <1>1
  <2>5. Good(k, d)
    BY <2>2, <2>3, <2>4 DEF Good
  <2>6. \A r \in 0 .. k.rows - 1 : Row(d, r, k.zero) = Row(a, r, k.zero)
    BY <2>2, <1>1 DEF Row, InWindow, RowAt
  <2>7. \A r \in start .. end - 1 : RowAt(d, r) = Row(a, r, k.zero)
    <3>1. ASSUME NEW r \in start .. end - 1
          PROVE  r \in Nat /\ r < a.first_undef_row /\ InWindow(a, r)
      BY <1>1, <1>2 DEF InWindow, Within
    <3>2. ASSUME NEW r \in start .. end - 1
          PROVE  RowAt(d, r) = Row(a, r, k.zero)
      <4>1. ~(r >= a.first_undef_row)
        BY <3>1, <3>2, <1>1
      <4> QED BY <4>1, <3>1, <3>2, <2>2, Zenon DEF Row, RowAt
    <3> QED BY <3>2
  <2>8. a.first_undef_row <= d.first_undef_row /\ (writable => end <= d.first_undef_row)
    BY <2>2, <1>1, <1>2
  <2> QED BY <2>2, <2>5, <2>6, <2>7, <2>8, Zenon
<1>3. CASE a.first_undef_row < end
  <2>1. memory \in [0 .. MemRows(k) - 1 -> k.contents]
    BY <1>1 DEF Control
  <2>2. e = [a EXCEPT !.first_undef_row = first, !.mem_buffer = memory]
    <3>1. ~(a.first_undef_row >= end)
      BY <1>3, <1>1
    <3> QED BY <3>1, Zenon DEF Defined
  <2>3. first \in 0 .. k.rows /\ (writable => first = end) /\ a.first_undef_row <= first
    BY <1>1, <1>3
  <2> HIDE DEF e, memory, first
  <2>4. /\ e \in Control(k) /\ e.dirty = a.dirty /\ e.error = a.error
        /\ e.cur_start_row = a.cur_start_row /\ e.first_undef_row = first
        /\ e.mem_buffer = memory /\ e.b_s_info = a.b_s_info
    BY <2>1, <2>2, <2>3, <1>1 DEF Control
  <2>5. /\ d \in Control(k) /\ d.dirty = (a.dirty \/ writable) /\ d.error = a.error
        /\ d.cur_start_row = a.cur_start_row /\ d.first_undef_row = first
        /\ d.mem_buffer = memory /\ d.b_s_info = a.b_s_info
        /\ d.rows_in_mem = MemRows(k) /\ d.rows_in_array = k.rows
    BY <2>4, <1>0, <1>1 DEF Control
  <2>6. \A i \in 0 .. MemRows(k) - 1 :
          memory[i] = IF i + a.cur_start_row \in undef .. end - 1 THEN k.zero ELSE a.mem_buffer[i]
    BY <1>1 DEF memory
  <2>7. undef \in Nat /\ start <= undef /\ a.first_undef_row <= undef
        /\ (writable => undef = a.first_undef_row)
    BY <1>1
  <2>8. ASSUME NEW r \in 0 .. k.rows - 1, InWindow(a, r)
        PROVE  /\ r - a.cur_start_row \in 0 .. MemRows(k) - 1
               /\ RowAt(d, r) = IF r \in undef .. end - 1 THEN k.zero ELSE RowAt(a, r)
    <3>1. r - a.cur_start_row \in 0 .. MemRows(k) - 1 /\ (r - a.cur_start_row) + a.cur_start_row = r
      BY <2>8, <1>1 DEF InWindow
    <3> HIDE DEF undef
    <3> QED BY <3>1, <2>5, <2>6 DEF RowAt
  <2> HIDE DEF undef
  <2>9. \A r : InWindow(d, r) <=> InWindow(a, r)
    BY <2>5, <1>1 DEF InWindow
  <2>10. \A r \in 0 .. k.rows - 1 : Row(d, r, k.zero) = Row(a, r, k.zero)
    <3>1. ASSUME NEW r \in 0 .. k.rows - 1, r >= first
          PROVE  Row(d, r, k.zero) = Row(a, r, k.zero)
      BY <3>1, <2>3, <2>5, <1>1 DEF Row
    <3>2. ASSUME NEW r \in 0 .. k.rows - 1, r < first, ~InWindow(a, r)
          PROVE  Row(d, r, k.zero) = Row(a, r, k.zero)
      <4>1. r < a.first_undef_row
        <5>1. CASE writable
          <6>1. a.first_undef_row >= start
            BY <5>1, <1>1
          <6>2. r < end /\ r \notin start .. end - 1
            BY <3>2, <5>1, <2>3, <1>1 DEF InWindow, Within
          <6> QED BY <6>1, <6>2, <1>1
        <5>2. CASE ~writable
          BY <5>2, <3>2 DEF first
        <5> QED BY <5>1, <5>2
      <4> QED BY <4>1, <3>2, <2>5, <2>9, <1>1, <2>3 DEF Row
    <3>3. ASSUME NEW r \in 0 .. k.rows - 1, r < first, InWindow(a, r)
          PROVE  Row(d, r, k.zero) = Row(a, r, k.zero)
      <4>1. Row(d, r, k.zero) = RowAt(d, r)
        BY <3>3, <2>5, <2>9, <2>3, <1>1 DEF Row
      <4>2. CASE r \in undef .. end - 1
        BY <4>1, <4>2, <3>3, <2>8, <2>7, <1>1 DEF Row
      <4>3. CASE r \notin undef .. end - 1
        <5>1. r < a.first_undef_row
          BY <4>3, <3>3, <2>3, <2>7, <1>1 DEF first
        <5> QED BY <5>1, <4>1, <4>3, <3>3, <2>8, <1>1 DEF Row
      <4> QED BY <4>2, <4>3
    <3> QED BY <3>1, <3>2, <3>3, <2>3, <1>1
  <2>11. \A r \in start .. end - 1 : RowAt(d, r) = Row(a, r, k.zero)
    <3>1. ASSUME NEW r \in start .. end - 1
          PROVE  r \in 0 .. k.rows - 1 /\ InWindow(a, r)
      BY <1>1 DEF Within, InWindow
    <3>2. ASSUME NEW r \in start .. end - 1
          PROVE  RowAt(d, r) = Row(a, r, k.zero)
      <4>1. CASE r >= a.first_undef_row
        <5>1. r \in undef .. end - 1
          BY <4>1, <1>1 DEF undef
        <5> QED BY <5>1, <4>1, <3>1, <2>8 DEF Row
      <4>2. CASE r < a.first_undef_row
        <5>1. r \notin undef .. end - 1
          BY <4>2, <2>7, <1>1
        <5>2. RowAt(d, r) = RowAt(a, r)
          BY <5>1, <3>1, <2>8
        <5>3. ~(r >= a.first_undef_row)
          BY <4>2, <1>1
        <5> QED BY <5>2, <5>3, <3>1 DEF Row
      <4> QED BY <4>1, <4>2, <1>1
    <3> QED BY <3>2
  <2>12. Good(k, d)
    <3>1. ASSUME ~d.dirty
          PROVE  \A r \in Transferred(d) : d.mem_buffer[r - d.cur_start_row] = d.b_s_info[r]
      <4>1. ~a.dirty /\ ~writable /\ first = a.first_undef_row
        BY <3>1, <2>5, <1>1 DEF first
      <4>2. Transferred(d) = Transferred(a)
        BY <4>1, <2>5, <1>1 DEF Transferred, InWindow
      <4>3. ASSUME NEW r \in Transferred(a)
            PROVE  RowAt(d, r) = a.b_s_info[r]
        <5>1. /\ r \in 0 .. k.rows - 1 /\ InWindow(a, r) /\ r < a.first_undef_row
              /\ r \notin undef .. end - 1
          BY <4>3, <1>1, <2>7 DEF Transferred
        <5>2. a.mem_buffer[r - a.cur_start_row] = a.b_s_info[r]
          BY <4>1, <4>3 DEF Good
        <5> QED BY <5>1, <5>2, <2>8 DEF RowAt
      <4> QED BY <4>2, <4>3, <2>5 DEF RowAt
    <3> QED BY <3>1, <2>5 DEF Good
  <2>13. writable => end <= d.first_undef_row
    <3>1. writable => d.first_undef_row = end
      BY <2>3, <2>5, Zenon
    <3>2. end <= end
      BY <1>1
    <3> QED BY <3>1, <3>2, Zenon
  <2>14. /\ d.dirty = (a.dirty \/ writable) /\ d.error = a.error
         /\ d.cur_start_row = a.cur_start_row
    BY <2>5, Zenon
  <2>15. a.first_undef_row <= d.first_undef_row
    BY <2>3, <2>5
  <2> QED BY <2>10, <2>11, <2>12, <2>13, <2>14, <2>15, Zenon
<1>4. a.first_undef_row >= end \/ a.first_undef_row < end
  BY <1>1
<1> QED BY <1>2, <1>3, <1>4, Zenon
-----------------------------------------------------------------------------
\* An access that is granted leaves every row as it was, and returns what the
\* rows that were asked for stand for.
LEMMA GrantedAccessShowsTheRows ==
  ASSUME NEW k, IsKind(k), NEW a, Good(k, a),
         NEW start \in 0 .. k.rows, NEW end \in 0 .. k.rows, NEW writable \in BOOLEAN,
         start < end, ~BadAccess(a, start, end, writable),
         Outside(a, start, end) => a.b_s_open
  PROVE  IsAccessed(k, a, Accessed(a, start, end, writable, k.zero), start, end, writable)
<1> DEFINE moved == IF Outside(a, start, end) THEN Moved(a, start, end) ELSE a
           d == Touched(Defined(moved, start, end, writable, k.zero), writable)
           acc == Accessed(a, start, end, writable, k.zero)
<1>1. /\ a \in Control(k) /\ a.cur_start_row \in Nat /\ a.first_undef_row \in 0 .. k.rows
      /\ a.rows_in_mem = MemRows(k) /\ a.maxaccess = k.access /\ a.b_s_open = ~Fits(k)
      /\ MemRows(k) \in Nat \ {0} /\ k.rows \in Nat \ {0} /\ k.access \in Nat \ {0}
  BY WindowIsLargeEnough DEF IsKind, Good, Control
<1>5. acc = d
  BY Zenon DEF Accessed, Touched
<1>6. /\ end - start <= k.access
      /\ ~(writable /\ a.first_undef_row < start)
  BY <1>1 DEF BadAccess
<1>7. /\ Good(k, moved)
      /\ Within(moved, start, end)
      /\ moved.first_undef_row = a.first_undef_row /\ moved.error = a.error
      /\ \A r \in 0 .. k.rows - 1 : Row(moved, r, k.zero) = Row(a, r, k.zero)
  <2>1. CASE Outside(a, start, end)
    <3>1. ~Fits(k)
      BY <2>1, <1>1, Zenon
    <3>2. moved = Moved(a, start, end)
      BY <2>1
    <3>3. end - start <= k.access
      BY <1>6
    <3>4. HasMoved(k, a, Moved(a, start, end), start, end)
      BY <2>1, <3>1, <3>3, MovedWindowHoldsTheRows, Zenon
    <3> QED BY <3>2, <3>4, Zenon DEF HasMoved
  <2>2. CASE ~Outside(a, start, end)
    BY <2>2, <1>1 DEF Outside, Within
  <2> QED BY <2>1, <2>2
<1> HIDE DEF moved, acc
<1>8. ~(writable /\ moved.first_undef_row < start)
  BY <1>6, <1>7, Zenon
<1>0. d = Touched(Defined(moved, start, end, writable, k.zero), writable)
  OBVIOUS
<1> HIDE DEF d
<1>9. /\ Good(k, d)
      /\ d.dirty = (moved.dirty \/ writable)
      /\ d.cur_start_row = moved.cur_start_row /\ d.error = moved.error
      /\ writable => end <= d.first_undef_row
      /\ moved.first_undef_row <= d.first_undef_row
      /\ \A r \in 0 .. k.rows - 1 : Row(d, r, k.zero) = Row(moved, r, k.zero)
      /\ \A r \in start .. end - 1 : RowAt(d, r) = Row(moved, r, k.zero)
  BY <1>0, <1>7, <1>8, DefinedRowsAreZero
<1>10. Within(d, start, end)
  BY <1>7, <1>9 DEF Within, Good, Control
<1>11. \A r \in start .. end - 1 : r \in 0 .. k.rows - 1
  BY <1>1
<1>12. writable => d.dirty
  BY <1>9, Zenon
<1>13. /\ \A r \in 0 .. k.rows - 1 : Row(d, r, k.zero) = Row(a, r, k.zero)
       /\ \A r \in start .. end - 1 : RowAt(d, r) = Row(a, r, k.zero)
  BY <1>7, <1>9, <1>11, Zenon
<1>14. /\ Good(k, d) /\ Within(d, start, end)
       /\ writable => d.dirty
       /\ writable => end <= d.first_undef_row
       /\ a.first_undef_row <= d.first_undef_row
       /\ d.error = a.error
  BY <1>7, <1>9, <1>10, <1>12, Zenon
<1> USE DEF acc
<1> QED BY <1>5, <1>13, <1>14, Zenon DEF IsAccessed

\* An access fails before anything has changed.
LEMMA RefusedAccessChangesNothing ==
  ASSUME NEW k, IsKind(k), NEW a, Good(k, a), a.error = "none",
         NEW start \in 0 .. k.rows, NEW end \in 0 .. k.rows, NEW writable \in BOOLEAN,
         start < end
  PROVE  \/ Accessed(a, start, end, writable, k.zero).error = "none"
         \/ IsRefused(a, Accessed(a, start, end, writable, k.zero))
<1>3. CASE BadAccess(a, start, end, writable)
  <2>1. Accessed(a, start, end, writable, k.zero) = [a EXCEPT !.error = "JERR_BAD_VIRTUAL_ACCESS"]
    BY <1>3, Zenon DEF Accessed
  <2> QED BY <2>1 DEF IsRefused
<1>4. CASE ~BadAccess(a, start, end, writable) /\ Outside(a, start, end) /\ ~a.b_s_open
  <2>1. Accessed(a, start, end, writable, k.zero) = [a EXCEPT !.error = "JERR_VIRTUAL_BUG"]
    BY <1>4, Zenon DEF Accessed
  <2> QED BY <2>1 DEF IsRefused
<1>5. CASE ~BadAccess(a, start, end, writable) /\ (Outside(a, start, end) => a.b_s_open)
  <2>1. IsAccessed(k, a, Accessed(a, start, end, writable, k.zero), start, end, writable)
    BY <1>5, GrantedAccessShowsTheRows, Zenon
  <2> QED BY <1>5, <2>1, Zenon DEF IsAccessed
<1> QED BY <1>3, <1>4, <1>5

\* An access without error leaves every row as it was, and returns what the
\* rows that were asked for stand for.
LEMMA AccessShowsTheRows ==
  ASSUME NEW k, IsKind(k), NEW a, Good(k, a), a.error = "none",
         NEW start \in 0 .. k.rows, NEW end \in 0 .. k.rows, NEW writable \in BOOLEAN,
         start < end, Accessed(a, start, end, writable, k.zero).error = "none"
  PROVE  IsAccessed(k, a, Accessed(a, start, end, writable, k.zero), start, end, writable)
<1>1. /\ ~BadAccess(a, start, end, writable)
      /\ Outside(a, start, end) => a.b_s_open
  <2>1. ASSUME NEW error \in {"JERR_BAD_VIRTUAL_ACCESS", "JERR_VIRTUAL_BUG"}
        PROVE  [a EXCEPT !.error = error].error # "none"
    BY DEF Good, Control
  <2>2. CASE BadAccess(a, start, end, writable)
    <3>1. Accessed(a, start, end, writable, k.zero) = [a EXCEPT !.error = "JERR_BAD_VIRTUAL_ACCESS"]
      BY <2>2, Zenon DEF Accessed
    <3> QED BY <2>1, <3>1
  <2>3. CASE ~BadAccess(a, start, end, writable) /\ Outside(a, start, end) /\ ~a.b_s_open
    <3>1. Accessed(a, start, end, writable, k.zero) = [a EXCEPT !.error = "JERR_VIRTUAL_BUG"]
      BY <2>3, Zenon DEF Accessed
    <3> QED BY <2>1, <3>1
  <2> QED BY <2>2, <2>3, Zenon
<1> QED BY <1>1, GrantedAccessShowsTheRows, Zenon

\* What is asked for within the array, not more than at once, and written where
\* nothing is left out, is granted.
LEMMA AccessIsGranted ==
  ASSUME NEW k, IsKind(k), NEW a, Good(k, a),
         NEW start \in Nat, NEW end \in Nat, NEW writable \in BOOLEAN,
         start < end, end <= k.rows, end - start <= k.access,
         writable => start <= a.first_undef_row
  PROVE  IsAccessed(k, a, Accessed(a, start, end, writable, k.zero), start, end, writable)
<1>1. /\ a \in Control(k) /\ a.rows_in_array = k.rows /\ a.maxaccess = k.access
      /\ k.rows \in Nat \ {0} /\ k.access \in Nat /\ a.first_undef_row \in 0 .. k.rows
      /\ a.rows_in_mem = MemRows(k) /\ a.b_s_open = ~Fits(k)
  BY DEF Good, Control, IsKind
<1>2. ~BadAccess(a, start, end, writable)
  BY <1>1 DEF BadAccess
<1>3. Outside(a, start, end) => a.b_s_open
  <2>1. CASE Fits(k)
    <3>1. a.cur_start_row = 0 /\ a.rows_in_mem = k.rows
      BY <1>1, <2>1 DEF Good, MemRows
    <3> QED BY <1>1, <3>1 DEF Outside
  <2> QED BY <2>1, <1>1
<1>4. start \in 0 .. k.rows /\ end \in 0 .. k.rows
  BY <1>1
<1> QED BY <1>2, <1>3, <1>4, GrantedAccessShowsTheRows, Zenon

\* What the caller puts into the rows of its access is what they stand for then.
LEMMA StoredRowsAreTheCallers ==
  ASSUME NEW k, IsKind(k), NEW a, Good(k, a), a.dirty,
         NEW start \in 0 .. k.rows, NEW end \in 0 .. k.rows,
         start < end, Within(a, start, end), end <= a.first_undef_row,
         NEW contents \in [start .. end - 1 -> k.contents]
  PROVE  IsStored(k, a, Stored(a, contents), contents)
<1> DEFINE memory == [i \in DOMAIN a.mem_buffer |->
              IF i + a.cur_start_row \in DOMAIN contents THEN contents[i + a.cur_start_row]
              ELSE a.mem_buffer[i]]
           s == Stored(a, contents)
<1>1. /\ a \in Control(k) /\ a.cur_start_row \in Nat /\ a.first_undef_row \in 0 .. k.rows
      /\ a.rows_in_mem = MemRows(k) /\ DOMAIN a.mem_buffer = 0 .. MemRows(k) - 1
      /\ MemRows(k) \in Nat \ {0} /\ k.rows \in Nat \ {0}
      /\ DOMAIN contents = start .. end - 1 /\ start \in Nat /\ end \in Nat
  BY WindowIsLargeEnough DEF IsKind, Good, Control
<1>2. memory \in [0 .. MemRows(k) - 1 -> k.contents]
  BY <1>1 DEF Control
<1>3. \A i \in 0 .. MemRows(k) - 1 :
        memory[i] = IF i + a.cur_start_row \in start .. end - 1
                    THEN contents[i + a.cur_start_row] ELSE a.mem_buffer[i]
  BY <1>1
<1>4. s = [a EXCEPT !.mem_buffer = memory]
  BY Zenon DEF Stored
<1> HIDE DEF memory, s
<1>5. /\ s \in Control(k) /\ s.dirty = a.dirty /\ s.cur_start_row = a.cur_start_row
      /\ s.first_undef_row = a.first_undef_row /\ s.mem_buffer = memory
      /\ s.b_s_info = a.b_s_info /\ s.rows_in_mem = MemRows(k)
  BY <1>1, <1>2, <1>4 DEF Control
<1>6. Good(k, s)
  BY <1>5 DEF Good
<1>7. ASSUME NEW r \in 0 .. k.rows - 1
      PROVE  Row(s, r, k.zero) = IF r \in start .. end - 1 THEN contents[r] ELSE Row(a, r, k.zero)
  <2>1. InWindow(s, r) <=> InWindow(a, r)
    BY <1>1, <1>5 DEF InWindow
  <2>2. CASE ~InWindow(a, r)
    <3>1. r \notin start .. end - 1
      BY <2>2, <1>1 DEF InWindow, Within
    <3> QED BY <3>1, <2>1, <2>2, <1>5 DEF Row
  <2>3. CASE r >= a.first_undef_row
    <3>1. r \notin start .. end - 1
      BY <2>3, <1>1
    <3> QED BY <3>1, <2>3, <1>5 DEF Row
  <2>4. CASE InWindow(a, r) /\ ~(r >= a.first_undef_row)
    <3>1. r - a.cur_start_row \in 0 .. MemRows(k) - 1 /\ (r - a.cur_start_row) + a.cur_start_row = r
      BY <2>4, <1>1 DEF InWindow
    <3>2. /\ Row(s, r, k.zero) = memory[r - a.cur_start_row]
          /\ Row(a, r, k.zero) = a.mem_buffer[r - a.cur_start_row]
      BY <2>1, <2>4, <1>5 DEF Row, RowAt
    <3> QED BY <3>1, <3>2, <1>3
  <2> QED BY <2>2, <2>3, <2>4
<1>8. s.error = a.error /\ s.first_undef_row = a.first_undef_row
  BY <1>4, <1>1 DEF Control
<1> USE DEF s
<1> QED BY <1>1, <1>6, <1>7, <1>8, Zenon DEF IsStored

\* A new array is a plain one of zeros, whatever is in memory.
LEMMA NewArrayIsZero ==
  ASSUME NEW k, IsKind(k), NEW memory \in k.contents, NEW store \in k.contents,
         NEW a, a = Realized(k.rows, k.access, k.heights, memory, store)
  PROVE  /\ Good(k, a) /\ a.error = "none" /\ a.first_undef_row = 0
         /\ \A r \in 0 .. k.rows - 1 : Row(a, r, k.zero) = k.zero
<1>1. MemRows(k) \in Nat \ {0} /\ k.rows \in Nat \ {0} /\ Fits(k) \in BOOLEAN
  BY WindowIsLargeEnough DEF IsKind
<1>2. a = [rows_in_array |-> k.rows, maxaccess |-> k.access,
           rows_in_mem |-> MemRows(k), b_s_open |-> ~Fits(k),
           cur_start_row |-> 0, first_undef_row |-> 0, dirty |-> FALSE,
           mem_buffer |-> [i \in 0 .. MemRows(k) - 1 |-> memory],
           b_s_info |-> [r \in 0 .. k.rows - 1 |-> store],
           error |-> "none"]
  BY Zenon DEF Realized, Fits, MemRows
<1>3. a \in Control(k)
  BY <1>1, <1>2 DEF Control, Errors
<1>4. a.first_undef_row = 0 /\ a.cur_start_row = 0 /\ a.error = "none"
  BY <1>2
<1>5. Transferred(a) = {}
  BY <1>4 DEF Transferred
<1>6. Good(k, a)
  BY <1>3, <1>4, <1>5 DEF Good
<1>7. \A r \in 0 .. k.rows - 1 : Row(a, r, k.zero) = k.zero
  BY <1>1, <1>4 DEF Row
<1> QED BY <1>4, <1>6, <1>7

\* The array of VirtualArrays.
ArrayKind ==
  [rows |-> NoOfRows, access |-> MaxAccess, heights |-> MaxMinHeights,
   contents |-> Contents, zero |-> Zero]

LEMMA ArrayKindIsAKind ==
  /\ IsKind(ArrayKind)
  /\ ArrayKind.rows = NoOfRows /\ ArrayKind.access = MaxAccess
  /\ ArrayKind.heights = MaxMinHeights
  /\ ArrayKind.contents = Contents /\ ArrayKind.zero = Zero
BY VirtualArraysAssumption DEF ArrayKind, IsKind

LEMMA FirstArrayIsZero ==
  ASSUME VirtualInit
  PROVE  Good(ArrayKind, array) /\ Plain!ArrayInit
<1> PICK memory \in Contents, store \in Contents :
      array = Realized(NoOfRows, MaxAccess, MaxMinHeights, memory, store)
  BY DEF VirtualInit
<1>1. /\ Good(ArrayKind, array)
      /\ \A r \in 0 .. NoOfRows - 1 : Row(array, r, Zero) = Zero
  BY ArrayKindIsAKind, NewArrayIsZero
<1> QED BY <1>1 DEF VirtualInit, Plain!ArrayInit, Plain!RowNos

\* Each access, granted or refused, is one of a plain array, or nothing.
LEMMA StepIsPlain ==
  ASSUME Good(ArrayKind, array), [VirtualNext]_arrayVars
  PROVE  Good(ArrayKind, array)' /\ [Plain!ArrayNext]_(Plain!ArrayVars)
<1> DEFINE old == [r \in 0 .. NoOfRows - 1 |-> Row(array, r, Zero)]
           new == [r \in 0 .. NoOfRows - 1 |-> Row(array', r, Zero)]
<1>1. NoOfRows \in Nat \ {0} /\ Zero \in Contents /\ array \in Control(ArrayKind)
  BY VirtualArraysAssumption DEF Good
<1>6. ASSUME NEW start \in 0 .. NoOfRows, NEW end \in 0 .. NoOfRows, NEW writable \in BOOLEAN,
             array.error = "none", start < end,
             Accessed(array, start, end, writable, Zero).error = "none"
      PROVE  IsAccessed(ArrayKind, array, Accessed(array, start, end, writable, Zero),
                        start, end, writable)
  <2>1. start \in 0 .. ArrayKind.rows /\ end \in 0 .. ArrayKind.rows
    BY ArrayKindIsAKind
  <2>2. IsKind(ArrayKind) /\ ArrayKind.zero = Zero
    BY ArrayKindIsAKind
  <2> QED BY <1>6, <2>1, <2>2, AccessShowsTheRows, Zenon
<1>2. ASSUME NEW start \in 0 .. NoOfRows, NEW end \in 0 .. NoOfRows,
             WriteStrip(start, end)
      PROVE  Good(ArrayKind, array)' /\ Plain!WriteRows(start, end)
  <2> DEFINE acc == Accessed(array, start, end, TRUE, Zero)
  <2>1. array.error = "none" /\ start < end /\ acc.error = "none"
    BY <1>2 DEF WriteStrip, Access
  <2>2. /\ Good(ArrayKind, acc) /\ acc.dirty /\ end <= acc.first_undef_row /\ Within(acc, start, end)
        /\ \A r \in 0 .. NoOfRows - 1 : Row(acc, r, Zero) = Row(array, r, Zero)
    BY <1>6, <2>1, ArrayKindIsAKind DEF IsAccessed
  <2>3. PICK contents \in [start .. end - 1 -> Contents] : array' = Stored(acc, contents)
    BY <1>2 DEF WriteStrip
  <2> HIDE DEF acc
  <2>4. /\ Good(ArrayKind, array')
        /\ \A r \in 0 .. NoOfRows - 1 :
             Row(array', r, Zero) = IF r \in start .. end - 1 THEN contents[r] ELSE Row(acc, r, Zero)
    <3>1. contents \in [start .. end - 1 -> ArrayKind.contents]
      BY ArrayKindIsAKind
    <3>2. start \in 0 .. ArrayKind.rows /\ end \in 0 .. ArrayKind.rows
      BY ArrayKindIsAKind
    <3>3. IsStored(ArrayKind, acc, array', contents)
      BY <2>1, <2>2, <2>3, <3>1, <3>2, ArrayKindIsAKind, StoredRowsAreTheCallers, Zenon
    <3> QED BY <3>3, ArrayKindIsAKind DEF IsStored
  <2>5. \A r \in 0 .. NoOfRows - 1 : Row(array', r, Zero) \in Contents
    <3>1. \A r \in 0 .. NoOfRows - 1 : Row(array', r, Zero) = Zero \/ Row(array', r, Zero) \in Contents
      <4>1. array' \in Control(ArrayKind) /\ MemRows(ArrayKind) \in Nat \ {0}
        BY <2>4, WindowIsLargeEnough, ArrayKindIsAKind, Zenon DEF Good
      <4>2. /\ array'.mem_buffer \in [0 .. MemRows(ArrayKind) - 1 -> Contents]
            /\ array'.b_s_info \in [0 .. NoOfRows - 1 -> Contents]
            /\ array'.rows_in_mem = MemRows(ArrayKind) /\ array'.cur_start_row \in Nat
        BY <4>1, ArrayKindIsAKind DEF Control
      <4>3. ASSUME NEW r \in 0 .. NoOfRows - 1, InWindow(array', r)
            PROVE  RowAt(array', r) \in Contents
        <5>1. r - array'.cur_start_row \in 0 .. MemRows(ArrayKind) - 1
          BY <4>1, <4>2, <4>3, <1>1 DEF InWindow
        <5> QED BY <4>2, <5>1 DEF RowAt
      <4> QED BY <4>2, <4>3 DEF Row
    <3> QED BY <3>1, <1>1
  <2>6. new \in [0 .. NoOfRows - 1 -> Contents]
    BY <2>5
  <2>7. \A r \in (0 .. NoOfRows - 1) \ (start .. end - 1) : new[r] = old[r]
    BY <2>2, <2>4
  <2>8. view' = << >>
    BY <1>2 DEF WriteStrip
  <2> QED BY <2>4, <2>6, <2>7, <2>8 DEF Plain!WriteRows, Plain!RowNos
<1>3. ASSUME NEW start \in 0 .. NoOfRows, NEW end \in 0 .. NoOfRows,
             ReadStrip(start, end)
      PROVE  Good(ArrayKind, array)' /\ Plain!ReadRows(start, end)
  <2>1. /\ array.error = "none" /\ start < end
        /\ Accessed(array, start, end, FALSE, Zero).error = "none"
        /\ array' = Accessed(array, start, end, FALSE, Zero)
        /\ view' = [r \in start .. end - 1 |-> RowAt(array', r)]
    BY <1>3 DEF ReadStrip, Access
  <2>2. /\ Good(ArrayKind, array')
        /\ \A r \in 0 .. NoOfRows - 1 : Row(array', r, Zero) = Row(array, r, Zero)
        /\ \A r \in start .. end - 1 : RowAt(array', r) = Row(array, r, Zero)
    BY <1>6, <2>1, ArrayKindIsAKind DEF IsAccessed
  <2>3. new = old
    BY <2>2
  <2>4. view' = [r \in start .. end - 1 |-> old[r]]
    <3>1. \A r \in start .. end - 1 : r \in 0 .. NoOfRows - 1
      BY <1>1
    <3> QED BY <2>1, <2>2, <3>1
  <2> QED BY <2>2, <2>3, <2>4 DEF Plain!ReadRows
<1>4. ASSUME NEW start \in 0 .. NoOfRows, NEW end \in 0 .. NoOfRows, NEW writable \in BOOLEAN,
             Refused(start, end, writable)
      PROVE  Good(ArrayKind, array)' /\ UNCHANGED Plain!ArrayVars
  <2>1. /\ array' = Accessed(array, start, end, writable, Zero)
        /\ array.error = "none" /\ array'.error # "none" /\ view' = view
    BY <1>4 DEF Refused
  <2>2. PICK error \in {"JERR_BAD_VIRTUAL_ACCESS", "JERR_VIRTUAL_BUG"} :
          array' = [array EXCEPT !.error = error]
    <3>1. start \in 0 .. ArrayKind.rows /\ end \in 0 .. ArrayKind.rows /\ start < end
      BY <1>4, ArrayKindIsAKind DEF Refused
    <3>2. Zero = ArrayKind.zero
      BY ArrayKindIsAKind
    <3>3. array'.error = "none" \/ IsRefused(array, array')
      BY <2>1, <3>1, <3>2, ArrayKindIsAKind, RefusedAccessChangesNothing, Zenon
    <3> QED BY <2>1, <3>3 DEF IsRefused
  <2>3. /\ array' \in Control(ArrayKind) /\ array'.dirty = array.dirty
        /\ array'.cur_start_row = array.cur_start_row
        /\ array'.first_undef_row = array.first_undef_row
        /\ array'.mem_buffer = array.mem_buffer /\ array'.b_s_info = array.b_s_info
        /\ array'.rows_in_mem = array.rows_in_mem /\ array'.rows_in_array = array.rows_in_array
    BY <2>2, <1>1 DEF Control, Errors
  <2>4. Good(ArrayKind, array')
    BY <2>3 DEF Good, Transferred, InWindow
  <2>5. \A r \in 0 .. NoOfRows - 1 : Row(array', r, Zero) = Row(array, r, Zero)
    BY <2>3 DEF Row, RowAt, InWindow
  <2> QED BY <2>1, <2>4, <2>5 DEF Plain!ArrayVars
<1>5. CASE UNCHANGED arrayVars
  BY <1>5 DEF arrayVars, Plain!ArrayVars
<1> QED BY <1>2, <1>3, <1>4, <1>5 DEF VirtualNext, Plain!ArrayNext

\* The inductive invariant: what the backing store lacks is in the window, and
\* marked as changed.
THEOREM WindowIsConsistent == VirtualSpec => []Good(ArrayKind, array)
<1>1. VirtualInit => Good(ArrayKind, array)
  BY FirstArrayIsZero
<1>2. Good(ArrayKind, array) /\ [VirtualNext]_arrayVars => Good(ArrayKind, array)'
  BY StepIsPlain
<1> QED BY <1>1, <1>2, PTL DEF VirtualSpec

\* However the window moves, the rows are those of a plain array
\* (access_virt_barray and access_virt_sarray, jmemmgr.c).
THEOREM VirtualArrayIsPlain == VirtualSpec => RowsComeBack
<1>1. VirtualInit => Plain!ArrayInit
  BY FirstArrayIsZero
<1>2. Good(ArrayKind, array) /\ [VirtualNext]_arrayVars => [Plain!ArrayNext]_(Plain!ArrayVars)
  BY StepIsPlain
<1> QED BY <1>1, <1>2, WindowIsConsistent, PTL DEF VirtualSpec, RowsComeBack, Plain!ArraySpec

-----------------------------------------------------------------------------
(***************************************************************************)
(* Sizes in blocks and MCUs                                                *)
(***************************************************************************)
\* Quotient and remainder: what the provers need of / and %.
LEMMA Quotients ==
  ASSUME NEW a \in Nat, NEW b \in Nat \ {0}
  PROVE  /\ a \div b \in Nat /\ a % b \in 0 .. b - 1
         /\ a = (a \div b) * b + (a % b)
OBVIOUS

\* Place b of part a, of parts of size n.
LEMMA PlaceInPart ==
  ASSUME NEW n \in Nat \ {0}, NEW a \in Nat, NEW b \in 0 .. n - 1
  PROVE  (a * n + b) \div n = a /\ (a * n + b) % n = b
OBVIOUS

\* Products, which no other leaf multiplies out.
LEMMA Products ==
  ASSUME NEW a \in Nat, NEW b \in Nat
  PROVE  a * b \in Nat /\ a * b = b * a /\ (a + 1) * b = a * b + b
OBVIOUS

LEMMA ProductsGrow ==
  ASSUME NEW a \in Nat, NEW b \in Nat, NEW c \in Nat, a <= b
  PROVE  a * c <= b * c
<1>1. (b - a) * c \in Nat /\ b * c = a * c + (b - a) * c
  OBVIOUS
<1>2. a * c \in Nat /\ b * c \in Nat
  BY Products
<1> QED BY <1>1, <1>2

\* Place b of part a is before those of all later parts.
LEMMA PartsAreInOrder ==
  ASSUME NEW n \in Nat \ {0}, NEW a \in Nat, NEW b \in 0 .. n - 1, NEW c \in Nat, a < c
  PROVE  a * n + b < c * n /\ a * n + b \in Nat
<1>1. (a + 1) * n <= c * n /\ (a + 1) * n = a * n + n /\ a * n \in Nat /\ c * n \in Nat
  BY Products, ProductsGrow
<1> QED BY <1>1

\* jdiv_round_up: as many parts as are needed.
LEMMA PartsNeeded ==
  ASSUME NEW a \in Nat \ {0}, NEW b \in Nat \ {0}
  PROVE  /\ DivRoundUp(a, b) \in Nat \ {0}
         /\ (DivRoundUp(a, b) - 1) * b < a /\ a <= DivRoundUp(a, b) * b
<1> DEFINE q == (a + b - 1) \div b
           r == (a + b - 1) % b
<1>1. q \in Nat /\ r \in 0 .. b - 1 /\ a + b - 1 = q * b + r
  <2> DEFINE n == a + b - 1
  <2>1. n \in Nat
    OBVIOUS
  <2> HIDE DEF n
  <2>2. n \div b \in Nat /\ n % b \in 0 .. b - 1 /\ n = (n \div b) * b + (n % b)
    BY <2>1, Quotients
  <2> QED BY <2>2 DEF n
<1> HIDE DEF q, r
<1>2. q # 0
  <2>1. q = 0 => q * b = 0
    BY <1>1
  <2> QED BY <1>1, <2>1
<1>3. (q - 1) * b = q * b - b /\ q * b \in Nat
  BY <1>1
<1>4. (q - 1) * b < a /\ a <= q * b
  BY <1>1, <1>3
<1> QED BY <1>1, <1>2, <1>4 DEF DivRoundUp, q

LEMMA NoOtherNumberOfParts ==
  ASSUME NEW a \in Nat \ {0}, NEW b \in Nat \ {0}, NEW q \in Nat \ {0},
         (q - 1) * b < a, a <= q * b
  PROVE  DivRoundUp(a, b) = q
<1> DEFINE p == DivRoundUp(a, b)
<1>1. p \in Nat \ {0} /\ (p - 1) * b < a /\ a <= p * b
  BY PartsNeeded
<1> HIDE DEF p
<1>2. ~(p < q)
  <2>1. p < q => p * b <= (q - 1) * b
    BY <1>1, ProductsGrow
  <2>2. p * b \in Nat /\ (q - 1) * b \in Int
    BY <1>1
  <2> QED BY <1>1, <2>1, <2>2
<1>3. ~(q < p)
  <2>1. q < p => q * b <= (p - 1) * b
    BY <1>1, ProductsGrow
  <2>2. q * b \in Nat /\ (p - 1) * b \in Int
    BY <1>1
  <2> QED BY <1>1, <2>1, <2>2
<1> QED BY <1>1, <1>2, <1>3 DEF p

\* A component with s of the blocks of an MCU in a direction has, in all MCUs that
\* are needed for size samples, s times as many.
LEMMA PartsOfParts ==
  ASSUME NEW size \in Nat \ {0}, NEW s \in Nat \ {0}, NEW samples \in Nat \ {0}
  PROVE  /\ DivRoundUp(size * s, samples) \in Nat \ {0}
         /\ DivRoundUp(DivRoundUp(size * s, samples), s) = DivRoundUp(size, samples)
<1> DEFINE t == DivRoundUp(size, samples)
           n == DivRoundUp(size * s, samples)
<1>1. t \in Nat \ {0} /\ (t - 1) * samples < size /\ size <= t * samples
  BY PartsNeeded
<1>2. size * s \in Nat \ {0}
  OBVIOUS
<1>3. n \in Nat \ {0} /\ (n - 1) * samples < size * s /\ size * s <= n * samples
  BY <1>2, PartsNeeded
<1> HIDE DEF t, n
<1>4. n <= t * s
  <2>1. size * s <= t * samples * s
    BY <1>1, ProductsGrow, Products
  <2>2. t * samples * s = t * s * samples /\ t * s \in Nat
    BY <1>1
  <2>3. ~(t * s <= n - 1)
    <3>1. t * s <= n - 1 => t * s * samples <= (n - 1) * samples
      BY <1>3, <2>2, ProductsGrow
    <3>2. t * s * samples \in Nat /\ (n - 1) * samples \in Int /\ size * s \in Nat
      BY <1>2, <1>3, <2>2
    <3> QED BY <1>3, <2>1, <2>2, <3>1, <3>2
  <2> QED BY <1>3, <2>2, <2>3
<1>5. (t - 1) * s < n
  <2>1. ((t - 1) * samples) * s < size * s
    <3>1. ((t - 1) * samples + 1) * s <= size * s
      <4>1. (t - 1) * samples + 1 \in Nat /\ (t - 1) * samples + 1 <= size
        <5>1. (t - 1) * samples \in Nat
          BY <1>1, Products
        <5> QED BY <1>1, <5>1
      <4> QED BY <4>1, ProductsGrow
    <3>2. ((t - 1) * samples + 1) * s = ((t - 1) * samples) * s + s
      BY <1>1
    <3>3. ((t - 1) * samples) * s \in Int /\ size * s \in Int
      BY <1>1
    <3> QED BY <3>1, <3>2, <3>3
  <2>2. ((t - 1) * samples) * s = ((t - 1) * s) * samples /\ (t - 1) * s \in Nat
    BY <1>1
  <2>3. ~(n <= (t - 1) * s)
    <3>1. n <= (t - 1) * s => n * samples <= ((t - 1) * s) * samples
      BY <1>3, <2>2, ProductsGrow
    <3>2. n * samples \in Nat /\ ((t - 1) * s) * samples \in Nat /\ size * s \in Nat
      BY <1>2, <1>3, <2>2, Products
    <3> QED BY <1>3, <2>1, <2>2, <3>1, <3>2
  <2> QED BY <1>3, <2>2, <2>3
<1>6. DivRoundUp(n, s) = t
  BY <1>1, <1>3, <1>4, <1>5, NoOtherNumberOfParts
<1> QED BY <1>3, <1>6 DEF n, t

\* All parts but the last are full.
LEMMA WhatIsLeft ==
  ASSUME NEW n \in Nat \ {0}, NEW size \in Nat \ {0}
  PROVE  /\ Left(n, size) \in 1 .. size
         /\ n = (DivRoundUp(n, size) - 1) * size + Left(n, size)
<1> DEFINE q == n \div size
           r == n % size
<1>1. q \in Nat /\ r \in 0 .. size - 1 /\ n = q * size + r
  BY Quotients
<1> HIDE DEF q
<1>2. CASE r = 0
  <2>1. q # 0
    <3>1. q = 0 => q * size = 0
      BY <1>1
    <3> QED BY <1>1, <1>2, <3>1
  <2>2. (q - 1) * size = q * size - size /\ q * size \in Nat
    BY <1>1
  <2>3. DivRoundUp(n, size) = q
    BY <1>1, <1>2, <2>1, <2>2, NoOtherNumberOfParts
  <2> QED BY <1>1, <1>2, <2>2, <2>3 DEF Left
<1>3. CASE r # 0
  <2>1. (q + 1) * size = q * size + size /\ q * size \in Nat /\ q + 1 - 1 = q
    BY <1>1
  <2>2. DivRoundUp(n, size) = q + 1
    BY <1>1, <1>3, <2>1, NoOtherNumberOfParts
  <2> QED BY <1>1, <1>3, <2>1, <2>2 DEF Left
<1> QED BY <1>2, <1>3

-----------------------------------------------------------------------------
(***************************************************************************)
(* Sequences of parts                                                      *)
(***************************************************************************)
\* A set of numbers has a least one.
LEMMA LeastNumber ==
  ASSUME NEW S \in SUBSET Nat, S # {}
  PROVE  \E k \in S : \A j \in S : k <= j
  <1>1. PICK k \in S : \A j \in S : <<j, k>> \notin OpToRel(<, Nat)
    BY NatLessThanWellFounded, WFMin
  <1>2. \A j \in S : ~(j < k)
    BY <1>1 DEF OpToRel
  <1> QED BY <1>2

\* Of a set of numbers one is the first at which it fails to go on.
LEMMA FirstWithout ==
  ASSUME NEW m \in Nat, NEW n \in Nat, NEW S, m \in S,
         \A i \in m .. n - 1 : i \in S => i + 1 \in S
  PROVE  \A i \in m .. n : i \in S
<1> SUFFICES ASSUME ~ \A i \in m .. n : i \in S
             PROVE  FALSE
  OBVIOUS
<1> DEFINE T == {i \in m .. n : i \notin S}
<1>1. T \in SUBSET Nat /\ T # {}
  OBVIOUS
<1> HIDE DEF T
<1>2. PICK i \in T : \A j \in T : i <= j
  BY <1>1, LeastNumber
<1> USE DEF T
<1>3. i \in m .. n /\ i \notin S /\ i # m
  OBVIOUS
<1>4. i - 1 \in m .. n - 1 /\ i - 1 + 1 = i /\ ~(i <= i - 1)
  BY <1>3
<1>5. i - 1 \in S
  BY <1>2, <1>4
<1> QED BY <1>3, <1>4, <1>5

\* Sequences by their length.
IsOfLength(s, n) == s = [i \in 1 .. n |-> s[i]]

LEMMA LengthOfASequence ==
  ASSUME NEW n \in Nat, NEW s, IsOfLength(s, n)
  PROVE  /\ Len(s) = n /\ DOMAIN s = 1 .. n
         /\ s \in Seq({s[i] : i \in 1 .. n})
<1> DEFINE S == {s[i] : i \in 1 .. n}
<1>1. s \in [1 .. n -> S]
  BY DEF IsOfLength
<1> HIDE DEF S
<1>2. s \in Seq(S) /\ Len(s) = n /\ DOMAIN s = 1 .. n
  BY <1>1
<1> QED BY <1>2 DEF S

\* The elements of a concatenation, by their places.
AreJoined(s, m, t, n, u) ==
  /\ IsOfLength(u, m + n)
  /\ \A i \in 1 .. m : u[i] = s[i]
  /\ \A i \in 1 .. n : u[m + i] = t[i]

LEMMA Joined ==
  ASSUME NEW m \in Nat, NEW s, IsOfLength(s, m),
         NEW n \in Nat, NEW t, IsOfLength(t, n)
  PROVE  AreJoined(s, m, t, n, s \o t)
<1> DEFINE S == {s[i] : i \in 1 .. m} \cup {t[i] : i \in 1 .. n}
           u == s \o t
<1>1. s \in [1 .. m -> S] /\ t \in [1 .. n -> S]
  BY DEF IsOfLength
<1> HIDE DEF S
<1>2. s \in Seq(S) /\ Len(s) = m /\ t \in Seq(S) /\ Len(t) = n
  BY <1>1
<1>3. /\ u \in Seq(S) /\ Len(u) = m + n
      /\ \A i \in 1 .. m + n : u[i] = IF i <= m THEN s[i] ELSE t[i - m]
  BY <1>2, ConcatProperties
<1> HIDE DEF u
<1>4. u = [i \in 1 .. m + n |-> u[i]]
  BY <1>3, LenProperties
<1>5. \A i \in 1 .. m : u[i] = s[i]
  BY <1>3
<1>6. \A i \in 1 .. n : u[m + i] = t[i]
  BY <1>3
<1> QED BY <1>4, <1>5, <1>6 DEF IsOfLength, AreJoined, u

\* The lengths of the first parts, together.
LEMMA LengthsBefore ==
  ASSUME NEW n \in Nat, NEW size \in [1 .. n -> Nat]
  PROVE  \E f : /\ f = [m \in 0 .. n |-> IF m = 0 THEN 0 ELSE f[m - 1] + size[m]]
                /\ f \in [0 .. n -> Nat]
<1> DEFINE Sums(f, l) == /\ f = [m \in 0 .. l |-> IF m = 0 THEN 0 ELSE f[m - 1] + size[m]]
                         /\ f \in [0 .. l -> Nat]
           S == {l \in Nat : \E f : Sums(f, l)}
<1>1. 0 \in S
  <2>1. Sums([m \in 0 .. 0 |-> 0], 0)
    OBVIOUS
  <2> QED BY <2>1
<1>2. ASSUME NEW l \in 0 .. n - 1, l \in S
      PROVE  l + 1 \in S
  <2>1. PICK f : Sums(f, l)
    BY <1>2
  <2> DEFINE g == [m \in 0 .. l + 1 |-> IF m = l + 1 THEN f[l] + size[l + 1] ELSE f[m]]
  <2>2. f[l] \in Nat /\ size[l + 1] \in Nat
    BY <2>1
  <2>3. g \in [0 .. l + 1 -> Nat]
    BY <2>1, <2>2
  <2>4. \A m \in 0 .. l : g[m] = f[m]
    OBVIOUS
  <2>5. ASSUME NEW m \in 0 .. l + 1
        PROVE  g[m] = IF m = 0 THEN 0 ELSE g[m - 1] + size[m]
    <3>1. CASE m = l + 1
      BY <3>1, <2>4
    <3>2. CASE m # l + 1
      <4>1. m \in 0 .. l /\ g[m] = f[m]
        BY <3>2
      <4>2. f[m] = IF m = 0 THEN 0 ELSE f[m - 1] + size[m]
        BY <4>1, <2>1
      <4>3. m # 0 => m - 1 \in 0 .. l
        BY <4>1
      <4> QED BY <4>1, <4>2, <4>3, <2>4
    <3> QED BY <3>1, <3>2
  <2>6. Sums(g, l + 1)
    <3> HIDE DEF g
    <3>1. g = [m \in 0 .. l + 1 |-> g[m]]
      BY <2>3
    <3> QED BY <2>3, <2>5, <3>1
  <2> HIDE DEF g, Sums
  <2>7. l + 1 \in Nat /\ \E h : Sums(h, l + 1)
    BY <2>6
  <2> QED BY <2>7
<1> HIDE DEF S
<1>3. \A l \in 0 .. n : l \in S
  BY <1>1, <1>2, FirstWithout
<1> QED BY <1>3 DEF S

\* Sequences can be put together one after the other.
LEMMA PartsCanBeJoined ==
  ASSUME NEW n \in Nat \ {0}, NEW parts
  PROVE  \E f : f = [i \in 1 .. n |-> IF i = 1 THEN parts[i] ELSE f[i - 1] \o parts[i]]
<1> DEFINE Joins(f, l) == f = [i \in 1 .. l |-> IF i = 1 THEN parts[i] ELSE f[i - 1] \o parts[i]]
           S == {l \in Nat : \E f : Joins(f, l)}
<1>1. 1 \in S
  <2>1. Joins([i \in 1 .. 1 |-> parts[1]], 1)
    OBVIOUS
  <2> QED BY <2>1
<1>2. ASSUME NEW l \in 1 .. n - 1, l \in S
      PROVE  l + 1 \in S
  <2>1. PICK f : Joins(f, l)
    BY <1>2
  <2> DEFINE g == [i \in 1 .. l + 1 |-> IF i = l + 1 THEN f[l] \o parts[l + 1] ELSE f[i]]
  <2>2. \A i \in 1 .. l : g[i] = f[i]
    OBVIOUS
  <2>3. g[l + 1] = g[l] \o parts[l + 1]
    <3>1. l + 1 \in 1 .. l + 1 /\ l \in 1 .. l
      OBVIOUS
    <3>2. g[l + 1] = f[l] \o parts[l + 1]
      BY <3>1
    <3> HIDE DEF g
    <3> QED BY <2>2, <3>1, <3>2
  <2>4. ASSUME NEW i \in 1 .. l + 1
        PROVE  g[i] = IF i = 1 THEN parts[i] ELSE g[i - 1] \o parts[i]
    <3>1. CASE i = l + 1
      <4>1. i # 1 /\ i - 1 = l
        BY <3>1
      <4> HIDE DEF g
      <4> QED BY <3>1, <4>1, <2>3
    <3>2. CASE i # l + 1
      <4>1. i \in 1 .. l /\ g[i] = f[i] /\ (i # 1 => i - 1 \in 1 .. l)
        BY <3>2
      <4>2. f[i] = IF i = 1 THEN parts[i] ELSE f[i - 1] \o parts[i]
        BY <4>1, <2>1
      <4> HIDE DEF g
      <4> QED BY <4>1, <4>2, <2>2
    <3> QED BY <3>1, <3>2
  <2>5. g = [i \in 1 .. l + 1 |-> g[i]]
    OBVIOUS
  <2>6. Joins(g, l + 1)
    <3> HIDE DEF g
    <3> QED BY <2>4, <2>5
  <2> HIDE DEF g, Joins
  <2>7. l + 1 \in Nat /\ \E h : Joins(h, l + 1)
    BY <2>6
  <2> QED BY <2>7
<1> HIDE DEF S
<1>3. n \in 1 .. n
  OBVIOUS
<1>4. \A l \in 1 .. n : l \in S
  BY <1>1, <1>2, FirstWithout
<1> QED BY <1>3, <1>4 DEF S

\* Element k of part i is where the parts before leave off, and every element
\* is one of a part.
IsPut(parts, size, before, s, n) ==
  /\ IsOfLength(s, before[n])
  /\ \A i \in 1 .. n : \A k \in 1 .. size[i] :
       before[i - 1] + k \in 1 .. before[n] /\ s[before[i - 1] + k] = parts[i][k]
  /\ \A b \in 1 .. before[n] : \E i \in 1 .. n : \E k \in 1 .. size[i] : b = before[i - 1] + k

AreBefore(before, size, n) ==
  /\ before \in [0 .. n -> Nat] /\ before[0] = 0
  /\ \A i \in 1 .. n : before[i] = before[i - 1] + size[i]

LEMMA PlacesOfParts ==
  ASSUME NEW n \in Nat \ {0}, NEW parts, IsOfLength(parts, n), NEW size \in [1 .. n -> Nat],
         \A i \in 1 .. n : IsOfLength(parts[i], size[i]),
         NEW before, AreBefore(before, size, n)
  PROVE  IsPut(parts, size, before, FlattenSeq(parts), n)
<1> DEFINE flatten == CHOOSE f : f = [i \in 1 .. n |-> IF i = 1 THEN parts[i]
                                                       ELSE f[i - 1] \o parts[i]]
<1>1. Len(parts) = n /\ n # 0
  BY LengthOfASequence
<1>2. FlattenSeq(parts) = flatten[n]
  BY <1>1 DEF FlattenSeq
<1>3. flatten = [i \in 1 .. n |-> IF i = 1 THEN parts[i] ELSE flatten[i - 1] \o parts[i]]
  BY PartsCanBeJoined
<1> HIDE DEF flatten
<1> DEFINE S == {i \in Nat : IsPut(parts, size, before, flatten[i], i)}
<1>4. 1 \in S
  <2>1. flatten[1] = parts[1] /\ before[1] = size[1] /\ size[1] \in Nat /\ before[0] = 0
        /\ IsOfLength(parts[1], size[1])
    <3>1. 1 \in 1 .. n /\ 1 - 1 = 0
      OBVIOUS
    <3>2. before[0] = 0 /\ before[1] = before[0] + size[1]
      BY <3>1 DEF AreBefore
    <3> QED BY <1>3, <3>1, <3>2
  <2>2. \A i \in 1 .. 1 : i = 1 /\ i - 1 = 0
    OBVIOUS
  <2>3. \A k \in 1 .. size[1] : before[0] + k = k
    BY <2>1
  <2>4. \A b \in 1 .. before[1] : 1 \in 1 .. 1 /\ b \in 1 .. size[1] /\ b = before[1 - 1] + b
    BY <2>1
  <2>5. IsPut(parts, size, before, flatten[1], 1)
    BY <2>1, <2>2, <2>3, <2>4 DEF IsPut
  <2> QED BY <2>5
<1>5. ASSUME NEW m \in 1 .. n - 1, m \in S
      PROVE  m + 1 \in S
  <2>1. /\ m + 1 \in 1 .. n /\ m + 1 # 1 /\ m + 1 - 1 = m /\ m \in 0 .. n
        /\ flatten[m + 1] = flatten[m] \o parts[m + 1]
    <3>1. m + 1 \in 1 .. n /\ m + 1 # 1 /\ m + 1 - 1 = m /\ m \in 0 .. n
      OBVIOUS
    <3>2. flatten[m + 1] = IF m + 1 = 1 THEN parts[m + 1] ELSE flatten[m + 1 - 1] \o parts[m + 1]
      <4> DEFINE next == m + 1
      <4>1. next \in 1 .. n
        BY <3>1
      <4> HIDE DEF next
      <4>2. flatten[next] = IF next = 1 THEN parts[next] ELSE flatten[next - 1] \o parts[next]
        BY <1>3, <4>1, Zenon
      <4> QED BY <4>2 DEF next
    <3> QED BY <3>1, <3>2, Zenon
  <2>2. /\ before[m] \in Nat /\ size[m + 1] \in Nat /\ before[m + 1] = before[m] + size[m + 1]
        /\ IsOfLength(parts[m + 1], size[m + 1])
    BY <2>1 DEF AreBefore
  <2>3. IsPut(parts, size, before, flatten[m], m)
    BY <1>5
  <2>4. /\ IsOfLength(flatten[m + 1], before[m] + size[m + 1])
        /\ \A b \in 1 .. before[m] : flatten[m + 1][b] = flatten[m][b]
        /\ \A k \in 1 .. size[m + 1] : flatten[m + 1][before[m] + k] = parts[m + 1][k]
    <3>1. IsOfLength(flatten[m], before[m])
      BY <2>3 DEF IsPut
    <3> DEFINE s == flatten[m]
               t == parts[m + 1]
               a == before[m]
               b == size[m + 1]
    <3>2. a \in Nat /\ b \in Nat /\ IsOfLength(s, a) /\ IsOfLength(t, b)
      BY <2>2, <3>1
    <3> HIDE DEF s, t, a, b
    <3>3. AreJoined(s, a, t, b, s \o t)
      BY <3>2, Joined, Zenon
    <3> USE DEF s, t, a, b
    <3> QED BY <2>1, <3>3 DEF AreJoined
  <2>5. ASSUME NEW i \in 1 .. m + 1, NEW k \in 1 .. size[i]
        PROVE  /\ before[i - 1] + k \in 1 .. before[m + 1]
               /\ flatten[m + 1][before[i - 1] + k] = parts[i][k]
    <3>1. CASE i = m + 1
      <4>1. before[i - 1] = before[m] /\ k \in 1 .. size[m + 1]
        BY <3>1, <2>1
      <4>2. before[m] + k \in 1 .. before[m + 1]
        BY <4>1, <2>2
      <4>3. flatten[m + 1][before[m] + k] = parts[m + 1][k]
        BY <4>1, <2>4
      <4> QED BY <3>1, <4>1, <4>2, <4>3
    <3>2. CASE i # m + 1
      <4>1. i \in 1 .. m
        BY <3>2
      <4>2. before[i - 1] + k \in 1 .. before[m] /\ flatten[m][before[i - 1] + k] = parts[i][k]
        BY <4>1, <2>3 DEF IsPut
      <4>3. before[i - 1] + k \in 1 .. before[m + 1]
        BY <4>2, <2>2
      <4>4. flatten[m + 1][before[i - 1] + k] = flatten[m][before[i - 1] + k]
        BY <4>2, <2>4
      <4> QED BY <4>2, <4>3, <4>4
    <3> QED BY <3>1, <3>2
  <2>6. ASSUME NEW b \in 1 .. before[m + 1]
        PROVE  \E i \in 1 .. m + 1 : \E k \in 1 .. size[i] : b = before[i - 1] + k
    <3>1. CASE b <= before[m]
      <4>1. b \in 1 .. before[m]
        BY <3>1, <2>2
      <4>2. PICK i \in 1 .. m : \E k \in 1 .. size[i] : b = before[i - 1] + k
        BY <4>1, <2>3 DEF IsPut
      <4>3. i \in 1 .. m + 1
        OBVIOUS
      <4> QED BY <4>2, <4>3
    <3>2. CASE b > before[m]
      <4>1. b - before[m] \in 1 .. size[m + 1] /\ b = before[m] + (b - before[m])
        BY <3>2, <2>2
      <4>2. m + 1 \in 1 .. m + 1
        OBVIOUS
      <4>3. m + 1 - 1 = m
        OBVIOUS
      <4> QED BY <4>1, <4>2, <4>3
    <3> QED BY <3>1, <3>2, <2>2
  <2>7. IsPut(parts, size, before, flatten[m + 1], m + 1)
    <3>1. IsOfLength(flatten[m + 1], before[m + 1])
      BY <2>2, <2>4
    <3> QED BY <2>5, <2>6, <3>1, Zenon DEF IsPut
  <2> QED BY <2>7
<1> HIDE DEF S
<1>6. \A m \in 1 .. n : m \in S
  BY <1>4, <1>5, FirstWithout
<1>7. n \in S
  BY <1>6
<1> QED BY <1>2, <1>7 DEF S

-----------------------------------------------------------------------------
(***************************************************************************)
(* The blocks of an image and of its MCUs                                  *)
(***************************************************************************)
\* There is a largest sampling factor.
LEMMA LargestFactor ==
  ASSUME NEW n \in Nat, NEW f \in [1 .. n -> Nat \ {0}]
  PROVE  Max({1} \cup {f[i] : i \in 1 .. n}) \in Nat \ {0}
<1> DEFINE Of(l) == {1} \cup {f[i] : i \in 1 .. l}
           S == {l \in Nat : \E x \in Of(l) : \A y \in Of(l) : x >= y}
<1>1. 0 \in S
  <2>1. Of(0) = {1}
    OBVIOUS
  <2> QED BY <2>1
<1>2. ASSUME NEW l \in 0 .. n - 1, l \in S
      PROVE  l + 1 \in S
  <2>1. PICK x \in Of(l) : \A y \in Of(l) : x >= y
    BY <1>2
  <2>2. Of(l + 1) = Of(l) \cup {f[l + 1]} /\ f[l + 1] \in Nat \ {0} /\ Of(l) \in SUBSET Nat
    OBVIOUS
  <2> HIDE DEF Of
  <2>3. CASE f[l + 1] >= x
    <3>1. \A y \in Of(l + 1) : f[l + 1] >= y
      BY <2>1, <2>2, <2>3
    <3>2. l + 1 \in Nat /\ f[l + 1] \in Of(l + 1)
      BY <2>2
    <3> QED BY <3>1, <3>2
  <2>4. CASE ~(f[l + 1] >= x)
    <3>1. \A y \in Of(l + 1) : x >= y
      BY <2>1, <2>2, <2>4
    <3>2. l + 1 \in Nat /\ x \in Of(l + 1)
      BY <2>1, <2>2
    <3> QED BY <3>1, <3>2
  <2> QED BY <2>3, <2>4
<1> HIDE DEF S
<1>3. n \in 0 .. n
  OBVIOUS
<1>4. n \in S
  BY <1>1, <1>2, <1>3, FirstWithout
<1>5. \E x \in Of(n) : \A y \in Of(n) : x >= y
  BY <1>4 DEF S
<1>6. Max(Of(n)) \in Of(n)
  BY <1>5, Zenon DEF Max
<1>7. Of(n) \in SUBSET (Nat \ {0})
  OBVIOUS
<1> QED BY <1>6, <1>7

Across == DivRoundUp(layout.width, MaxH * DCTSIZE)

\* initial_setup: the MCUs have room for the blocks of each component.
LEMMA SizesOfAnImage ==
  ASSUME layout \in Layouts
  PROVE  /\ Len(layout.comps) \in Nat \ {0} /\ Comps = 1 .. Len(layout.comps) /\ 1 \in Comps
         /\ Across \in Nat \ {0} /\ TotaliMCURows \in Nat \ {0}
         /\ \A ci \in Comps :
              /\ HSamp(ci) \in Nat \ {0} /\ VSamp(ci) \in Nat \ {0}
              /\ AccessRows(ci) \in Nat \ {0} /\ VSamp(ci) <= AccessRows(ci)
              /\ WidthInBlocks(ci) \in Nat \ {0} /\ HeightInBlocks(ci) \in Nat \ {0}
              /\ RoundUp(WidthInBlocks(ci), HSamp(ci)) = Across * HSamp(ci)
              /\ RoundUp(HeightInBlocks(ci), VSamp(ci)) = TotaliMCURows * VSamp(ci)
              /\ Left(WidthInBlocks(ci), HSamp(ci)) \in 1 .. HSamp(ci)
              /\ Left(HeightInBlocks(ci), VSamp(ci)) \in 1 .. VSamp(ci)
              /\ WidthInBlocks(ci) =
                   (Across - 1) * HSamp(ci) + Left(WidthInBlocks(ci), HSamp(ci))
              /\ HeightInBlocks(ci) =
                   (TotaliMCURows - 1) * VSamp(ci) + Left(HeightInBlocks(ci), VSamp(ci))
<1>1. /\ DCTSIZE \in Nat \ {0}
      /\ layout.width \in Nat \ {0} /\ layout.height \in Nat \ {0} /\ layout.progressive \in BOOLEAN
      /\ layout.comps \in Seq([h : Nat \ {0}, v : Nat \ {0}]) /\ layout.comps # << >>
  BY GeometryAssumption
<1> DEFINE n == Len(layout.comps)
<1>2. n \in Nat \ {0} /\ Comps = 1 .. n
  BY <1>1, EmptySeq, LenProperties DEF Comps
<1>3. \A ci \in Comps : HSamp(ci) \in Nat \ {0} /\ VSamp(ci) \in Nat \ {0}
  <2>1. \A ci \in 1 .. n : layout.comps[ci] \in [h : Nat \ {0}, v : Nat \ {0}]
    BY <1>1, ElementOfSeq
  <2> QED BY <1>2, <2>1 DEF HSamp, VSamp
<1> HIDE DEF n
<1>4. MaxH \in Nat \ {0}
  <2> DEFINE f == [ci \in 1 .. n |-> HSamp(ci)]
  <2>1. f \in [1 .. n -> Nat \ {0}]
    BY <1>2, <1>3
  <2>2. {layout.comps[ci].h : ci \in DOMAIN layout.comps} = {f[i] : i \in 1 .. n}
    BY <1>2 DEF Comps, HSamp
  <2> HIDE DEF f
  <2>3. Max({1} \cup {f[i] : i \in 1 .. n}) \in Nat \ {0}
    BY <1>2, <2>1, LargestFactor
  <2> QED BY <2>2, <2>3 DEF MaxH, HMax
<1>5. MaxV \in Nat \ {0}
  <2> DEFINE f == [ci \in 1 .. n |-> VSamp(ci)]
  <2>1. f \in [1 .. n -> Nat \ {0}]
    BY <1>2, <1>3
  <2>2. {layout.comps[ci].v : ci \in DOMAIN layout.comps} = {f[i] : i \in 1 .. n}
    BY <1>2 DEF Comps, VSamp
  <2> HIDE DEF f
  <2>3. Max({1} \cup {f[i] : i \in 1 .. n}) \in Nat \ {0}
    BY <1>2, <2>1, LargestFactor
  <2> QED BY <2>2, <2>3 DEF MaxV, VMax
<1>6. MaxH * DCTSIZE \in Nat \ {0} /\ MaxV * DCTSIZE \in Nat \ {0}
  BY <1>1, <1>4, <1>5
<1>7. Across \in Nat \ {0} /\ TotaliMCURows \in Nat \ {0}
  BY <1>1, <1>6, PartsNeeded DEF Across, TotaliMCURows
<1>8. ASSUME NEW ci \in Comps
      PROVE  /\ WidthInBlocks(ci) \in Nat \ {0} /\ HeightInBlocks(ci) \in Nat \ {0}
             /\ DivRoundUp(WidthInBlocks(ci), HSamp(ci)) = Across
             /\ DivRoundUp(HeightInBlocks(ci), VSamp(ci)) = TotaliMCURows
  <2>1. HSamp(ci) \in Nat \ {0} /\ VSamp(ci) \in Nat \ {0}
    BY <1>3
  <2>2. /\ WidthInBlocks(ci) \in Nat \ {0}
        /\ DivRoundUp(WidthInBlocks(ci), HSamp(ci)) = Across
    <3> DEFINE samples == MaxH * DCTSIZE
               size == layout.width
               s == HSamp(ci)
    <3>1. samples \in Nat \ {0} /\ size \in Nat \ {0} /\ s \in Nat \ {0}
      BY <1>1, <1>6, <2>1
    <3> HIDE DEF samples, size, s
    <3>2. DivRoundUp(size * s, samples) \in Nat \ {0}
      BY <3>1, PartsOfParts
    <3>3. DivRoundUp(DivRoundUp(size * s, samples), s) = DivRoundUp(size, samples)
      BY <3>1, PartsOfParts
    <3> USE DEF samples, size, s
    <3> QED BY <3>2, <3>3, Zenon DEF WidthInBlocks, Across
  <2>3. /\ HeightInBlocks(ci) \in Nat \ {0}
        /\ DivRoundUp(HeightInBlocks(ci), VSamp(ci)) = TotaliMCURows
    <3> DEFINE samples == MaxV * DCTSIZE
               size == layout.height
               s == VSamp(ci)
    <3>1. samples \in Nat \ {0} /\ size \in Nat \ {0} /\ s \in Nat \ {0}
      BY <1>1, <1>6, <2>1
    <3> HIDE DEF samples, size, s
    <3>2. DivRoundUp(size * s, samples) \in Nat \ {0}
      BY <3>1, PartsOfParts
    <3>3. DivRoundUp(DivRoundUp(size * s, samples), s) = DivRoundUp(size, samples)
      BY <3>1, PartsOfParts
    <3> USE DEF samples, size, s
    <3> QED BY <3>2, <3>3, Zenon DEF HeightInBlocks, TotaliMCURows
  <2> QED BY <2>2, <2>3
<1>9. \A ci \in Comps : AccessRows(ci) \in Nat \ {0} /\ VSamp(ci) <= AccessRows(ci)
  BY <1>3 DEF AccessRows
<1>10. 1 \in Comps
  BY <1>2
<1>11. ASSUME NEW ci \in Comps
       PROVE  /\ RoundUp(WidthInBlocks(ci), HSamp(ci)) = Across * HSamp(ci)
              /\ RoundUp(HeightInBlocks(ci), VSamp(ci)) = TotaliMCURows * VSamp(ci)
  BY <1>8, Zenon DEF RoundUp
<1>12. ASSUME NEW ci \in Comps
       PROVE  /\ Left(WidthInBlocks(ci), HSamp(ci)) \in 1 .. HSamp(ci)
              /\ WidthInBlocks(ci) =
                   (Across - 1) * HSamp(ci) + Left(WidthInBlocks(ci), HSamp(ci))
  <2>1. HSamp(ci) \in Nat \ {0} /\ WidthInBlocks(ci) \in Nat \ {0}
    BY <1>3, <1>8
  <2> QED BY <1>8, <2>1, WhatIsLeft, Zenon
<1>13. ASSUME NEW ci \in Comps
       PROVE  /\ Left(HeightInBlocks(ci), VSamp(ci)) \in 1 .. VSamp(ci)
              /\ HeightInBlocks(ci) =
                   (TotaliMCURows - 1) * VSamp(ci) + Left(HeightInBlocks(ci), VSamp(ci))
  <2>1. VSamp(ci) \in Nat \ {0} /\ HeightInBlocks(ci) \in Nat \ {0}
    BY <1>3, <1>8
  <2> QED BY <1>8, <2>1, WhatIsLeft, Zenon
<1> QED BY <1>2, <1>3, <1>7, <1>8, <1>9, <1>10, <1>11, <1>12, <1>13, Zenon DEF n

-----------------------------------------------------------------------------
\* A scan is of all components or of one.
IsScan(cis) == cis = AllComps \/ \E ci \in Comps : cis = <<ci>>
MCURowsOf(cis) == IF Interleaved(cis) THEN TotaliMCURows ELSE HeightInBlocks(cis[1])

\* per_scan_setup
LEMMA SizesOfAScan ==
  ASSUME layout \in Layouts, NEW cis, IsScan(cis)
  PROVE  /\ Len(cis) \in Nat \ {0} /\ IsOfLength(cis, Len(cis)) /\ DOMAIN cis = 1 .. Len(cis)
         /\ \A i \in DOMAIN cis : cis[i] \in Comps
         /\ \A i, j \in DOMAIN cis : cis[i] = cis[j] => i = j
         /\ MCUsPerRow(cis) \in Nat \ {0} /\ MCURowsOf(cis) \in Nat \ {0}
         /\ \A ci \in Comps :
              MCUWidth(cis, ci) \in Nat \ {0} /\ MCUHeight(cis, ci) \in Nat \ {0}
         /\ Interleaved(cis) =>
              /\ MCUsPerRow(cis) = Across /\ MCURowsOf(cis) = TotaliMCURows
              /\ \A ci \in Comps : MCUWidth(cis, ci) = HSamp(ci) /\ MCUHeight(cis, ci) = VSamp(ci)
         /\ ~Interleaved(cis) =>
              /\ DOMAIN cis = {1}
              /\ MCUsPerRow(cis) = WidthInBlocks(cis[1]) /\ MCURowsOf(cis) = HeightInBlocks(cis[1])
              /\ \A ci \in Comps : MCUWidth(cis, ci) = 1 /\ MCUHeight(cis, ci) = 1
<1>1. /\ Len(cis) \in Nat \ {0} /\ IsOfLength(cis, Len(cis))
      /\ \A i \in 1 .. Len(cis) : cis[i] \in Comps
      /\ \A i, j \in 1 .. Len(cis) : cis[i] = cis[j] => i = j
  <2>1. CASE cis = AllComps
    <3>1. Len(layout.comps) \in Nat \ {0} /\ Comps = 1 .. Len(layout.comps)
      BY SizesOfAnImage
    <3>2. IsOfLength(cis, Len(layout.comps)) /\ \A i \in 1 .. Len(layout.comps) : cis[i] = i
      BY <2>1, <3>1 DEF AllComps, IsOfLength
    <3>3. Len(cis) = Len(layout.comps)
      BY <3>1, <3>2, LengthOfASequence
    <3> QED BY <3>1, <3>2, <3>3
  <2>2. ASSUME NEW ci \in Comps, cis = <<ci>>
        PROVE  /\ Len(cis) = 1 /\ IsOfLength(cis, 1) /\ cis[1] = ci
    <3>1. <<ci>> = [i \in 1 .. 1 |-> ci]
      OBVIOUS
    <3>2. IsOfLength(cis, 1) /\ cis[1] = ci
      BY <2>2, <3>1 DEF IsOfLength
    <3> QED BY <3>2, LengthOfASequence
  <2>3. ASSUME NEW ci \in Comps, cis = <<ci>>
        PROVE  /\ Len(cis) \in Nat \ {0} /\ IsOfLength(cis, Len(cis))
               /\ \A i \in 1 .. Len(cis) : cis[i] \in Comps
               /\ \A i, j \in 1 .. Len(cis) : cis[i] = cis[j] => i = j
    <3>1. Len(cis) = 1 /\ IsOfLength(cis, 1) /\ cis[1] = ci
      BY <2>2, <2>3
    <3>2. \A i \in 1 .. 1 : i = 1
      OBVIOUS
    <3> QED BY <3>1, <3>2
  <2> QED BY <2>1, <2>3, Zenon DEF IsScan
<1>2. DOMAIN cis = 1 .. Len(cis) /\ 1 \in DOMAIN cis
  BY <1>1, LengthOfASequence
<1>3. cis[1] \in Comps
  BY <1>1, <1>2
<1>4. ~Interleaved(cis) => Len(cis) = 1
  BY <1>1 DEF Interleaved
<1>5. ~Interleaved(cis) => DOMAIN cis = {1}
  BY <1>2, <1>4
<1>6. CASE Interleaved(cis)
  <2>1. /\ MCUsPerRow(cis) = Across /\ MCURowsOf(cis) = TotaliMCURows
        /\ \A ci \in Comps : MCUWidth(cis, ci) = HSamp(ci) /\ MCUHeight(cis, ci) = VSamp(ci)
    BY <1>6 DEF MCUsPerRow, MCURowsOf, MCUWidth, MCUHeight, Across
  <2>2. /\ Across \in Nat \ {0} /\ TotaliMCURows \in Nat \ {0}
        /\ \A ci \in Comps : HSamp(ci) \in Nat \ {0} /\ VSamp(ci) \in Nat \ {0}
    BY SizesOfAnImage
  <2>3. /\ MCUsPerRow(cis) \in Nat \ {0} /\ MCURowsOf(cis) \in Nat \ {0}
        /\ \A ci \in Comps :
             MCUWidth(cis, ci) \in Nat \ {0} /\ MCUHeight(cis, ci) \in Nat \ {0}
    BY <2>1, <2>2, Zenon
  <2> QED BY <1>1, <1>2, <1>6, <2>1, <2>3, Zenon
<1>7. CASE ~Interleaved(cis)
  <2>1. /\ MCUsPerRow(cis) = WidthInBlocks(cis[1]) /\ MCURowsOf(cis) = HeightInBlocks(cis[1])
        /\ \A ci \in Comps : MCUWidth(cis, ci) = 1 /\ MCUHeight(cis, ci) = 1
    BY <1>7 DEF MCUsPerRow, MCURowsOf, MCUWidth, MCUHeight
  <2>2. WidthInBlocks(cis[1]) \in Nat \ {0} /\ HeightInBlocks(cis[1]) \in Nat \ {0}
    BY <1>3, SizesOfAnImage
  <2>3. 1 \in Nat \ {0}
    OBVIOUS
  <2>4. /\ MCUsPerRow(cis) \in Nat \ {0} /\ MCURowsOf(cis) \in Nat \ {0}
        /\ \A ci \in Comps :
             MCUWidth(cis, ci) \in Nat \ {0} /\ MCUHeight(cis, ci) \in Nat \ {0}
    BY <2>1, <2>2, <2>3, Zenon
  <2> QED BY <1>1, <1>2, <1>5, <1>7, <2>1, <2>4, Zenon
<1> QED BY <1>6, <1>7

\* Where block k of a component's part of MCU m is in the component: MCUs of w * h
\* of its blocks, per of them in a row.
RowIn(per, w, h, m, k) == ((m - 1) \div per) * h + (k - 1) \div w
ColIn(per, w, h, m, k) == ((m - 1) % per) * w + ((k - 1) % w)

LEMMA BlockOfAnMCU ==
  ASSUME NEW per \in Nat \ {0}, NEW rows \in Nat \ {0}, NEW w \in Nat \ {0}, NEW h \in Nat \ {0},
         NEW m \in 1 .. per * rows, NEW k \in 1 .. w * h
  PROVE  /\ RowIn(per, w, h, m, k) \in 0 .. rows * h - 1
         /\ ColIn(per, w, h, m, k) \in 0 .. per * w - 1
         /\ (k - 1) \div w \in 0 .. h - 1 /\ (k - 1) % w \in 0 .. w - 1
         /\ (m - 1) \div per \in 0 .. rows - 1 /\ (m - 1) % per \in 0 .. per - 1
<1> DEFINE a == (m - 1) \div per
           b == (m - 1) % per
           c == (k - 1) \div w
           d == (k - 1) % w
<1>1. m - 1 \in Nat /\ k - 1 \in Nat /\ per * rows = rows * per /\ w * h = h * w
      /\ per * rows \in Nat /\ w * h \in Nat
  BY Products
<1>2. a \in Nat /\ b \in 0 .. per - 1 /\ m - 1 = a * per + b
  <2> DEFINE n == m - 1
  <2> HIDE DEF n
  <2>1. n \in Nat => n \div per \in Nat /\ n % per \in 0 .. per - 1 /\ n = (n \div per) * per + (n % per)
    BY Quotients
  <2> USE DEF n
  <2> QED BY <1>1, <2>1
<1>3. c \in Nat /\ d \in 0 .. w - 1 /\ k - 1 = c * w + d
  <2> DEFINE n == k - 1
  <2> HIDE DEF n
  <2>1. n \in Nat => n \div w \in Nat /\ n % w \in 0 .. w - 1 /\ n = (n \div w) * w + (n % w)
    BY Quotients
  <2> USE DEF n
  <2> QED BY <1>1, <2>1
<1> HIDE DEF a, b, c, d
<1>4. a < rows
  <2>1. ~(a < rows) => rows * per <= a * per
    BY <1>2, ProductsGrow
  <2>2. a * per \in Nat
    BY <1>2, Products
  <2> QED BY <1>1, <1>2, <2>1, <2>2
<1>5. c < h
  <2>1. ~(c < h) => h * w <= c * w
    BY <1>3, ProductsGrow
  <2>2. c * w \in Nat
    BY <1>3, Products
  <2> QED BY <1>1, <1>3, <2>1, <2>2
<1>6. a * h + c < rows * h /\ a * h + c \in Nat /\ rows * h \in Nat
  <2>1. c \in 0 .. h - 1
    BY <1>3, <1>5
  <2> QED BY <1>2, <1>4, <2>1, PartsAreInOrder, Products
<1>7. b * w + d < per * w /\ b * w + d \in Nat /\ per * w \in Nat
  BY <1>2, <1>3, PartsAreInOrder, Products
<1>8. RowIn(per, w, h, m, k) = a * h + c /\ ColIn(per, w, h, m, k) = b * w + d
  BY DEF RowIn, ColIn, a, b, c, d
<1>9. a * h + c \in 0 .. rows * h - 1 /\ b * w + d \in 0 .. per * w - 1
  BY <1>6, <1>7
<1>10. c \in 0 .. h - 1 /\ d \in 0 .. w - 1 /\ a \in 0 .. rows - 1 /\ b \in 0 .. per - 1
  BY <1>2, <1>3, <1>4, <1>5
<1> QED BY <1>8, <1>9, <1>10 DEF a, b, c, d

\* The other way about.
IsPlaced(per, rows, w, h, row, col, m, k) ==
  /\ m \in 1 .. per * rows /\ k \in 1 .. w * h
  /\ row \div h \in 0 .. rows - 1 /\ col \div w \in 0 .. per - 1
  /\ RowIn(per, w, h, m, k) = row /\ ColIn(per, w, h, m, k) = col

LEMMA PlaceOfABlock ==
  ASSUME NEW per \in Nat \ {0}, NEW rows \in Nat \ {0}, NEW w \in Nat \ {0}, NEW h \in Nat \ {0},
         NEW row \in 0 .. rows * h - 1, NEW col \in 0 .. per * w - 1,
         NEW m, m = (row \div h) * per + (col \div w) + 1,
         NEW k, k = PlaceInMCU(w, h, row, col)
  PROVE  IsPlaced(per, rows, w, h, row, col, m, k)
<1> DEFINE a == row \div h
           b == col \div w
           c == row % h
           d == col % w
<1>1. /\ rows * h \in Nat /\ per * w \in Nat /\ row \in Nat /\ col \in Nat
      /\ per * rows = rows * per /\ w * h = h * w /\ rows * per \in Nat /\ h * w \in Nat
  BY Products
<1>2. a \in Nat /\ c \in 0 .. h - 1 /\ row = a * h + c
  BY <1>1, Quotients
<1>3. b \in Nat /\ d \in 0 .. w - 1 /\ col = b * w + d
  BY <1>1, Quotients
<1>4. k = c * w + d + 1 /\ m = a * per + b + 1
  BY DEF PlaceInMCU
<1> HIDE DEF a, b, c, d
<1>5. a < rows
  <2>1. ~(a < rows) => rows * h <= a * h
    BY <1>2, ProductsGrow
  <2>2. a * h \in Nat
    BY <1>2, Products
  <2> QED BY <1>1, <1>2, <2>1, <2>2
<1>6. b < per
  <2>1. ~(b < per) => per * w <= b * w
    BY <1>3, ProductsGrow
  <2>2. b * w \in Nat
    BY <1>3, Products
  <2> QED BY <1>1, <1>3, <2>1, <2>2
<1>7. b \in 0 .. per - 1 /\ a \in 0 .. rows - 1 /\ c < h
  BY <1>2, <1>3, <1>5, <1>6
<1>8. a * per + b < rows * per /\ a * per + b \in Nat
  BY <1>2, <1>5, <1>7, PartsAreInOrder
<1>9. c * w + d < h * w /\ c * w + d \in Nat
  BY <1>2, <1>3, <1>7, PartsAreInOrder
<1>10. m \in 1 .. per * rows /\ k \in 1 .. w * h /\ m - 1 = a * per + b /\ k - 1 = c * w + d
  BY <1>1, <1>4, <1>8, <1>9
<1>11. (m - 1) \div per = a /\ (m - 1) % per = b
  <2>1. (a * per + b) \div per = a /\ (a * per + b) % per = b
    BY <1>2, <1>7, PlaceInPart
  <2> QED BY <1>10, <2>1, Zenon
<1>12. (k - 1) \div w = c /\ (k - 1) % w = d
  <2>1. (c * w + d) \div w = c /\ (c * w + d) % w = d
    <3>1. c \in Nat /\ d \in 0 .. w - 1
      BY <1>2, <1>3
    <3> QED BY <3>1, PlaceInPart, Zenon
  <2> QED BY <1>10, <2>1, Zenon
<1>13. RowIn(per, w, h, m, k) = row /\ ColIn(per, w, h, m, k) = col
  BY <1>2, <1>3, <1>11, <1>12 DEF RowIn, ColIn
<1> QED BY <1>7, <1>10, <1>13 DEF IsPlaced, a, b

-----------------------------------------------------------------------------
BlocksIn(cis, ci) == MCUWidth(cis, ci) * MCUHeight(cis, ci)
BlocksInMCU(cis) == BlocksBefore(cis, Len(cis) + 1)

\* Blocks of the components of a scan, in MCU s.
IsAssembled(cis, parts, s) ==
  /\ IsOfLength(s, BlocksInMCU(cis))
  /\ \A i \in DOMAIN cis : \A k \in 1 .. BlocksIn(cis, cis[i]) :
       BlocksBefore(cis, i) + k \in 1 .. BlocksInMCU(cis)
         /\ s[BlocksBefore(cis, i) + k] = parts[i][k]
  /\ \A b \in 1 .. BlocksInMCU(cis) :
       \E i \in DOMAIN cis : \E k \in 1 .. BlocksIn(cis, cis[i]) : b = BlocksBefore(cis, i) + k

LEMMA BlocksAreCounted ==
  ASSUME layout \in Layouts, NEW cis, IsScan(cis)
  PROVE  \E before :
           /\ AreBefore(before, [i \in 1 .. Len(cis) |-> BlocksIn(cis, cis[i])], Len(cis))
           /\ \A i \in 1 .. Len(cis) + 1 : BlocksBefore(cis, i) = before[i - 1]
<1> DEFINE n == Len(cis)
           size == [i \in 1 .. n |-> BlocksIn(cis, cis[i])]
           sum == CHOOSE f : f = [m \in 0 .. n |->
                    IF m = 0 THEN 0
                    ELSE f[m - 1] + MCUWidth(cis, cis[m]) * MCUHeight(cis, cis[m])]
<1>1. n \in Nat \ {0} /\ DOMAIN cis = 1 .. n
  BY SizesOfAScan
<1>2. size \in [1 .. n -> Nat]
  <2>1. ASSUME NEW i \in 1 .. n
        PROVE  BlocksIn(cis, cis[i]) \in Nat
    <3>1. MCUWidth(cis, cis[i]) \in Nat /\ MCUHeight(cis, cis[i]) \in Nat
      BY <1>1, SizesOfAScan
    <3> QED BY <3>1, Products DEF BlocksIn
  <2> QED BY <2>1
<1>3. PICK f : f = [m \in 0 .. n |-> IF m = 0 THEN 0 ELSE f[m - 1] + size[m]]
               /\ f \in [0 .. n -> Nat]
  <2> HIDE DEF size, n
  <2> QED BY <1>1, <1>2, LengthsBefore
<1>4. ASSUME NEW g
      PROVE  [m \in 0 .. n |-> IF m = 0 THEN 0 ELSE g[m - 1] + size[m]]
               = [m \in 0 .. n |->
                    IF m = 0 THEN 0
                    ELSE g[m - 1] + MCUWidth(cis, cis[m]) * MCUHeight(cis, cis[m])]
  <2> HIDE DEF n
  <2>1. \A m \in 0 .. n : m # 0 => size[m] = MCUWidth(cis, cis[m]) * MCUHeight(cis, cis[m])
    BY <1>1 DEF BlocksIn
  <2> HIDE DEF size
  <2> QED BY <2>1, Zenon
<1>5. sum = [m \in 0 .. n |-> IF m = 0 THEN 0 ELSE sum[m - 1] + size[m]]
  <2>1. f = [m \in 0 .. n |->
                    IF m = 0 THEN 0
                    ELSE f[m - 1] + MCUWidth(cis, cis[m]) * MCUHeight(cis, cis[m])]
    <3> HIDE DEF n, size
    <3>1. [m \in 0 .. n |-> IF m = 0 THEN 0 ELSE f[m - 1] + size[m]]
            = [m \in 0 .. n |->
                 IF m = 0 THEN 0
                 ELSE f[m - 1] + MCUWidth(cis, cis[m]) * MCUHeight(cis, cis[m])]
      BY <1>4, Zenon
    <3> QED BY <1>3, <3>1, Zenon
  <2>2. sum = [m \in 0 .. n |->
                    IF m = 0 THEN 0
                    ELSE sum[m - 1] + MCUWidth(cis, cis[m]) * MCUHeight(cis, cis[m])]
    <3> HIDE DEF n, size
    <3> QED BY <2>1, Zenon
  <2> HIDE DEF n, size, sum
  <2> QED BY <2>2, <1>4, Zenon
<1>6. \A i \in 1 .. n + 1 : BlocksBefore(cis, i) = sum[i - 1]
  BY Zenon DEF BlocksBefore
<1> HIDE DEF n, size, sum
<1>7. sum[0] = 0 /\ \A m \in 1 .. n : sum[m] = sum[m - 1] + size[m]
  <2>1. 0 \in 0 .. n /\ \A m \in 1 .. n : m \in 0 .. n /\ m # 0
    BY <1>1
  <2>2. \A m \in 0 .. n : sum[m] = IF m = 0 THEN 0 ELSE sum[m - 1] + size[m]
    BY <1>5, Zenon
  <2> QED BY <2>1, <2>2, Zenon
<1>8. sum \in [0 .. n -> Nat]
  <2> DEFINE S == {m \in Nat : sum[m] \in Nat}
  <2>1. 0 \in S
    BY <1>7
  <2>2. ASSUME NEW m \in 0 .. n - 1, m \in S
        PROVE  m + 1 \in S
    <3>1. m + 1 \in 1 .. n /\ m + 1 - 1 = m /\ size[m + 1] \in Nat
      BY <1>1, <1>2
    <3>2. sum[m + 1] = sum[m] + size[m + 1]
      BY <1>7, <3>1
    <3> QED BY <2>2, <3>1, <3>2
  <2> HIDE DEF S
  <2>3. \A m \in 0 .. n : m \in S
    BY <1>1, <2>1, <2>2, FirstWithout
  <2>4. \A m \in 0 .. n : sum[m] \in Nat
    BY <2>3 DEF S
  <2>5. sum = [m \in 0 .. n |-> sum[m]]
    BY <1>5
  <2> QED BY <2>4, <2>5
<1>9. AreBefore(sum, size, n)
  BY <1>7, <1>8 DEF AreBefore
<1> QED BY <1>6, <1>9, Zenon DEF n, size

LEMMA BlocksAreAssembled ==
  ASSUME layout \in Layouts, NEW cis, IsScan(cis), NEW parts, IsOfLength(parts, Len(cis)),
         \A i \in DOMAIN cis : IsOfLength(parts[i], BlocksIn(cis, cis[i]))
  PROVE  IsAssembled(cis, parts, FlattenSeq(parts))
<1> DEFINE n == Len(cis)
           size == [i \in 1 .. n |-> BlocksIn(cis, cis[i])]
<1>1. n \in Nat \ {0} /\ DOMAIN cis = 1 .. n
  BY SizesOfAScan
<1>2. PICK before :
           /\ AreBefore(before, size, n)
           /\ \A i \in 1 .. n + 1 : BlocksBefore(cis, i) = before[i - 1]
  BY BlocksAreCounted
<1>3. \A i \in 1 .. n : size[i] = BlocksIn(cis, cis[i])
  OBVIOUS
<1>4. size \in [1 .. n -> Nat]
  <2>1. ASSUME NEW i \in 1 .. n
        PROVE  BlocksIn(cis, cis[i]) \in Nat
    <3>1. MCUWidth(cis, cis[i]) \in Nat /\ MCUHeight(cis, cis[i]) \in Nat
      BY <1>1, SizesOfAScan
    <3> QED BY <3>1, Products DEF BlocksIn
  <2> QED BY <2>1
<1>5. \A i \in 1 .. n : IsOfLength(parts[i], size[i])
  BY <1>1, <1>3, Zenon
<1>6. IsOfLength(parts, n)
  OBVIOUS
<1>7. BlocksInMCU(cis) = before[n] /\ \A i \in 1 .. n : BlocksBefore(cis, i) = before[i - 1]
  <2> HIDE DEF n
  <2>1. \A i \in 1 .. n : i \in 1 .. n + 1
    BY <1>1
  <2>2. BlocksBefore(cis, n + 1) = before[n]
    <3> DEFINE next == n + 1
    <3>1. next \in 1 .. n + 1 /\ next - 1 = n
      BY <1>1
    <3> HIDE DEF next
    <3>2. BlocksBefore(cis, next) = before[next - 1]
      BY <1>2, <3>1, Zenon
    <3> QED BY <3>1, <3>2, Zenon DEF next
  <2>3. \A i \in 1 .. n : BlocksBefore(cis, i) = before[i - 1]
    BY <1>2, <2>1
  <2> QED BY <2>2, <2>3 DEF BlocksInMCU, n
<1> HIDE DEF n, size
<1>8. IsPut(parts, size, before, FlattenSeq(parts), n)
  BY <1>1, <1>2, <1>4, <1>5, <1>6, PlacesOfParts
<1> DEFINE s == FlattenSeq(parts)
<1> HIDE DEF s
<1>9. IsPut(parts, size, before, s, n)
  BY <1>8 DEF s
<1>10. IsOfLength(s, BlocksInMCU(cis))
  BY <1>7, <1>9 DEF IsPut
<1>11. ASSUME NEW i \in DOMAIN cis, NEW k \in 1 .. BlocksIn(cis, cis[i])
       PROVE  /\ BlocksBefore(cis, i) + k \in 1 .. BlocksInMCU(cis)
              /\ s[BlocksBefore(cis, i) + k] = parts[i][k]
  <2>1. i \in 1 .. n /\ k \in 1 .. size[i]
    BY <1>1, <1>3
  <2>2. before[i - 1] + k \in 1 .. before[n] /\ s[before[i - 1] + k] = parts[i][k]
    BY <1>9, <2>1, Zenon DEF IsPut
  <2> QED BY <1>7, <2>1, <2>2, Zenon
<1>12. ASSUME NEW b \in 1 .. BlocksInMCU(cis)
       PROVE  \E i \in DOMAIN cis : \E k \in 1 .. BlocksIn(cis, cis[i]) : b = BlocksBefore(cis, i) + k
  <2>1. PICK i \in 1 .. n : \E k \in 1 .. size[i] : b = before[i - 1] + k
    BY <1>7, <1>9, Zenon DEF IsPut
  <2>2. PICK k \in 1 .. size[i] : b = before[i - 1] + k
    BY <2>1
  <2> QED BY <1>1, <1>3, <1>7, <2>2, Zenon
<1>13. IsAssembled(cis, parts, s)
  BY <1>10, <1>11, <1>12, Zenon DEF IsAssembled
<1> QED BY <1>13 DEF s

-----------------------------------------------------------------------------
(***************************************************************************)
(* What the arrays, the files and the collection hold                      *)
(***************************************************************************)
Coefficients == (Nat \X Nat \X Nat) \cup {0, "padding", "wet"}
AnyBlock == [dc : Coefficients, ac : Coefficients]

\* A block of the cover or, with the message in it, of the stego image.
TheBlock(embedded, ci, row, col) == IF embedded THEN WetBlock(ci, row, col) ELSE ABlock(ci, row, col)
IsInImage(ci, row, col) == row < HeightInBlocks(ci) /\ col < WidthInBlocks(ci)
HoldsBlock(block, embedded, ci, row, col) ==
  block \in AnyBlock /\ (IsInImage(ci, row, col) => block = TheBlock(embedded, ci, row, col))

LEMMA BlocksAreBlocks ==
  /\ NoBlock \in AnyBlock /\ Padding \in AnyBlock
  /\ \A ci, row, col \in Nat : ABlock(ci, row, col) \in AnyBlock /\ WetBlock(ci, row, col) \in AnyBlock
BY DEF NoBlock, Padding, ABlock, WetBlock, AnyBlock, Coefficients

LEMMA TheBlockIsABlock ==
  ASSUME NEW embedded \in BOOLEAN, NEW ci \in Nat, NEW row \in Nat, NEW col \in Nat
  PROVE  TheBlock(embedded, ci, row, col) \in AnyBlock
BY BlocksAreBlocks DEF TheBlock

\* Block k of component ci in MCU m of a scan.
MCURow(cis, ci, m, k) == RowIn(MCUsPerRow(cis), MCUWidth(cis, ci), MCUHeight(cis, ci), m, k)
MCUCol(cis, ci, m, k) == ColIn(MCUsPerRow(cis), MCUWidth(cis, ci), MCUHeight(cis, ci), m, k)
MCUsOf(cis) == MCUsPerRow(cis) * MCURowsOf(cis)
RowsOf(ci) == RoundUp(HeightInBlocks(ci), VSamp(ci))
ColsOf(ci) == RoundUp(WidthInBlocks(ci), HSamp(ci))

HoldsMCU(cis, m, blocks, embedded) ==
  /\ IsOfLength(blocks, BlocksInMCU(cis))
  /\ \A i \in DOMAIN cis : \A k \in 1 .. BlocksIn(cis, cis[i]) :
       /\ BlocksBefore(cis, i) + k \in 1 .. BlocksInMCU(cis)
       /\ HoldsBlock(blocks[BlocksBefore(cis, i) + k], embedded, cis[i],
                     MCURow(cis, cis[i], m, k), MCUCol(cis, cis[i], m, k))

\* The MCUs of the standard, part by part.
StandardBlock(embedded, ci, row, col) ==
  IF IsInImage(ci, row, col) THEN TheBlock(embedded, ci, row, col) ELSE Padding
StandardPart(cis, embedded, ci, m) ==
  [k \in 1 .. BlocksIn(cis, ci) |->
    StandardBlock(embedded, ci, MCURow(cis, ci, m, k), MCUCol(cis, ci, m, k))]
StandardParts(cis, embedded, m) == [i \in DOMAIN cis |-> StandardPart(cis, embedded, cis[i], m)]
StandardMCUs(cis, embedded) == [m \in 1 .. MCUsOf(cis) |-> FlattenSeq(StandardParts(cis, embedded, m))]

LEMMA ScanMCUsAreStandard ==
  ASSUME NEW cis
  PROVE  /\ ScanMCUs(cis, ABlock, Padding) = StandardMCUs(cis, FALSE)
         /\ ScanMCUs(cis, WetBlock, Padding) = StandardMCUs(cis, TRUE)
<1>1. /\ \A ci, row, col : TheBlock(FALSE, ci, row, col) = ABlock(ci, row, col)
      /\ \A ci, row, col : TheBlock(TRUE, ci, row, col) = WetBlock(ci, row, col)
  BY DEF TheBlock
<1>2. ASSUME NEW ci, NEW m
      PROVE  StandardPart(cis, FALSE, ci, m) =
               [b \in 1 .. MCUWidth(cis, ci) * MCUHeight(cis, ci) |->
                 IF /\ ((m - 1) \div MCUsPerRow(cis)) * MCUHeight(cis, ci) + (b - 1) \div MCUWidth(cis, ci) < HeightInBlocks(ci)
                    /\ ((m - 1) % MCUsPerRow(cis)) * MCUWidth(cis, ci) + ((b - 1) % MCUWidth(cis, ci)) < WidthInBlocks(ci)
                 THEN ABlock(ci, ((m - 1) \div MCUsPerRow(cis)) * MCUHeight(cis, ci) + (b - 1) \div MCUWidth(cis, ci),
                        ((m - 1) % MCUsPerRow(cis)) * MCUWidth(cis, ci) + ((b - 1) % MCUWidth(cis, ci)))
                 ELSE Padding]
  BY <1>1, Zenon DEF StandardPart, StandardBlock, MCURow, MCUCol, RowIn, ColIn, BlocksIn, IsInImage
<1>3. ASSUME NEW ci, NEW m
      PROVE  StandardPart(cis, TRUE, ci, m) =
               [b \in 1 .. MCUWidth(cis, ci) * MCUHeight(cis, ci) |->
                 IF /\ ((m - 1) \div MCUsPerRow(cis)) * MCUHeight(cis, ci) + (b - 1) \div MCUWidth(cis, ci) < HeightInBlocks(ci)
                    /\ ((m - 1) % MCUsPerRow(cis)) * MCUWidth(cis, ci) + ((b - 1) % MCUWidth(cis, ci)) < WidthInBlocks(ci)
                 THEN WetBlock(ci, ((m - 1) \div MCUsPerRow(cis)) * MCUHeight(cis, ci) + (b - 1) \div MCUWidth(cis, ci),
                        ((m - 1) % MCUsPerRow(cis)) * MCUWidth(cis, ci) + ((b - 1) % MCUWidth(cis, ci)))
                 ELSE Padding]
  BY <1>1, Zenon DEF StandardPart, StandardBlock, MCURow, MCUCol, RowIn, ColIn, BlocksIn, IsInImage
<1>4. ScanMCUs(cis, ABlock, Padding) = StandardMCUs(cis, FALSE)
  BY <1>2, Zenon DEF ScanMCUs, StandardMCUs, StandardParts, MCUsOf, MCURowsOf
<1>5. ScanMCUs(cis, WetBlock, Padding) = StandardMCUs(cis, TRUE)
  BY <1>3, Zenon DEF ScanMCUs, StandardMCUs, StandardParts, MCUsOf, MCURowsOf
<1> QED BY <1>4, <1>5

-----------------------------------------------------------------------------
\* The parts of an MCU, put together, are the MCU.
HoldsParts(cis, m, parts, embedded) ==
  /\ IsOfLength(parts, Len(cis))
  /\ \A i \in DOMAIN cis :
       /\ IsOfLength(parts[i], BlocksIn(cis, cis[i]))
       /\ \A k \in 1 .. BlocksIn(cis, cis[i]) :
            HoldsBlock(parts[i][k], embedded, cis[i], MCURow(cis, cis[i], m, k), MCUCol(cis, cis[i], m, k))

LEMMA AssembledMCUHolds ==
  ASSUME layout \in Layouts, NEW cis, IsScan(cis), NEW m, NEW embedded, NEW parts,
         HoldsParts(cis, m, parts, embedded)
  PROVE  HoldsMCU(cis, m, FlattenSeq(parts), embedded)
<1>1. IsAssembled(cis, parts, FlattenSeq(parts))
  BY BlocksAreAssembled, Zenon DEF HoldsParts
<1> DEFINE s == FlattenSeq(parts)
<1> HIDE DEF s
<1>2. IsAssembled(cis, parts, s)
  BY <1>1 DEF s
<1>3. IsOfLength(s, BlocksInMCU(cis))
  BY <1>2, Zenon DEF IsAssembled
<1>4. ASSUME NEW i \in DOMAIN cis, NEW k \in 1 .. BlocksIn(cis, cis[i])
      PROVE  /\ BlocksBefore(cis, i) + k \in 1 .. BlocksInMCU(cis)
             /\ HoldsBlock(s[BlocksBefore(cis, i) + k], embedded, cis[i],
                           MCURow(cis, cis[i], m, k), MCUCol(cis, cis[i], m, k))
  <2>1. /\ BlocksBefore(cis, i) + k \in 1 .. BlocksInMCU(cis)
        /\ s[BlocksBefore(cis, i) + k] = parts[i][k]
    BY <1>2, Zenon DEF IsAssembled
  <2>2. HoldsBlock(parts[i][k], embedded, cis[i], MCURow(cis, cis[i], m, k), MCUCol(cis, cis[i], m, k))
    BY Zenon DEF HoldsParts
  <2> QED BY <2>1, <2>2, Zenon
<1>5. HoldsMCU(cis, m, s, embedded)
  BY <1>3, <1>4, Zenon DEF HoldsMCU
<1> QED BY <1>5 DEF s

\* Where the blocks of an MCU are.
LEMMA BlockOfAScan ==
  ASSUME layout \in Layouts, NEW cis, IsScan(cis), NEW m \in 1 .. MCUsOf(cis),
         NEW i \in DOMAIN cis, NEW k \in 1 .. BlocksIn(cis, cis[i])
  PROVE  /\ cis[i] \in Comps /\ cis[i] \in Nat
         /\ MCURow(cis, cis[i], m, k) \in Nat /\ MCUCol(cis, cis[i], m, k) \in Nat
<1> DEFINE ci == cis[i]
           per == MCUsPerRow(cis)
           rows == MCURowsOf(cis)
           w == MCUWidth(cis, ci)
           h == MCUHeight(cis, ci)
<1>1. ci \in Comps /\ Comps = 1 .. Len(layout.comps) /\ Len(layout.comps) \in Nat
  BY SizesOfAnImage, SizesOfAScan
<1>2. per \in Nat \ {0} /\ rows \in Nat \ {0} /\ w \in Nat \ {0} /\ h \in Nat \ {0}
  BY <1>1, SizesOfAScan
<1>3. m \in 1 .. per * rows /\ k \in 1 .. w * h
  BY DEF MCUsOf, BlocksIn
<1>4. ci \in Nat
  BY <1>1
<1> HIDE DEF per, rows, w, h, ci
<1>5. RowIn(per, w, h, m, k) \in 0 .. rows * h - 1 /\ ColIn(per, w, h, m, k) \in 0 .. per * w - 1
  BY <1>2, <1>3, BlockOfAnMCU
<1>6. RowIn(per, w, h, m, k) \in Nat /\ ColIn(per, w, h, m, k) \in Nat
  BY <1>5
<1> QED BY <1>1, <1>4, <1>6, Zenon DEF MCURow, MCUCol, per, w, h, ci

LEMMA StandardMCUHolds ==
  ASSUME layout \in Layouts, NEW cis, IsScan(cis), NEW embedded \in BOOLEAN, NEW m \in 1 .. MCUsOf(cis)
  PROVE  /\ HoldsMCU(cis, m, StandardMCUs(cis, embedded)[m], embedded)
         /\ IsAssembled(cis, StandardParts(cis, embedded, m), StandardMCUs(cis, embedded)[m])
<1> DEFINE parts == StandardParts(cis, embedded, m)
<1>1. StandardMCUs(cis, embedded)[m] = FlattenSeq(parts)
  BY Zenon DEF StandardMCUs
<1>2. Len(cis) \in Nat \ {0} /\ DOMAIN cis = 1 .. Len(cis)
  BY SizesOfAScan
<1>3. IsOfLength(parts, Len(cis))
  BY <1>2 DEF StandardParts, IsOfLength
<1>4. \A i \in DOMAIN cis : parts[i] = StandardPart(cis, embedded, cis[i], m)
  BY DEF StandardParts
<1> HIDE DEF parts
<1>5. ASSUME NEW i \in DOMAIN cis
      PROVE  IsOfLength(parts[i], BlocksIn(cis, cis[i]))
  BY <1>4 DEF StandardPart, IsOfLength
<1>6. ASSUME NEW i \in DOMAIN cis, NEW k \in 1 .. BlocksIn(cis, cis[i])
      PROVE  HoldsBlock(parts[i][k], embedded, cis[i], MCURow(cis, cis[i], m, k), MCUCol(cis, cis[i], m, k))
  <2> DEFINE row == MCURow(cis, cis[i], m, k)
             col == MCUCol(cis, cis[i], m, k)
  <2>1. parts[i][k] = StandardBlock(embedded, cis[i], row, col)
    BY <1>4, Zenon DEF StandardPart
  <2>2. cis[i] \in Nat /\ row \in Nat /\ col \in Nat
    BY BlockOfAScan
  <2> HIDE DEF row, col
  <2>3. TheBlock(embedded, cis[i], row, col) \in AnyBlock /\ Padding \in AnyBlock
    BY <2>2, TheBlockIsABlock, BlocksAreBlocks
  <2>4. HoldsBlock(parts[i][k], embedded, cis[i], row, col)
    BY <2>1, <2>3, Zenon DEF StandardBlock, HoldsBlock
  <2> QED BY <2>4 DEF row, col
<1>7. HoldsParts(cis, m, parts, embedded)
  BY <1>3, <1>5, <1>6, Zenon DEF HoldsParts
<1>8. HoldsMCU(cis, m, FlattenSeq(parts), embedded)
  BY <1>7, AssembledMCUHolds
<1>9. IsAssembled(cis, parts, FlattenSeq(parts))
  BY <1>7, BlocksAreAssembled, Zenon DEF HoldsParts
<1> QED BY <1>1, <1>8, <1>9, Zenon DEF parts

-----------------------------------------------------------------------------
(***************************************************************************)
(* Dummy blocks                                                            *)
(***************************************************************************)
\* Where there is no block, one with the DC coefficient of the block before.
IsPadded(f, n, real, found) ==
  f = [b \in 1 .. n |-> IF real[b] THEN found[b] ELSE [dc |-> f[b - 1].dc, ac |-> 0]]

LEMMA BlocksCanBePadded ==
  ASSUME NEW n \in Nat \ {0}, NEW real, NEW found, real[1]
  PROVE  \E f : IsPadded(f, n, real, found)
<1> DEFINE S == {l \in Nat : \E f : IsPadded(f, l, real, found)}
<1>1. 1 \in S
  <2> DEFINE f == [b \in 1 .. 1 |-> found[1]]
  <2>1. \A b \in 1 .. 1 : b = 1
    OBVIOUS
  <2>2. f = [b \in 1 .. 1 |-> IF real[b] THEN found[b] ELSE [dc |-> f[b - 1].dc, ac |-> 0]]
    BY <2>1
  <2> HIDE DEF f
  <2>3. IsPadded(f, 1, real, found)
    BY <2>2, Zenon DEF IsPadded
  <2> QED BY <2>3
<1>2. ASSUME NEW l \in 1 .. n - 1, l \in S
      PROVE  l + 1 \in S
  <2>1. PICK f : IsPadded(f, l, real, found)
    BY <1>2
  <2> DEFINE next == l + 1
             block == IF real[next] THEN found[next] ELSE [dc |-> f[l].dc, ac |-> 0]
             g == [b \in 1 .. next |-> IF b = next THEN block ELSE f[b]]
  <2>2. /\ next \in Nat /\ next \in 1 .. next /\ next - 1 = l /\ l \in 1 .. next
        /\ l # next /\ next # 1
        /\ \A b \in 1 .. next : b # next => b \in 1 .. l
        /\ \A b \in 1 .. l : b \in 1 .. next /\ b # next
    OBVIOUS
  <2>3. \A b \in 1 .. l :
          f[b] = IF real[b] THEN found[b] ELSE [dc |-> f[b - 1].dc, ac |-> 0]
    BY <2>1, Zenon DEF IsPadded
  <2> HIDE DEF next, block
  <2>4. g[next] = block /\ \A b \in 1 .. l : g[b] = f[b]
    BY <2>2
  <2>5. g = [b \in 1 .. next |-> g[b]]
    OBVIOUS
  <2> HIDE DEF g
  <2>6. ASSUME NEW b \in 1 .. next
        PROVE  g[b] = IF real[b] THEN found[b] ELSE [dc |-> g[b - 1].dc, ac |-> 0]
    <3>1. CASE b = next
      <4>1. g[b - 1] = f[l] /\ l \in 1 .. l
        BY <2>2, <2>4, <3>1
      <4> QED BY <2>4, <3>1, <4>1 DEF block
    <3>2. CASE b # next /\ b # 1
      <4>1. b \in 1 .. l /\ b - 1 \in 1 .. l
        BY <2>2, <3>2
      <4>2. g[b] = f[b] /\ g[b - 1] = f[b - 1]
        BY <2>4, <4>1
      <4> QED BY <2>3, <4>1, <4>2, Zenon
    <3>3. CASE b # next /\ b = 1
      <4>1. b \in 1 .. l
        BY <2>2, <3>3
      <4>2. g[b] = f[b] /\ f[b] = found[b] /\ real[b]
        BY <2>3, <2>4, <3>3, <4>1
      <4> QED BY <4>2
    <3> QED BY <3>1, <3>2, <3>3
  <2>7. IsPadded(g, next, real, found)
    BY <2>5, <2>6 DEF IsPadded
  <2> QED BY <2>2, <2>7 DEF next
<1> HIDE DEF S
<1>3. n \in 1 .. n
  OBVIOUS
<1>4. \A l \in 1 .. n : l \in S
  BY <1>1, <1>2, FirstWithout
<1> QED BY <1>3, <1>4 DEF S

LEMMA PaddedBlocksAreBlocks ==
  ASSUME NEW n \in Nat \ {0}, NEW real, NEW found, real[1],
         \A b \in 1 .. n : real[b] => found[b] \in AnyBlock,
         NEW f, IsPadded(f, n, real, found)
  PROVE  /\ IsOfLength(f, n)
         /\ \A b \in 1 .. n : f[b] \in AnyBlock /\ (real[b] => f[b] = found[b])
<1>1. \A b \in 1 .. n : f[b] = IF real[b] THEN found[b] ELSE [dc |-> f[b - 1].dc, ac |-> 0]
  BY Zenon DEF IsPadded
<1>2. IsOfLength(f, n)
  <2>1. DOMAIN f = 1 .. n /\ f = [b \in DOMAIN f |-> f[b]]
    BY DEF IsPadded
  <2> QED BY <2>1, Zenon DEF IsOfLength
<1> DEFINE S == {b \in Nat : f[b] \in AnyBlock}
<1>3. 1 \in S
  <2>1. 1 \in 1 .. n
    OBVIOUS
  <2>2. f[1] = found[1] /\ found[1] \in AnyBlock
    BY <1>1, <2>1
  <2> QED BY <2>2
<1>4. ASSUME NEW b \in 1 .. n - 1, b \in S
      PROVE  b + 1 \in S
  <2> DEFINE next == b + 1
  <2>1. next \in 1 .. n /\ next \in Nat /\ next - 1 = b
    OBVIOUS
  <2> HIDE DEF next
  <2>2. f[next] = IF real[next] THEN found[next] ELSE [dc |-> f[b].dc, ac |-> 0]
    BY <1>1, <2>1
  <2>3. [dc |-> f[b].dc, ac |-> 0] \in AnyBlock
    BY <1>4 DEF AnyBlock, Coefficients
  <2>4. f[next] \in AnyBlock
    BY <2>1, <2>2, <2>3
  <2> QED BY <2>1, <2>4 DEF next
<1> HIDE DEF S
<1>5. \A b \in 1 .. n : b \in S
  BY <1>3, <1>4, FirstWithout
<1>6. \A b \in 1 .. n : f[b] \in AnyBlock
  BY <1>5 DEF S
<1>7. \A b \in 1 .. n : real[b] => f[b] = found[b]
  BY <1>1
<1> QED BY <1>2, <1>6, <1>7

-----------------------------------------------------------------------------
(***************************************************************************)
(* The rows of an iMCU row                                                 *)
(***************************************************************************)
FirstMCURow(cis, ci, i) == IF Interleaved(cis) THEN i ELSE i * VSamp(ci)

LEMMA WholeNumbers ==
  ASSUME NEW n \in Nat
  PROVE  n \div 1 = n /\ n % 1 = 0
OBVIOUS

LEMMA RowsOfAStrip ==
  ASSUME layout \in Layouts, NEW cis, IsScan(cis), NEW j \in DOMAIN cis, NEW ci, ci = cis[j],
         NEW i \in 0 .. TotaliMCURows - 1, NEW y \in 0 .. VSamp(ci) - 1,
         NEW row, row = i * VSamp(ci) + y
  PROVE  /\ row \in 0 .. RowsOf(ci) - 1 /\ row \in i * VSamp(ci) .. (i + 1) * VSamp(ci) - 1
         /\ row \div MCUHeight(cis, ci) = FirstMCURow(cis, ci, i) + y \div MCUHeight(cis, ci)
         /\ row % MCUHeight(cis, ci) = y % MCUHeight(cis, ci)
         /\ y \div MCUHeight(cis, ci) < MCURowsPeriMCURow(cis, i)
              <=> row \div MCUHeight(cis, ci) < MCURowsOf(cis)
         /\ row < HeightInBlocks(ci) => row \div MCUHeight(cis, ci) < MCURowsOf(cis)
         /\ row < HeightInBlocks(ci) <=> (i < TotaliMCURows - 1 \/ y < LastRowHeight(cis, ci))
<1> DEFINE v == VSamp(ci)
           t == TotaliMCURows
           hb == HeightInBlocks(ci)
           left == Left(hb, v)
           h == MCUHeight(cis, ci)
<1>1. ci \in Comps
  BY SizesOfAScan
<1>2. /\ v \in Nat \ {0} /\ t \in Nat \ {0} /\ hb \in Nat \ {0} /\ left \in 1 .. v
      /\ hb = (t - 1) * v + left /\ RowsOf(ci) = t * v
  BY <1>1, SizesOfAnImage DEF RowsOf
<1>3. i \in 0 .. t - 1 /\ y \in 0 .. v - 1 /\ row = i * v + y
  OBVIOUS
<1>4. /\ Interleaved(cis) => h = v /\ MCURowsOf(cis) = t
      /\ ~Interleaved(cis) => h = 1 /\ MCURowsOf(cis) = hb /\ cis[1] = ci
  BY <1>1, SizesOfAScan
<1>5. MCURowsPeriMCURow(cis, i) =
        IF Interleaved(cis) THEN 1 ELSE IF i < t - 1 THEN VSamp(cis[1]) ELSE Left(HeightInBlocks(cis[1]), VSamp(cis[1]))
  BY Zenon DEF MCURowsPeriMCURow, LastRowHeight
<1>6. FirstMCURow(cis, ci, i) = IF Interleaved(cis) THEN i ELSE i * v
  BY Zenon DEF FirstMCURow
<1>7. ~Interleaved(cis) => MCURowsPeriMCURow(cis, i) = IF i < t - 1 THEN v ELSE left
  BY <1>4, <1>5, Zenon
<1> HIDE DEF v, t, hb, left, h
<1>8. row < t * v /\ row \in Nat /\ t * v \in Nat /\ i * v \in Nat
  BY <1>2, <1>3, PartsAreInOrder, Products
<1>9. (i + 1) * v = i * v + v
  BY <1>2, <1>3, Products
<1>10. row \in 0 .. t * v - 1 /\ row \in i * v .. (i + 1) * v - 1
  BY <1>2, <1>3, <1>8, <1>9
<1>11. row < hb <=> (i < t - 1 \/ y < left)
  <2>1. CASE i < t - 1
    <3>1. t - 1 \in Nat /\ i \in Nat
      BY <1>2, <1>3, <2>1
    <3>2. row < (t - 1) * v /\ (t - 1) * v \in Nat
      BY <1>2, <1>3, <2>1, <3>1, PartsAreInOrder, Products
    <3> QED BY <1>2, <1>8, <2>1, <3>2
  <2>2. CASE ~(i < t - 1)
    <3>1. i = t - 1
      BY <1>2, <1>3, <2>2
    <3>2. row = (t - 1) * v + y /\ (t - 1) * v \in Nat
      BY <1>3, <1>8, <3>1
    <3> QED BY <1>2, <1>3, <2>2, <3>2
  <2> QED BY <2>1, <2>2
<1>14. row < hb <=> (i < t - 1 \/ y < LastRowHeight(cis, ci))
  BY <1>11, Zenon DEF LastRowHeight, left, hb, v
<1>12. CASE Interleaved(cis)
  <2>1. row \div v = i /\ row % v = y
    <3>1. i \in Nat /\ y \in 0 .. v - 1 /\ v \in Nat \ {0}
      BY <1>2, <1>3
    <3>2. (i * v + y) \div v = i /\ (i * v + y) % v = y
      BY <3>1, PlaceInPart, Zenon
    <3> QED BY <1>3, <3>2, Zenon
  <2>2. y \div v = 0 /\ y % v = y
    <3>1. 0 \in Nat /\ 0 * v + y = y /\ y \in 0 .. v - 1 /\ v \in Nat \ {0}
      BY <1>2, <1>3
    <3>2. (0 * v + y) \div v = 0 /\ (0 * v + y) % v = y
      BY <3>1, PlaceInPart, Zenon
    <3> QED BY <3>1, <3>2, Zenon
  <2>3. /\ row \div h = i + y \div h /\ row % h = y % h
        /\ y \div h < 1 /\ row \div h < t
    <3>1. h = v
      BY <1>4, <1>12
    <3>2. i + 0 = i /\ 0 < 1 /\ i < t
      BY <1>2, <1>3
    <3> QED BY <2>1, <2>2, <3>1, <3>2, Zenon
  <2> QED BY <1>2, <1>4, <1>5, <1>6, <1>10, <1>12, <1>14, <2>3 DEF v, h, hb, t
<1>13. CASE ~Interleaved(cis)
  <2>1. row \div h = row /\ row % h = 0 /\ y \div h = y /\ y % h = 0
    <3>1. y \in Nat
      BY <1>2, <1>3
    <3>2. \A n \in Nat : n \div h = n /\ n % h = 0
      BY <1>4, <1>13, WholeNumbers
    <3> QED BY <1>8, <3>1, <3>2
  <2>2. y < MCURowsPeriMCURow(cis, i) <=> (i < t - 1 \/ y < left)
    BY <1>2, <1>3, <1>7, <1>13
  <2>3. row \div h < MCURowsOf(cis) <=> row < hb
    BY <1>4, <1>13, <2>1
  <2>4. FirstMCURow(cis, ci, i) + y \div h = i * v + y
    BY <1>6, <1>13, <2>1
  <2> QED BY <1>2, <1>3, <1>10, <1>11, <1>14, <2>1, <2>2, <2>3, <2>4 DEF v, h, hb, t
<1> QED BY <1>12, <1>13

-----------------------------------------------------------------------------
LEMMA QuotientIsLess ==
  ASSUME NEW a \in Nat, NEW b \in Nat \ {0}, NEW n \in Nat
  PROVE  a \div b < n <=> a < n * b
<1> DEFINE q == a \div b
           r == a % b
<1>1. q \in Nat /\ r \in 0 .. b - 1 /\ a = q * b + r
  BY Quotients
<1> HIDE DEF q, r
<1>2. q * b \in Nat /\ n * b \in Nat
  BY <1>1, Products
<1>3. q < n => a < n * b
  BY <1>1, PartsAreInOrder, Zenon
<1>4. ~(q < n) => n * b <= q * b
  <2>1. ~(q < n) => n <= q
    BY <1>1
  <2> QED BY <1>1, <2>1, ProductsGrow
<1>5. ~(q < n) => ~(a < n * b)
  BY <1>1, <1>2, <1>4
<1> QED BY <1>3, <1>5 DEF q

LEMMA ColsOfAScan ==
  ASSUME layout \in Layouts, NEW cis, IsScan(cis), NEW j \in DOMAIN cis, NEW ci, ci = cis[j],
         NEW per, per = MCUsPerRow(cis), NEW w, w = MCUWidth(cis, ci)
  PROVE  /\ per \in Nat \ {0} /\ w \in Nat \ {0} /\ per * w \in Nat
         /\ ColsOf(ci) \in Nat /\ per * w <= ColsOf(ci)
         /\ WidthInBlocks(ci) \in Nat \ {0} /\ WidthInBlocks(ci) <= per * w
         /\ LastColWidth(cis, ci) \in 1 .. w
         /\ \A d \in 0 .. w - 1 :
              (per - 1) * w + d < WidthInBlocks(ci) => d < LastColWidth(cis, ci)
<1> DEFINE a == Across
           s == HSamp(ci)
           wb == WidthInBlocks(ci)
           left == Left(wb, s)
           last == LastColWidth(cis, ci)
<1>1. ci \in Comps
  BY SizesOfAScan
<1>2. /\ a \in Nat \ {0} /\ s \in Nat \ {0} /\ wb \in Nat \ {0} /\ left \in 1 .. s
      /\ wb = (a - 1) * s + left /\ ColsOf(ci) = a * s
  BY <1>1, SizesOfAnImage DEF ColsOf
<1>3. /\ Interleaved(cis) => per = a /\ w = s
      /\ ~Interleaved(cis) => per = wb /\ w = 1
  <2>1. ~Interleaved(cis) => ci = cis[1]
    BY SizesOfAScan
  <2> QED BY <1>1, <2>1, SizesOfAScan
<1>4. last = IF Interleaved(cis) THEN left ELSE 1
  BY Zenon DEF LastColWidth
<1> HIDE DEF a, s, wb, left, last
<1>5. (a - 1) * s + s = a * s /\ (a - 1) * s \in Nat /\ a * s \in Nat
  <2>1. a - 1 \in Nat /\ a - 1 + 1 = a
    BY <1>2
  <2> QED BY <1>2, <2>1, Products
<1>6. CASE Interleaved(cis)
  <2>1. per = a /\ w = s /\ last = left
    BY <1>3, <1>4, <1>6
  <2>2. per * w = a * s /\ (per - 1) * w = (a - 1) * s
    BY <2>1
  <2>3. \A d \in 0 .. w - 1 : (per - 1) * w + d < wb => d < last
    BY <1>2, <1>5, <2>1, <2>2
  <2>4. per * w <= a * s /\ wb <= per * w /\ per * w \in Nat
    BY <1>2, <1>5, <2>2
  <2> QED BY <1>2, <1>5, <2>1, <2>3, <2>4 DEF wb, last
<1>7. CASE ~Interleaved(cis)
  <2>1. per = wb /\ w = 1 /\ last = 1
    BY <1>3, <1>4, <1>7
  <2>2. per * w = wb
    BY <1>2, <2>1
  <2>3. \A d \in 0 .. w - 1 : d < last
    BY <2>1
  <2> QED BY <1>2, <1>5, <2>1, <2>2, <2>3 DEF wb, last
<1> QED BY <1>6, <1>7

\* consume_data: a block of the array is the one of the MCU that is for it.
HoldsMCUs(cis, mcus, embedded) == \A m \in 1 .. MCUsOf(cis) : HoldsMCU(cis, m, mcus[m], embedded)

LEMMA BlockIsRead ==
  ASSUME layout \in Layouts, NEW cis, IsScan(cis), NEW j \in DOMAIN cis, NEW ci, ci = cis[j],
         iMCU \in 0 .. TotaliMCURows - 1, NEW y \in 0 .. VSamp(ci) - 1,
         NEW row, row = iMCU * VSamp(ci) + y, NEW col \in 0 .. ColsOf(ci) - 1,
         NEW mcus, NEW embedded, HoldsMCUs(cis, mcus, embedded), NEW old \in AnyBlock
  PROVE  HoldsBlock(BlockRead(cis, mcus, j, y, col, old), embedded, ci, row, col)
<1> DEFINE per == MCUsPerRow(cis)
           rows == MCURowsOf(cis)
           w == MCUWidth(cis, ci)
           h == MCUHeight(cis, ci)
           first == FirstMCURow(cis, ci, iMCU)
           m == (row \div h) * per + (col \div w) + 1
           k == PlaceInMCU(w, h, row, col)
           given == y \div h < MCURowsPeriMCURow(cis, iMCU) /\ col \div w < per
           block == BlockRead(cis, mcus, j, y, col, old)
<1>1. ci \in Comps /\ VSamp(ci) \in Nat \ {0} /\ HeightInBlocks(ci) \in Nat \ {0}
  BY SizesOfAScan, SizesOfAnImage
<1>2. per \in Nat \ {0} /\ rows \in Nat \ {0} /\ w \in Nat \ {0} /\ h \in Nat \ {0}
  BY <1>1, SizesOfAScan
<1>3. /\ row \in 0 .. RowsOf(ci) - 1
      /\ row \div h = first + y \div h
      /\ row % h = y % h
      /\ y \div h < MCURowsPeriMCURow(cis, iMCU) <=> row \div h < rows
      /\ row < HeightInBlocks(ci) => row \div h < rows
  BY RowsOfAStrip
<1>4. per * w <= ColsOf(ci) /\ WidthInBlocks(ci) <= per * w /\ per * w \in Nat
      /\ WidthInBlocks(ci) \in Nat /\ ColsOf(ci) \in Nat
  BY ColsOfAScan
<1>5. row \in Nat /\ col \in Nat /\ y \in Nat /\ iMCU \in Nat
  BY <1>1, <1>3
<1>6. block = IF given
              THEN mcus[(IF Interleaved(cis) THEN iMCU * per ELSE iMCU * VSamp(ci) * per)
                          + (y \div h) * per + (col \div w) + 1]
                       [BlocksBefore(cis, j) + PlaceInMCU(w, h, y, col)]
              ELSE old
  BY Zenon DEF BlockRead
<1>7. (IF Interleaved(cis) THEN iMCU * per ELSE iMCU * VSamp(ci) * per)
        + (y \div h) * per + (col \div w) + 1 = m
  <2> DEFINE f == IF Interleaved(cis) THEN iMCU * per ELSE iMCU * VSamp(ci) * per
             q == y \div h
             c == col \div w
  <2>1. f = first * per
    BY Zenon DEF FirstMCURow
  <2>2. first \in Nat /\ q \in Nat /\ c \in Nat
    <3>1. first \in Nat
      BY <1>1, <1>5, Products DEF FirstMCURow
    <3>2. q \in Nat /\ c \in Nat
      BY <1>2, <1>5, Quotients
    <3> QED BY <3>1, <3>2
  <2>3. m = (first + q) * per + c + 1
    BY <1>3, Zenon
  <2> HIDE DEF f, q, c, first, per, m
  <2>4. (first + q) * per = first * per + q * per
    BY <1>2, <2>2
  <2>5. f + q * per + c + 1 = m
    BY <2>1, <2>3, <2>4, Zenon
  <2> QED BY <2>5 DEF f, q, c, first, per
<1>8. PlaceInMCU(w, h, y, col) = k
  BY <1>3, Zenon DEF PlaceInMCU
<1> HIDE DEF block, m, k, given, first
<1>9. block = IF given THEN mcus[m][BlocksBefore(cis, j) + k] ELSE old
  BY <1>6, <1>7, <1>8, Zenon
<1>10. CASE given
  <2>1. row \in 0 .. rows * h - 1 /\ col \in 0 .. per * w - 1
    <3>1. row < rows * h
      BY <1>2, <1>3, <1>5, <1>10, QuotientIsLess, Zenon DEF given
    <3>2. col < per * w
      <4>1. per \in Nat
        BY <1>2
      <4> QED BY <1>2, <1>5, <1>10, <4>1, QuotientIsLess, Zenon DEF given
    <3>3. rows * h \in Nat
      BY <1>2, Products
    <3> QED BY <1>4, <1>5, <3>1, <3>2, <3>3
  <2>2. /\ m \in 1 .. per * rows /\ k \in 1 .. w * h
        /\ RowIn(per, w, h, m, k) = row /\ ColIn(per, w, h, m, k) = col
    <3> HIDE DEF per, rows, w, h
    <3>1. m = (row \div h) * per + (col \div w) + 1
      BY DEF m
    <3>2. k = PlaceInMCU(w, h, row, col)
      BY DEF k
    <3>3. IsPlaced(per, rows, w, h, row, col, m, k)
      BY <1>2, <2>1, <3>1, <3>2, PlaceOfABlock, Zenon
    <3> QED BY <3>3, Zenon DEF IsPlaced
  <2>3. m \in 1 .. MCUsOf(cis) /\ k \in 1 .. BlocksIn(cis, ci)
    BY <2>2, Zenon DEF MCUsOf, BlocksIn
  <2>4. HoldsMCU(cis, m, mcus[m], embedded)
    BY <2>3, Zenon DEF HoldsMCUs
  <2>5. HoldsBlock(mcus[m][BlocksBefore(cis, j) + k], embedded, ci, MCURow(cis, ci, m, k), MCUCol(cis, ci, m, k))
    BY <2>3, <2>4, Zenon DEF HoldsMCU
  <2>6. MCURow(cis, ci, m, k) = row /\ MCUCol(cis, ci, m, k) = col
    BY <2>2, Zenon DEF MCURow, MCUCol
  <2>7. block = mcus[m][BlocksBefore(cis, j) + k]
    BY <1>9, <1>10
  <2> QED BY <2>5, <2>6, <2>7, Zenon DEF block
<1>11. CASE ~given
  <2>1. block \in AnyBlock
    BY <1>9, <1>11
  <2>2. ~IsInImage(ci, row, col)
    <3>1. ASSUME IsInImage(ci, row, col)
          PROVE  given
      <4>1. row < HeightInBlocks(ci) /\ col < WidthInBlocks(ci)
        BY <3>1 DEF IsInImage
      <4>2. y \div h < MCURowsPeriMCURow(cis, iMCU)
        BY <1>3, <4>1, Zenon
      <4>3. col < per * w
        BY <1>4, <1>5, <4>1
      <4>4. per \in Nat
        BY <1>2
      <4>5. col \div w < per
        BY <1>2, <1>5, <4>3, <4>4, QuotientIsLess, Zenon
      <4> QED BY <4>2, <4>5 DEF given
    <3> QED BY <1>11, <3>1
  <2> QED BY <2>1, <2>2, Zenon DEF HoldsBlock, block
<1> QED BY <1>10, <1>11

-----------------------------------------------------------------------------
(***************************************************************************)
(* The MCUs that are written                                               *)
(***************************************************************************)
LEMMA RowsOfAnMCU ==
  ASSUME layout \in Layouts, NEW cis, IsScan(cis), NEW j \in DOMAIN cis, NEW ci, ci = cis[j],
         NEW i \in 0 .. TotaliMCURows - 1, NEW yoffset \in 0 .. MCURowsPeriMCURow(cis, i) - 1,
         NEW c \in 0 .. MCUHeight(cis, ci) - 1
  PROVE  /\ yoffset + c \in 0 .. VSamp(ci) - 1
         /\ FirstMCURow(cis, ci, i) + yoffset \in Nat
         /\ (FirstMCURow(cis, ci, i) + yoffset) * MCUHeight(cis, ci) + c
              = i * VSamp(ci) + (yoffset + c)
         /\ i < TotaliMCURows - 1 \/ yoffset < LastRowHeight(cis, ci)
         /\ MCURowsPeriMCURow(cis, i) \in Nat \ {0}
<1> DEFINE v == VSamp(ci)
           t == TotaliMCURows
           left == Left(HeightInBlocks(ci), v)
           h == MCUHeight(cis, ci)
           no == MCURowsPeriMCURow(cis, i)
           first == FirstMCURow(cis, ci, i)
<1>1. ci \in Comps
  BY SizesOfAScan
<1>2. v \in Nat \ {0} /\ t \in Nat \ {0} /\ left \in 1 .. v
  BY <1>1, SizesOfAnImage
<1>3. /\ Interleaved(cis) => h = v
      /\ ~Interleaved(cis) => h = 1 /\ cis[1] = ci
  BY <1>1, SizesOfAScan
<1>4. /\ Interleaved(cis) => no = 1 /\ first = i
      /\ ~Interleaved(cis) => no = (IF i < t - 1 THEN v ELSE left) /\ first = i * v
  <2>1. no = IF Interleaved(cis) THEN 1 ELSE IF i < t - 1 THEN VSamp(cis[1]) ELSE Left(HeightInBlocks(cis[1]), VSamp(cis[1]))
    BY Zenon DEF MCURowsPeriMCURow, LastRowHeight
  <2>2. first = IF Interleaved(cis) THEN i ELSE i * v
    BY Zenon DEF FirstMCURow
  <2> QED BY <1>3, <2>1, <2>2, Zenon
<1>5. LastRowHeight(cis, ci) = left
  BY Zenon DEF LastRowHeight
<1>6. yoffset \in 0 .. no - 1 /\ c \in 0 .. h - 1 /\ i \in 0 .. t - 1
  OBVIOUS
<1> HIDE DEF v, t, left, h, no, first
<1>7. i * v \in Nat
  BY <1>2, <1>6, Products
<1>8. CASE Interleaved(cis)
  <2>1. h = v /\ no = 1 /\ first = i /\ yoffset = 0
    BY <1>3, <1>4, <1>6, <1>8
  <2>2. first + yoffset = i
    BY <1>6, <2>1
  <2>3. (first + yoffset) * h + c = i * v + c
    BY <2>1, <2>2, Zenon
  <2>4. i * v + c = i * v + (yoffset + c) /\ yoffset + c = c
    BY <1>2, <1>6, <1>7, <2>1
  <2>5. yoffset < left
    BY <1>2, <2>1
  <2> QED BY <1>2, <1>5, <1>6, <2>1, <2>2, <2>3, <2>4, <2>5 DEF v, t, h, no, first
<1>9. CASE ~Interleaved(cis)
  <2>1. h = 1 /\ no = (IF i < t - 1 THEN v ELSE left) /\ first = i * v /\ c = 0
    BY <1>3, <1>4, <1>6, <1>9
  <2>2. yoffset \in 0 .. v - 1 /\ (i < t - 1 \/ yoffset < left) /\ no \in Nat \ {0}
    BY <1>2, <1>6, <2>1
  <2>3. first + yoffset \in Nat /\ (first + yoffset) * h + c = i * v + (yoffset + c) /\ yoffset + c = yoffset
    BY <1>6, <1>7, <2>1
  <2> QED BY <1>5, <2>2, <2>3 DEF v, t, h, no, first
<1> QED BY <1>8, <1>9

\* The blocks of a component in an MCU that is written.
RealBlock(cis, yoffset, xoffset, ci, b) ==
  /\ (b - 1) % MCUWidth(cis, ci)
       < (IF xoffset < MCUsPerRow(cis) - 1 THEN MCUWidth(cis, ci) ELSE LastColWidth(cis, ci))
  /\ \/ iMCU < TotaliMCURows - 1
     \/ (b - 1) \div MCUWidth(cis, ci) + yoffset < LastRowHeight(cis, ci)
FoundBlock(cis, as, yoffset, xoffset, ci, b) ==
  RowAt(as[ci], iMCU * VSamp(ci) + yoffset + (b - 1) \div MCUWidth(cis, ci))
    [xoffset * MCUWidth(cis, ci) + ((b - 1) % MCUWidth(cis, ci))]
PartOut(cis, as, yoffset, xoffset, ci) ==
  CHOOSE f : f = [b \in 1 .. MCUWidth(cis, ci) * MCUHeight(cis, ci) |->
    IF RealBlock(cis, yoffset, xoffset, ci, b) THEN FoundBlock(cis, as, yoffset, xoffset, ci, b)
    ELSE [dc |-> f[b - 1].dc, ac |-> 0]]

LEMMA MCUOutIsOfParts ==
  ASSUME NEW cis, NEW as, NEW yoffset, NEW xoffset
  PROVE  MCUOut(cis, as, yoffset, xoffset) =
           FlattenSeq([i \in DOMAIN cis |-> PartOut(cis, as, yoffset, xoffset, cis[i])])
BY Zenon DEF MCUOut, PartOut, RealBlock, FoundBlock

LEMMA PartOutIsPadded ==
  ASSUME NEW cis, NEW as, NEW yoffset, NEW xoffset, NEW ci, NEW n, n = BlocksIn(cis, ci),
         n \in Nat \ {0}, RealBlock(cis, yoffset, xoffset, ci, 1)
  PROVE  IsPadded(PartOut(cis, as, yoffset, xoffset, ci), n,
                  [b \in 1 .. n |-> RealBlock(cis, yoffset, xoffset, ci, b)],
                  [b \in 1 .. n |-> FoundBlock(cis, as, yoffset, xoffset, ci, b)])
<1> DEFINE real == [b \in 1 .. n |-> RealBlock(cis, yoffset, xoffset, ci, b)]
           found == [b \in 1 .. n |-> FoundBlock(cis, as, yoffset, xoffset, ci, b)]
           Out(f) == f = [b \in 1 .. n |->
             IF RealBlock(cis, yoffset, xoffset, ci, b) THEN FoundBlock(cis, as, yoffset, xoffset, ci, b)
             ELSE [dc |-> f[b - 1].dc, ac |-> 0]]
<1>1. real[1]
  <2>1. 1 \in 1 .. n
    OBVIOUS
  <2> QED BY <2>1, Zenon
<1>2. \A b \in 1 .. n : (real[b] <=> RealBlock(cis, yoffset, xoffset, ci, b))
                        /\ found[b] = FoundBlock(cis, as, yoffset, xoffset, ci, b)
  BY Zenon
<1> HIDE DEF real, found
<1>3. PICK g : IsPadded(g, n, real, found)
  BY <1>1, BlocksCanBePadded, Zenon
<1>4. ASSUME NEW f
      PROVE  Out(f) <=> IsPadded(f, n, real, found)
  <2>1. [b \in 1 .. n |->
             IF RealBlock(cis, yoffset, xoffset, ci, b) THEN FoundBlock(cis, as, yoffset, xoffset, ci, b)
             ELSE [dc |-> f[b - 1].dc, ac |-> 0]]
        = [b \in 1 .. n |-> IF real[b] THEN found[b] ELSE [dc |-> f[b - 1].dc, ac |-> 0]]
    BY <1>2, Zenon
  <2> QED BY <2>1, Zenon DEF IsPadded
<1>5. PartOut(cis, as, yoffset, xoffset, ci) = CHOOSE f : Out(f)
  BY Zenon DEF PartOut, BlocksIn
<1> HIDE DEF Out
<1>6. Out(g)
  BY <1>3, <1>4, Zenon
<1>7. Out(CHOOSE f : Out(f))
  BY <1>6, Zenon
<1>8. Out(PartOut(cis, as, yoffset, xoffset, ci))
  BY <1>5, <1>7, Zenon
<1> QED BY <1>4, <1>8, Zenon DEF real, found

-----------------------------------------------------------------------------
\* What the caller sees of an iMCU row of a component's array.
ShowsStrip(a, ci, embedded) ==
  \A r \in iMCU * VSamp(ci) .. (iMCU + 1) * VSamp(ci) - 1 :
    \A col \in 0 .. ColsOf(ci) - 1 : HoldsBlock(RowAt(a, r)[col], embedded, ci, r, col)

HoldsPart(cis, ci, m, part, embedded) ==
  /\ IsOfLength(part, BlocksIn(cis, ci))
  /\ \A k \in 1 .. BlocksIn(cis, ci) :
       HoldsBlock(part[k], embedded, ci, MCURow(cis, ci, m, k), MCUCol(cis, ci, m, k))

LEMMA PartOutHolds ==
  ASSUME layout \in Layouts, NEW cis, IsScan(cis), NEW j \in DOMAIN cis, NEW ci, ci = cis[j],
         iMCU \in 0 .. TotaliMCURows - 1,
         NEW yoffset \in 0 .. MCURowsPeriMCURow(cis, iMCU) - 1,
         NEW xoffset \in 0 .. MCUsPerRow(cis) - 1,
         NEW m, m = (FirstMCURow(cis, ci, iMCU) + yoffset) * MCUsPerRow(cis) + xoffset + 1,
         NEW as, NEW embedded, ShowsStrip(as[ci], ci, embedded)
  PROVE  HoldsPart(cis, ci, m, PartOut(cis, as, yoffset, xoffset, ci), embedded)
<1> DEFINE per == MCUsPerRow(cis)
           w == MCUWidth(cis, ci)
           h == MCUHeight(cis, ci)
           first == FirstMCURow(cis, ci, iMCU)
           n == BlocksIn(cis, ci)
           cols == ColsOf(ci)
           wb == WidthInBlocks(ci)
           last == LastColWidth(cis, ci)
           lastrow == LastRowHeight(cis, ci)
           v == VSamp(ci)
           t == TotaliMCURows
           Real(b) == RealBlock(cis, yoffset, xoffset, ci, b)
           Found(b) == FoundBlock(cis, as, yoffset, xoffset, ci, b)
           Y(k) == yoffset + (k - 1) \div w
           Col(k) == xoffset * w + ((k - 1) % w)
           RowNo(k) == iMCU * v + Y(k)
<1>1. ci \in Comps
  BY SizesOfAScan
<1>2. /\ per \in Nat \ {0} /\ w \in Nat \ {0} /\ h \in Nat \ {0} /\ v \in Nat \ {0} /\ t \in Nat \ {0}
      /\ n = w * h
  BY <1>1, SizesOfAScan, SizesOfAnImage DEF BlocksIn
<1>3. /\ per * w \in Nat /\ cols \in Nat /\ per * w <= cols
      /\ wb \in Nat \ {0} /\ wb <= per * w /\ last \in 1 .. w
      /\ \A d \in 0 .. w - 1 : (per - 1) * w + d < wb => d < last
  BY ColsOfAScan
<1>4. \A c \in 0 .. h - 1 :
        /\ yoffset + c \in 0 .. v - 1
        /\ first + yoffset \in Nat
        /\ (first + yoffset) * h + c = iMCU * v + (yoffset + c)
        /\ iMCU < t - 1 \/ yoffset < lastrow
  BY RowsOfAnMCU
<1>5. \A y \in 0 .. v - 1 :
        /\ iMCU * v + y \in iMCU * v .. (iMCU + 1) * v - 1
        /\ iMCU * v + y < HeightInBlocks(ci) <=> (iMCU < t - 1 \/ y < lastrow)
  BY RowsOfAStrip
<1>6. xoffset \in 0 .. per - 1 /\ m = (first + yoffset) * per + xoffset + 1 /\ yoffset \in Nat /\ iMCU \in 0 .. t - 1
  <2>1. yoffset \in Nat
    <3>1. MCURowsPeriMCURow(cis, iMCU) \in Nat
      <4>1. 0 \in 0 .. h - 1
        BY <1>2
      <4> QED BY <4>1, RowsOfAnMCU
    <3> QED BY <3>1
  <2> QED BY <2>1
<1>7. ASSUME NEW b
      PROVE  /\ Real(b) <=> /\ (b - 1) % w < (IF xoffset < per - 1 THEN w ELSE last)
                            /\ iMCU < t - 1 \/ (b - 1) \div w + yoffset < lastrow
             /\ Found(b) = RowAt(as[ci], iMCU * v + yoffset + (b - 1) \div w)[Col(b)]
  BY Zenon DEF RealBlock, FoundBlock
<1>8. ASSUME NEW k
      PROVE  /\ MCURow(cis, ci, m, k) = ((m - 1) \div per) * h + (k - 1) \div w
             /\ MCUCol(cis, ci, m, k) = ((m - 1) % per) * w + ((k - 1) % w)
  BY Zenon DEF MCURow, MCUCol, RowIn, ColIn
<1>9. \A r \in iMCU * v .. (iMCU + 1) * v - 1 : \A col \in 0 .. cols - 1 :
        HoldsBlock(RowAt(as[ci], r)[col], embedded, ci, r, col)
  BY Zenon DEF ShowsStrip
<1>10. IsInImage(ci, 0, 0) \in BOOLEAN /\ \A r, col : IsInImage(ci, r, col) <=> r < HeightInBlocks(ci) /\ col < wb
  BY DEF IsInImage
<1>11. n \in Nat \ {0}
  BY <1>2
<1> HIDE DEF per, w, h, first, n, cols, wb, last, lastrow, v, t, Real, Found
<1>12. (m - 1) \div per = first + yoffset /\ (m - 1) % per = xoffset
  <2> DEFINE a == first + yoffset
  <2>1. a \in Nat
    <3>1. 0 \in 0 .. h - 1
      BY <1>2
    <3> QED BY <1>4, <3>1
  <2>2. m = a * per + xoffset + 1
    BY <1>6
  <2> HIDE DEF a
  <2>3. (a * per + xoffset) \div per = a /\ (a * per + xoffset) % per = xoffset
    BY <1>2, <1>6, <2>1, PlaceInPart, Zenon
  <2>4. m - 1 = a * per + xoffset
    <3>1. a * per \in Nat
      BY <1>2, <2>1, Products
    <3> QED BY <1>6, <2>2, <3>1
  <2> QED BY <2>3, <2>4, Zenon DEF a
<1>13. ASSUME NEW k \in 1 .. n
       PROVE  /\ (k - 1) \div w \in 0 .. h - 1 /\ (k - 1) % w \in 0 .. w - 1
              /\ Y(k) \in 0 .. v - 1 /\ Col(k) \in 0 .. cols - 1
              /\ RowNo(k) \in iMCU * v .. (iMCU + 1) * v - 1
              /\ Found(k) = RowAt(as[ci], RowNo(k))[Col(k)]
              /\ MCURow(cis, ci, m, k) = RowNo(k) /\ MCUCol(cis, ci, m, k) = Col(k)
              /\ IsInImage(ci, RowNo(k), Col(k)) => Real(k)
  <2> DEFINE c == (k - 1) \div w
             d == (k - 1) % w
  <2>1. c \in 0 .. h - 1 /\ d \in 0 .. w - 1
    <3>1. k - 1 \in Nat /\ k - 1 < h * w /\ h \in Nat
      BY <1>2
    <3>2. c \in Nat /\ d \in 0 .. w - 1
      BY <1>2, <3>1, Quotients
    <3>3. c < h
      BY <1>2, <3>1, QuotientIsLess, Zenon
    <3> HIDE DEF c, d
    <3> QED BY <1>2, <3>2, <3>3
  <2> HIDE DEF c, d
  <2>2. Y(k) = yoffset + c /\ Col(k) = xoffset * w + d
    BY DEF c, d
  <2>3. Y(k) \in 0 .. v - 1
    BY <1>4, <2>1, <2>2, Zenon
  <2>4. Col(k) < per * w /\ Col(k) \in Nat
    BY <1>2, <1>6, <2>1, <2>2, PartsAreInOrder
  <2>5. RowNo(k) \in iMCU * v .. (iMCU + 1) * v - 1
    BY <1>5, <2>3, Zenon
  <2>6. MCURow(cis, ci, m, k) = RowNo(k) /\ MCUCol(cis, ci, m, k) = Col(k)
    <3>1. MCURow(cis, ci, m, k) = (first + yoffset) * h + c
      BY <1>8, <1>12, Zenon DEF c
    <3>2. MCUCol(cis, ci, m, k) = xoffset * w + d
      BY <1>8, <1>12, Zenon DEF d
    <3>3. (first + yoffset) * h + c = iMCU * v + (yoffset + c)
      BY <1>4, <2>1, Zenon
    <3> QED BY <2>2, <3>1, <3>2, <3>3, Zenon
  <2>7. Found(k) = RowAt(as[ci], RowNo(k))[Col(k)]
    <3>1. iMCU * v + yoffset + c = iMCU * v + (yoffset + c)
      <4>1. iMCU * v \in Nat
        BY <1>2, <1>6, Products
      <4> QED BY <1>2, <1>6, <2>1, <4>1
    <3>2. iMCU * v + yoffset + (k - 1) \div w = RowNo(k)
      BY <2>2, <3>1, Zenon DEF c
    <3> QED BY <1>7, <3>2, Zenon
  <2>8. ASSUME IsInImage(ci, RowNo(k), Col(k))
        PROVE  Real(k)
    <3>1. RowNo(k) < HeightInBlocks(ci) /\ Col(k) < wb
      BY <1>10, <2>8, Zenon
    <3>2. iMCU < t - 1 \/ Y(k) < lastrow
      BY <1>5, <2>3, <3>1, Zenon
    <3>3. iMCU < t - 1 \/ c + yoffset < lastrow
      <4>1. yoffset + c = c + yoffset
        BY <1>2, <1>6, <2>1
      <4> QED BY <2>2, <3>2, <4>1, Zenon
    <3>4. d < (IF xoffset < per - 1 THEN w ELSE last)
      <4>1. CASE xoffset < per - 1
        BY <1>2, <2>1, <4>1
      <4>2. CASE ~(xoffset < per - 1)
        <5>1. xoffset = per - 1
          BY <1>2, <1>6, <4>2
        <5>2. (per - 1) * w + d < wb
          BY <2>2, <3>1, <5>1, Zenon
        <5>3. d < last
          BY <1>3, <2>1, <5>2, Zenon
        <5> QED BY <4>2, <5>3, Zenon
      <4> QED BY <4>1, <4>2
    <3> QED BY <1>7, <3>3, <3>4, Zenon DEF c, d
  <2>9. Col(k) \in 0 .. cols - 1
    <3> HIDE DEF Col
    <3> QED BY <1>3, <2>4
  <2> QED BY <2>1, <2>3, <2>5, <2>6, <2>7, <2>8, <2>9, Zenon DEF c, d
<1>14. Real(1)
  <2>1. (1 - 1) \div w = 0 /\ (1 - 1) % w = 0
    <3>1. 1 - 1 = 0 * w + 0 /\ 0 \in Nat /\ 0 \in 0 .. w - 1
      BY <1>2
    <3>2. (0 * w + 0) \div w = 0 /\ (0 * w + 0) % w = 0
      BY <1>2, <3>1, PlaceInPart, Zenon
    <3> QED BY <3>1, <3>2, Zenon
  <2>2. iMCU < t - 1 \/ 0 + yoffset < lastrow
    <3>1. 0 \in 0 .. h - 1 /\ 0 + yoffset = yoffset
      BY <1>2, <1>6
    <3> QED BY <1>4, <3>1, Zenon
  <2>3. 0 < (IF xoffset < per - 1 THEN w ELSE last)
    BY <1>2, <1>3
  <2> QED BY <1>7, <2>1, <2>2, <2>3, Zenon
<1>15. ASSUME NEW k \in 1 .. n
       PROVE  HoldsBlock(Found(k), embedded, ci, MCURow(cis, ci, m, k), MCUCol(cis, ci, m, k))
  BY <1>9, <1>13, Zenon
<1> DEFINE part == PartOut(cis, as, yoffset, xoffset, ci)
           real == [b \in 1 .. n |-> Real(b)]
           found == [b \in 1 .. n |-> Found(b)]
<1>16. IsPadded(part, n, real, found)
  BY <1>11, <1>14, PartOutIsPadded DEF Real, Found, n
<1>17. 1 \in 1 .. n
  BY <1>11
<1>18. \A b \in 1 .. n : (real[b] <=> Real(b)) /\ found[b] = Found(b)
  BY Zenon
<1>19. real[1]
  BY <1>14, <1>17, Zenon
<1> HIDE DEF real, found, part
<1>20. \A b \in 1 .. n : real[b] => found[b] \in AnyBlock
  BY <1>15, <1>18, Zenon DEF HoldsBlock
<1>21. /\ IsOfLength(part, n)
       /\ \A b \in 1 .. n : part[b] \in AnyBlock /\ (real[b] => part[b] = found[b])
  BY <1>11, <1>16, <1>19, <1>20, PaddedBlocksAreBlocks
<1>22. ASSUME NEW k \in 1 .. n
       PROVE  HoldsBlock(part[k], embedded, ci, MCURow(cis, ci, m, k), MCUCol(cis, ci, m, k))
  <2>1. part[k] \in AnyBlock
    BY <1>21
  <2>2. ASSUME IsInImage(ci, MCURow(cis, ci, m, k), MCUCol(cis, ci, m, k))
        PROVE  part[k] = Found(k)
    BY <2>2, <1>13, <1>18, <1>21, Zenon
  <2>3. HoldsBlock(Found(k), embedded, ci, MCURow(cis, ci, m, k), MCUCol(cis, ci, m, k))
    BY <1>15
  <2> QED BY <2>1, <2>2, <2>3, Zenon DEF HoldsBlock
<1> QED BY <1>21, <1>22, Zenon DEF HoldsPart, part, n

LEMMA MCUOutHolds ==
  ASSUME layout \in Layouts, NEW cis, IsScan(cis),
         iMCU \in 0 .. TotaliMCURows - 1,
         NEW yoffset \in 0 .. MCURowsPeriMCURow(cis, iMCU) - 1,
         NEW xoffset \in 0 .. MCUsPerRow(cis) - 1,
         NEW m, m = (FirstMCURow(cis, cis[1], iMCU) + yoffset) * MCUsPerRow(cis) + xoffset + 1,
         NEW as, NEW embedded, \A ci \in Comps : ShowsStrip(as[ci], ci, embedded)
  PROVE  HoldsMCU(cis, m, MCUOut(cis, as, yoffset, xoffset), embedded)
<1> DEFINE parts == [i \in DOMAIN cis |-> PartOut(cis, as, yoffset, xoffset, cis[i])]
<1>1. /\ DOMAIN cis = 1 .. Len(cis)
      /\ \A j \in DOMAIN cis : cis[j] \in Comps
      /\ ~Interleaved(cis) => DOMAIN cis = {1}
  BY SizesOfAScan
<1>2. ASSUME NEW j \in DOMAIN cis
      PROVE  HoldsPart(cis, cis[j], m, PartOut(cis, as, yoffset, xoffset, cis[j]), embedded)
  <2>1. FirstMCURow(cis, cis[j], iMCU) = FirstMCURow(cis, cis[1], iMCU)
    <3>1. ~Interleaved(cis) => j = 1
      BY <1>1
    <3> QED BY <3>1, Zenon DEF FirstMCURow
  <2>2. m = (FirstMCURow(cis, cis[j], iMCU) + yoffset) * MCUsPerRow(cis) + xoffset + 1
    BY <2>1, Zenon
  <2>3. ShowsStrip(as[cis[j]], cis[j], embedded)
    BY <1>1
  <2> QED BY <2>2, <2>3, PartOutHolds, Zenon
<1>3. \A j \in DOMAIN cis : parts[j] = PartOut(cis, as, yoffset, xoffset, cis[j])
  BY Zenon
<1>4. IsOfLength(parts, Len(cis))
  <2>1. parts = [i \in DOMAIN cis |-> parts[i]]
    BY Zenon
  <2> QED BY <1>1, <2>1, Zenon DEF IsOfLength
<1>5. MCUOut(cis, as, yoffset, xoffset) = FlattenSeq(parts)
  BY MCUOutIsOfParts, Zenon
<1> HIDE DEF parts
<1>6. HoldsParts(cis, m, parts, embedded)
  BY <1>2, <1>3, <1>4, Zenon DEF HoldsParts, HoldsPart
<1> QED BY <1>5, <1>6, AssembledMCUHolds, Zenon

-----------------------------------------------------------------------------
(***************************************************************************)
(* The arrays of the components                                            *)
(***************************************************************************)
RowContents(ci) == [0 .. ColsOf(ci) - 1 -> AnyBlock]
Kind(ci) ==
  [rows |-> RowsOf(ci), access |-> AccessRows(ci), heights |-> room,
   contents |-> RowContents(ci), zero |-> ZeroRow(ci)]

LEMMA KindOfAComponent ==
  ASSUME layout \in Layouts, room \in MinHeights, NEW ci \in Comps
  PROVE  /\ IsKind(Kind(ci))
         /\ Kind(ci).rows = RowsOf(ci) /\ Kind(ci).access = AccessRows(ci)
         /\ Kind(ci).heights = room
         /\ Kind(ci).contents = RowContents(ci) /\ Kind(ci).zero = ZeroRow(ci)
         /\ RowsOf(ci) \in Nat \ {0} /\ ColsOf(ci) \in Nat \ {0}
<1>1. RowsOf(ci) \in Nat \ {0} /\ ColsOf(ci) \in Nat \ {0} /\ AccessRows(ci) \in Nat \ {0}
  <2>1. /\ Across \in Nat \ {0} /\ HSamp(ci) \in Nat \ {0} /\ ColsOf(ci) = Across * HSamp(ci)
        /\ TotaliMCURows \in Nat \ {0} /\ VSamp(ci) \in Nat \ {0}
        /\ RowsOf(ci) = TotaliMCURows * VSamp(ci) /\ AccessRows(ci) \in Nat \ {0}
    BY SizesOfAnImage, Zenon DEF RowsOf, ColsOf
  <2>2. \A m, n \in Nat \ {0} : m * n \in Nat \ {0}
    OBVIOUS
  <2> QED BY <2>1, <2>2, Zenon
<1>2. room \in Nat \ {0}
  BY GeometryAssumption
<1>3. ZeroRow(ci) \in RowContents(ci)
  BY BlocksAreBlocks DEF ZeroRow, RowContents, ColsOf
<1> QED BY <1>1, <1>2, <1>3 DEF Kind, IsKind

\* The first n rows of a component's array are there, the first w of them with the
\* message in them.
HoldsRow(ci, contents, r, w) ==
  \A col \in 0 .. ColsOf(ci) - 1 : HoldsBlock(contents[col], r < w, ci, r, col)
HoldsArray(ci, a, n, w) ==
  /\ Good(Kind(ci), a) /\ a.error = "none" /\ n <= a.first_undef_row
  /\ \A r \in 0 .. n - 1 : HoldsRow(ci, Row(a, r, ZeroRow(ci)), r, w)

IsOpen(ci, a, n, w, start, end) ==
  /\ HoldsArray(ci, a, n, w) /\ Within(a, start, end)
  /\ \A r \in start .. end - 1 :
       RowAt(a, r) \in RowContents(ci) /\ (r < n => HoldsRow(ci, RowAt(a, r), r, w))

LEMMA RowIsInTheArray ==
  ASSUME NEW k, IsKind(k), NEW a, Good(k, a), NEW start \in Nat, NEW end \in Nat,
         Within(a, start, end), NEW r \in start .. end - 1
  PROVE  RowAt(a, r) \in k.contents
<1>1. /\ MemRows(k) \in Nat /\ a.rows_in_mem = MemRows(k) /\ a.cur_start_row \in Nat
      /\ a.mem_buffer \in [0 .. MemRows(k) - 1 -> k.contents]
  BY WindowIsLargeEnough DEF Good, Control
<1>2. r - a.cur_start_row \in 0 .. MemRows(k) - 1
  BY <1>1 DEF Within
<1> QED BY <1>1, <1>2 DEF RowAt

MayAccess(ci, a, n, w, start, end, writable) ==
  /\ n \in Nat /\ n <= RowsOf(ci) /\ HoldsArray(ci, a, n, w)
  /\ start \in Nat /\ end \in Nat /\ start < end /\ end <= RowsOf(ci)
  /\ end - start <= AccessRows(ci) /\ (writable => start <= n)
IsGranted(ci, acc, n, w, start, end, writable) ==
  /\ acc.error = "none" /\ IsOpen(ci, acc, n, w, start, end)
  /\ writable => acc.dirty /\ end <= acc.first_undef_row

LEMMA AccessKeepsTheRows ==
  ASSUME layout \in Layouts, room \in MinHeights, NEW ci \in Comps,
         NEW a, NEW n, NEW w, NEW start, NEW end, NEW writable \in BOOLEAN,
         MayAccess(ci, a, n, w, start, end, writable)
  PROVE  IsGranted(ci, Accessed(a, start, end, writable, ZeroRow(ci)), n, w, start, end, writable)
<1> DEFINE acc == Accessed(a, start, end, writable, ZeroRow(ci))
<1>0. /\ n \in Nat /\ n <= RowsOf(ci) /\ HoldsArray(ci, a, n, w)
      /\ start \in Nat /\ end \in Nat /\ start < end /\ end <= RowsOf(ci)
      /\ end - start <= AccessRows(ci) /\ (writable => start <= n)
  BY DEF MayAccess
<1> DEFINE k == Kind(ci)
<1>1. /\ IsKind(k) /\ k.rows = RowsOf(ci) /\ k.access = AccessRows(ci)
      /\ k.contents = RowContents(ci) /\ k.zero = ZeroRow(ci) /\ RowsOf(ci) \in Nat
  BY KindOfAComponent
<1>2. /\ Good(k, a) /\ a.error = "none" /\ n <= a.first_undef_row
      /\ \A r \in 0 .. n - 1 : HoldsRow(ci, Row(a, r, k.zero), r, w)
  BY <1>0, <1>1, Zenon DEF HoldsArray
<1> HIDE DEF k
<1>3. a.first_undef_row \in Nat
  BY <1>1, <1>2 DEF Good, Control
<1>4. IsAccessed(k, a, acc, start, end, writable)
  <2>1. writable => start <= a.first_undef_row
    BY <1>0, <1>2, <1>3
  <2>2. IsAccessed(k, a, Accessed(a, start, end, writable, k.zero), start, end, writable)
    BY <1>0, <1>1, <1>2, <2>1, AccessIsGranted
  <2> QED BY <1>1, <2>2, Zenon
<1> HIDE DEF acc
<1>5. /\ Good(k, acc) /\ Within(acc, start, end) /\ acc.error = "none"
      /\ writable => acc.dirty /\ end <= acc.first_undef_row
      /\ a.first_undef_row <= acc.first_undef_row
      /\ \A r \in 0 .. RowsOf(ci) - 1 : Row(acc, r, k.zero) = Row(a, r, k.zero)
      /\ \A r \in start .. end - 1 : RowAt(acc, r) = Row(a, r, k.zero)
  BY <1>1, <1>2, <1>4, Zenon DEF IsAccessed
<1>6. acc.first_undef_row \in Nat
  BY <1>1, <1>5 DEF Good, Control
<1>7. n <= acc.first_undef_row
  BY <1>0, <1>2, <1>3, <1>5, <1>6
<1>8. \A r \in 0 .. n - 1 : r \in 0 .. RowsOf(ci) - 1
  BY <1>0, <1>1
<1>9. \A r \in 0 .. n - 1 : HoldsRow(ci, Row(acc, r, k.zero), r, w)
  BY <1>2, <1>5, <1>8, Zenon
<1>10. HoldsArray(ci, acc, n, w)
  BY <1>1, <1>5, <1>7, <1>9, Zenon DEF HoldsArray, k
<1>11. ASSUME NEW r \in start .. end - 1
       PROVE  RowAt(acc, r) \in RowContents(ci) /\ (r < n => HoldsRow(ci, RowAt(acc, r), r, w))
  <2>1. RowAt(acc, r) \in RowContents(ci)
    <3>1. RowAt(acc, r) \in k.contents
      BY <1>0, <1>1, <1>5, RowIsInTheArray
    <3> QED BY <1>1, <3>1, Zenon
  <2>2. r < n => r \in 0 .. n - 1
    BY <1>0
  <2> QED BY <1>2, <1>5, <2>1, <2>2, Zenon
<1> QED BY <1>5, <1>10, <1>11, Zenon DEF IsOpen, IsGranted, acc

MayStore(ci, a, n, w, start, end, contents, n2, w2) ==
  /\ n \in Nat /\ n <= RowsOf(ci)
  /\ start \in Nat /\ end \in Nat /\ start < end /\ end <= RowsOf(ci) /\ start <= n
  /\ IsGranted(ci, a, n, w, start, end, TRUE)
  /\ contents = [r \in start .. end - 1 |-> contents[r]]
  /\ \A r \in start .. end - 1 :
       contents[r] \in RowContents(ci) /\ HoldsRow(ci, contents[r], r, w2)
  /\ \A r \in 0 .. n - 1 : r \notin start .. end - 1 => (r < w <=> r < w2)
  /\ n2 \in {n, end} /\ n <= n2 /\ n2 <= a.first_undef_row

LEMMA StoreKeepsTheRows ==
  ASSUME layout \in Layouts, room \in MinHeights, NEW ci \in Comps,
         NEW a, NEW n, NEW w, NEW start, NEW end, NEW contents, NEW n2, NEW w2,
         MayStore(ci, a, n, w, start, end, contents, n2, w2)
  PROVE  HoldsArray(ci, Stored(a, contents), n2, w2)
<1>0. /\ n \in Nat /\ n <= RowsOf(ci)
      /\ start \in Nat /\ end \in Nat /\ start < end /\ end <= RowsOf(ci) /\ start <= n
      /\ IsOpen(ci, a, n, w, start, end) /\ a.dirty /\ end <= a.first_undef_row
      /\ contents = [r \in start .. end - 1 |-> contents[r]]
      /\ \A r \in start .. end - 1 :
           contents[r] \in RowContents(ci) /\ HoldsRow(ci, contents[r], r, w2)
      /\ \A r \in 0 .. n - 1 : r \notin start .. end - 1 => (r < w <=> r < w2)
      /\ n2 \in {n, end} /\ n <= n2 /\ n2 <= a.first_undef_row
  BY Zenon DEF MayStore, IsGranted
<1> DEFINE k == Kind(ci)
           b == Stored(a, contents)
<1>1. /\ IsKind(k) /\ k.rows = RowsOf(ci)
      /\ k.contents = RowContents(ci) /\ k.zero = ZeroRow(ci) /\ RowsOf(ci) \in Nat
  BY KindOfAComponent
<1>2. /\ Good(k, a) /\ Within(a, start, end) /\ a.error = "none"
      /\ \A r \in 0 .. n - 1 : HoldsRow(ci, Row(a, r, k.zero), r, w)
  BY <1>0, <1>1, Zenon DEF HoldsArray, IsOpen
<1> HIDE DEF k
<1>3. start \in 0 .. k.rows /\ end \in 0 .. k.rows
  BY <1>0, <1>1
<1>4. contents \in [start .. end - 1 -> k.contents]
  BY <1>0, <1>1
<1>5. IsStored(k, a, b, contents)
  BY <1>0, <1>1, <1>2, <1>3, <1>4, StoredRowsAreTheCallers, Zenon
<1> HIDE DEF b
<1>6. DOMAIN contents = start .. end - 1
  BY <1>0
<1>7. /\ Good(k, b) /\ b.error = "none" /\ b.first_undef_row = a.first_undef_row
      /\ \A r \in 0 .. RowsOf(ci) - 1 :
           Row(b, r, k.zero) = IF r \in start .. end - 1 THEN contents[r] ELSE Row(a, r, k.zero)
  BY <1>1, <1>2, <1>5, <1>6, Zenon DEF IsStored
<1>8. ASSUME NEW r \in 0 .. n2 - 1
      PROVE  HoldsRow(ci, Row(b, r, k.zero), r, w2)
  <2>1. r \in 0 .. RowsOf(ci) - 1 /\ (r \notin start .. end - 1 => r \in 0 .. n - 1)
    BY <1>0, <1>1
  <2>2. CASE r \in start .. end - 1
    <3>1. Row(b, r, k.zero) = contents[r]
      BY <1>7, <2>1, <2>2, Zenon
    <3> QED BY <1>0, <2>2, <3>1, Zenon
  <2>3. CASE r \notin start .. end - 1
    <3>1. Row(b, r, k.zero) = Row(a, r, k.zero) /\ r \in 0 .. n - 1
      BY <1>7, <2>1, <2>3, Zenon
    <3>2. r < w <=> r < w2
      BY <1>0, <2>3, <3>1, Zenon
    <3>3. HoldsRow(ci, Row(a, r, k.zero), r, w)
      BY <1>2, <3>1, Zenon
    <3> HIDE DEF b
    <3>4. ASSUME NEW col \in 0 .. ColsOf(ci) - 1
          PROVE  HoldsBlock(Row(a, r, k.zero)[col], r < w2, ci, r, col)
      <4>1. HoldsBlock(Row(a, r, k.zero)[col], r < w, ci, r, col)
        BY <3>3, Zenon DEF HoldsRow
      <4> QED BY <3>2, <4>1, Zenon DEF HoldsBlock, TheBlock
    <3> QED BY <3>1, <3>4, Zenon DEF HoldsRow
  <2> QED BY <2>2, <2>3
<1>9. n2 <= b.first_undef_row
  BY <1>0, <1>7, Zenon
<1> QED BY <1>1, <1>7, <1>8, <1>9, Zenon DEF HoldsArray, k, b

-----------------------------------------------------------------------------
\* consume_data: the strips of a component.
MayRead(cis, j, ci, embedded, w, a, mcus, acc, strip) ==
  /\ layout \in Layouts /\ room \in MinHeights
  /\ IsScan(cis) /\ j \in DOMAIN cis /\ ci = cis[j] /\ iMCU \in 0 .. TotaliMCURows - 1
  /\ embedded \in BOOLEAN /\ w = IF embedded THEN RowsOf(ci) ELSE 0
  /\ HoldsArray(ci, a, iMCU * VSamp(ci), w) /\ HoldsMCUs(cis, mcus, embedded)
  /\ acc = Accessed(a, iMCU * VSamp(ci), (iMCU + 1) * VSamp(ci), TRUE, ZeroRow(ci))
  /\ strip = [r \in iMCU * VSamp(ci) .. (iMCU + 1) * VSamp(ci) - 1 |->
               [col \in DOMAIN RowAt(acc, r) |->
                 BlockRead(cis, mcus, j, r - iMCU * VSamp(ci), col, RowAt(acc, r)[col])]]

LEMMA StripIsRead ==
  ASSUME NEW cis, NEW j, NEW ci, NEW embedded, NEW w, NEW a, NEW mcus, NEW acc, NEW strip,
         MayRead(cis, j, ci, embedded, w, a, mcus, acc, strip)
  PROVE  /\ acc.error = "none"
         /\ HoldsArray(ci, Stored(acc, strip), (iMCU + 1) * VSamp(ci), w)
<1> USE DEF MayRead
<1> DEFINE v == VSamp(ci)
           start == iMCU * v
           end == (iMCU + 1) * v
           cols == ColsOf(ci)
<1>1. ci \in Comps
  BY SizesOfAScan
<1>2. /\ v \in Nat \ {0} /\ TotaliMCURows \in Nat \ {0} /\ v <= AccessRows(ci) /\ AccessRows(ci) \in Nat
      /\ RowsOf(ci) = TotaliMCURows * v
  BY <1>1, SizesOfAnImage DEF RowsOf
<1>3. /\ start \in Nat /\ end = start + v /\ end \in Nat /\ end <= RowsOf(ci) /\ RowsOf(ci) \in Nat
  <2>1. iMCU \in Nat /\ iMCU + 1 \in Nat /\ iMCU + 1 <= TotaliMCURows /\ TotaliMCURows \in Nat
    BY <1>2
  <2>2. start \in Nat /\ end = start + v /\ end <= TotaliMCURows * v /\ TotaliMCURows * v \in Nat
    BY <1>2, <2>1, Products, ProductsGrow
  <2> QED BY <1>2, <2>2
<1>4. acc = Accessed(a, start, end, TRUE, ZeroRow(ci))
  OBVIOUS
<1>5. strip = [r \in start .. end - 1 |->
                [col \in DOMAIN RowAt(acc, r) |->
                  BlockRead(cis, mcus, j, r - start, col, RowAt(acc, r)[col])]]
  BY Zenon
<1>6. HoldsArray(ci, a, start, w)
  OBVIOUS
<1>7. ASSUME NEW r \in start .. end - 1, NEW col \in 0 .. cols - 1, NEW old \in AnyBlock
      PROVE  HoldsBlock(BlockRead(cis, mcus, j, r - start, col, old), embedded, ci, r, col)
  <2> DEFINE y == r - start
  <2>1. y \in 0 .. v - 1 /\ start + y = r
    <3> HIDE DEF v, start, end
    <3> QED BY <1>2, <1>3
  <2> HIDE DEF y
  <2>2. r = iMCU * VSamp(ci) + y
    BY <2>1, Zenon
  <2>3. HoldsBlock(BlockRead(cis, mcus, j, y, col, old), embedded, ci, r, col)
    BY <2>1, <2>2, BlockIsRead, Zenon
  <2> QED BY <2>3 DEF y
<1>12. ASSUME NEW r \in start .. end - 1
       PROVE  embedded <=> r < w
  BY <1>3
<1> HIDE DEF v, start, end, cols
<1>8. /\ acc.error = "none" /\ IsOpen(ci, acc, start, w, start, end)
      /\ acc.dirty /\ end <= acc.first_undef_row
  <2>1. start <= RowsOf(ci) /\ start < end /\ end - start <= AccessRows(ci) /\ start <= start
    BY <1>2, <1>3
  <2>2. MayAccess(ci, a, start, w, start, end, TRUE)
    BY <1>3, <1>6, <2>1, Zenon DEF MayAccess
  <2>3. IsGranted(ci, acc, start, w, start, end, TRUE)
    BY <1>1, <1>4, <2>2, AccessKeepsTheRows
  <2> QED BY <2>3, Zenon DEF IsGranted
<1>9. ASSUME NEW r \in start .. end - 1
      PROVE  strip[r] \in RowContents(ci) /\ HoldsRow(ci, strip[r], r, w)
  <2>1. strip[r] = [col \in DOMAIN RowAt(acc, r) |->
                     BlockRead(cis, mcus, j, r - start, col, RowAt(acc, r)[col])]
    BY <1>5, Zenon
  <2>2. RowAt(acc, r) \in RowContents(ci)
    BY <1>8, Zenon DEF IsOpen
  <2>3. DOMAIN RowAt(acc, r) = 0 .. cols - 1 /\ \A col \in 0 .. cols - 1 : RowAt(acc, r)[col] \in AnyBlock
    BY <2>2 DEF RowContents, cols
  <2>4. strip[r] = [col \in 0 .. cols - 1 |->
                     BlockRead(cis, mcus, j, r - start, col, RowAt(acc, r)[col])]
    BY <2>1, <2>3, Zenon
  <2>5. ASSUME NEW col \in 0 .. cols - 1
        PROVE  HoldsBlock(strip[r][col], embedded, ci, r, col)
    <3>1. strip[r][col] = BlockRead(cis, mcus, j, r - start, col, RowAt(acc, r)[col])
      BY <2>4, Zenon
    <3>2. RowAt(acc, r)[col] \in AnyBlock
      BY <2>3
    <3> QED BY <1>7, <3>1, <3>2, Zenon
  <2>6. strip[r] \in [0 .. cols - 1 -> AnyBlock]
    <3>1. ASSUME NEW col \in 0 .. cols - 1
          PROVE  BlockRead(cis, mcus, j, r - start, col, RowAt(acc, r)[col]) \in AnyBlock
      <4>1. RowAt(acc, r)[col] \in AnyBlock
        BY <2>3
      <4> QED BY <1>7, <4>1, Zenon DEF HoldsBlock
    <3>2. [col \in 0 .. cols - 1 |->
             BlockRead(cis, mcus, j, r - start, col, RowAt(acc, r)[col])] \in [0 .. cols - 1 -> AnyBlock]
      BY <3>1, Zenon
    <3> QED BY <2>4, <3>2, Zenon
  <2>7. ASSUME NEW col \in 0 .. cols - 1
        PROVE  HoldsBlock(strip[r][col], r < w, ci, r, col)
    <3>1. embedded <=> r < w
      BY <1>12
    <3> QED BY <2>5, <3>1, Zenon DEF HoldsBlock, TheBlock
  <2> QED BY <2>6, <2>7, Zenon DEF RowContents, HoldsRow, cols
<1>10. strip = [r \in start .. end - 1 |-> strip[r]]
  BY <1>5
<1>11. HoldsArray(ci, Stored(acc, strip), end, w)
  <2>1. start <= RowsOf(ci) /\ start < end /\ start <= start /\ start <= end /\ end \in {start, end}
    BY <1>2, <1>3
  <2>2. \A r \in 0 .. start - 1 : r \notin start .. end - 1 => (r < w <=> r < w)
    OBVIOUS
  <2>3. IsGranted(ci, acc, start, w, start, end, TRUE)
    BY <1>8, Zenon DEF IsGranted
  <2>4. MayStore(ci, acc, start, w, start, end, strip, end, w)
    BY <1>3, <1>8, <1>9, <1>10, <2>1, <2>2, <2>3, Zenon DEF MayStore
  <2> QED BY <1>1, <2>4, StoreKeepsTheRows
<1> QED BY <1>8, <1>11 DEF end, v

\* The rows that are there can be seen.
MaySee(ci, a, n, w, start, end, acc) ==
  /\ n \in Nat /\ n <= RowsOf(ci) /\ HoldsArray(ci, a, n, w)
  /\ start \in Nat /\ end \in Nat /\ start < end /\ end <= n /\ end - start <= AccessRows(ci)
  /\ acc = Accessed(a, start, end, FALSE, ZeroRow(ci))

LEMMA RowsAreShown ==
  ASSUME layout \in Layouts, room \in MinHeights, NEW ci \in Comps,
         NEW a, NEW n, NEW w, NEW start, NEW end, NEW acc, MaySee(ci, a, n, w, start, end, acc)
  PROVE  /\ acc.error = "none" /\ HoldsArray(ci, acc, n, w)
         /\ \A r \in start .. end - 1 : HoldsRow(ci, RowAt(acc, r), r, w)
<1> USE DEF MaySee
<1>1. end <= RowsOf(ci) /\ \A r \in start .. end - 1 : r < n
  BY KindOfAComponent
<1>2. MayAccess(ci, a, n, w, start, end, FALSE)
  BY <1>1, Zenon DEF MayAccess
<1>3. IsGranted(ci, acc, n, w, start, end, FALSE)
  BY <1>2, AccessKeepsTheRows
<1> QED BY <1>1, <1>3, Zenon DEF IsOpen, IsGranted

-----------------------------------------------------------------------------
\* The blocks of the other components do not have the message in them.
LEMMA OnlyTheFirstIsWet ==
  ASSUME NEW ci, ci # 1, NEW row, NEW col
  PROVE  TheBlock(TRUE, ci, row, col) = TheBlock(FALSE, ci, row, col)
BY DEF TheBlock, WetBlock, ABlock

LEMMA WetRowsAreTheSame ==
  ASSUME NEW ci, NEW a, NEW n, NEW w, HoldsArray(ci, a, n, w), NEW w2,
         \A r \in 0 .. n - 1 : (r < w <=> r < w2) \/ ci # 1 \/ ~(r < HeightInBlocks(ci))
  PROVE  HoldsArray(ci, a, n, w2)
<1>1. ASSUME NEW r \in 0 .. n - 1, NEW contents, HoldsRow(ci, contents, r, w)
      PROVE  HoldsRow(ci, contents, r, w2)
  <2>1. ASSUME NEW col \in 0 .. ColsOf(ci) - 1
        PROVE  HoldsBlock(contents[col], r < w2, ci, r, col)
    <3>1. HoldsBlock(contents[col], r < w, ci, r, col)
      BY <1>1, Zenon DEF HoldsRow
    <3>2. contents[col] \in AnyBlock
      BY <3>1, Zenon DEF HoldsBlock
    <3>3. ASSUME IsInImage(ci, r, col)
          PROVE  contents[col] = TheBlock(r < w2, ci, r, col)
      <4>1. contents[col] = TheBlock(r < w, ci, r, col)
        BY <3>1, <3>3, Zenon DEF HoldsBlock
      <4>2. (r < w <=> r < w2) \/ ci # 1
        BY <3>3, Zenon DEF IsInImage
      <4>3. CASE r < w <=> r < w2
        BY <4>1, <4>3, Zenon DEF TheBlock
      <4>4. CASE ci # 1
        <5>1. WetBlock(ci, r, col) = ABlock(ci, r, col)
          BY <4>4, OnlyTheFirstIsWet DEF TheBlock
        <5> QED BY <4>1, <5>1, Zenon DEF TheBlock
      <4> QED BY <4>2, <4>3, <4>4
    <3> QED BY <3>2, <3>3, Zenon DEF HoldsBlock
  <2> QED BY <2>1, Zenon DEF HoldsRow
<1> QED BY <1>1, Zenon DEF HoldsArray

-----------------------------------------------------------------------------
(***************************************************************************)
(* The collection                                                          *)
(***************************************************************************)
\* The blocks of the first n rows of the first component, row by row.
InOrderTo(n, embedded) ==
  [k \in 1 .. n * WidthInBlocks(1) |->
    TheBlock(embedded, 1, (k - 1) \div WidthInBlocks(1), (k - 1) % WidthInBlocks(1))]

LEMMA BlockInOrder ==
  ASSUME layout \in Layouts, NEW n \in Nat, NEW i \in 0 .. n - 1, NEW c \in 1 .. WidthInBlocks(1),
         NEW embedded
  PROVE  /\ i * WidthInBlocks(1) + c \in 1 .. n * WidthInBlocks(1)
         /\ InOrderTo(n, embedded)[i * WidthInBlocks(1) + c] = TheBlock(embedded, 1, i, c - 1)
<1> DEFINE wb == WidthInBlocks(1)
           k == i * wb + c
<1>1. wb \in Nat \ {0}
  BY SizesOfAnImage
<1>2. InOrderTo(n, embedded) = [j \in 1 .. n * wb |-> TheBlock(embedded, 1, (j - 1) \div wb, (j - 1) % wb)]
  BY Zenon DEF InOrderTo
<1>3. c \in 1 .. wb
  OBVIOUS
<1> HIDE DEF wb
<1>4. i \in Nat /\ c - 1 \in 0 .. wb - 1 /\ i < n
  BY <1>1, <1>3
<1>5. i * wb + (c - 1) < n * wb /\ i * wb + (c - 1) \in Nat /\ n * wb \in Nat /\ i * wb \in Nat
  BY <1>1, <1>4, PartsAreInOrder, Products
<1>6. k \in 1 .. n * wb /\ k - 1 = i * wb + (c - 1)
  BY <1>3, <1>5
<1>7. (k - 1) \div wb = i /\ (k - 1) % wb = c - 1
  <2> HIDE DEF k
  <2>1. (i * wb + (c - 1)) \div wb = i /\ (i * wb + (c - 1)) % wb = c - 1
    BY <1>1, <1>4, PlaceInPart, Zenon
  <2> QED BY <1>6, <2>1, Zenon
<1> HIDE DEF k
<1>8. InOrderTo(n, embedded)[k] = TheBlock(embedded, 1, i, c - 1)
  BY <1>2, <1>6, <1>7, Zenon
<1> QED BY <1>6, <1>8 DEF k, wb

\* LoadDCT_Coefficients
LEMMA RowIsLoaded ==
  ASSUME layout \in Layouts, NEW i \in 0 .. HeightInBlocks(1) - 1, NEW embedded,
         NEW contents,
         \A col \in 0 .. WidthInBlocks(1) - 1 : contents[col] = TheBlock(embedded, 1, i, col)
  PROVE  InOrderTo(i, embedded) \o [c \in 1 .. WidthInBlocks(1) |-> contents[c - 1]]
           = InOrderTo(i + 1, embedded)
<1> DEFINE wb == WidthInBlocks(1)
           next == i + 1
           s == InOrderTo(i, embedded)
           t == [c \in 1 .. wb |-> contents[c - 1]]
           u == InOrderTo(next, embedded)
<1>1. wb \in Nat \ {0} /\ HeightInBlocks(1) \in Nat
  BY SizesOfAnImage
<1>2. /\ s = [j \in 1 .. i * wb |-> TheBlock(embedded, 1, (j - 1) \div wb, (j - 1) % wb)]
      /\ u = [j \in 1 .. next * wb |-> TheBlock(embedded, 1, (j - 1) \div wb, (j - 1) % wb)]
  BY Zenon DEF InOrderTo
<1>3. i \in Nat /\ next \in Nat /\ i \in 0 .. next - 1
  BY <1>1
<1>4. next * wb = i * wb + wb /\ i * wb \in Nat
  <2> HIDE DEF wb
  <2> QED BY <1>1, <1>3, Products
<1>5. \A c \in 1 .. wb : u[i * wb + c] = TheBlock(embedded, 1, i, c - 1)
  <2> HIDE DEF next, wb
  <2>1. \A c \in 1 .. wb : c \in 1 .. WidthInBlocks(1)
    BY DEF wb
  <2> QED BY <1>3, <2>1, BlockInOrder, Zenon DEF wb
<1>6. \A c \in 1 .. wb : t[c] = TheBlock(embedded, 1, i, c - 1)
  BY <1>1
<1>7. IsOfLength(t, wb)
  BY DEF IsOfLength
<1> HIDE DEF wb, next, s, t, u
<1>8. IsOfLength(s, i * wb) /\ IsOfLength(u, i * wb + wb)
  BY <1>2, <1>4 DEF IsOfLength
<1>9. AreJoined(s, i * wb, t, wb, s \o t)
  BY <1>1, <1>4, <1>7, <1>8, Joined
<1> DEFINE st == s \o t
<1> HIDE DEF st
<1>10. /\ IsOfLength(st, i * wb + wb)
       /\ \A k \in 1 .. i * wb : st[k] = s[k]
       /\ \A c \in 1 .. wb : st[i * wb + c] = t[c]
  BY <1>9, Zenon DEF AreJoined, st
<1>11. ASSUME NEW k \in 1 .. i * wb + wb
       PROVE  st[k] = u[k]
  <2>1. CASE k <= i * wb
    <3>1. k \in 1 .. i * wb /\ k \in 1 .. next * wb
      BY <1>1, <1>4, <2>1
    <3>2. s[k] = u[k]
      BY <1>2, <3>1, Zenon
    <3> QED BY <1>10, <3>1, <3>2, Zenon
  <2>2. CASE ~(k <= i * wb)
    <3>1. k - i * wb \in 1 .. wb /\ i * wb + (k - i * wb) = k
      BY <1>1, <1>4, <2>2
    <3>2. st[i * wb + (k - i * wb)] = t[k - i * wb] /\ u[i * wb + (k - i * wb)] = t[k - i * wb]
      BY <1>5, <1>6, <1>10, <3>1, Zenon
    <3> QED BY <3>1, <3>2, Zenon
  <2> QED BY <2>1, <2>2
<1>12. st = u
  <2>1. [k \in 1 .. i * wb + wb |-> st[k]] = [k \in 1 .. i * wb + wb |-> u[k]]
    BY <1>11, Zenon
  <2> QED BY <1>8, <1>10, <2>1, Zenon DEF IsOfLength
<1> QED BY <1>12 DEF st, s, t, u, wb, next

-----------------------------------------------------------------------------
LEMMA ImageFitsTheArray ==
  ASSUME layout \in Layouts, NEW ci \in Comps
  PROVE  /\ HeightInBlocks(ci) \in Nat \ {0} /\ HeightInBlocks(ci) <= RowsOf(ci) /\ RowsOf(ci) \in Nat
         /\ WidthInBlocks(ci) \in Nat \ {0} /\ WidthInBlocks(ci) <= ColsOf(ci) /\ ColsOf(ci) \in Nat
<1>1. ASSUME NEW a \in Nat \ {0}, NEW s \in Nat \ {0}, NEW left \in 1 .. s,
             NEW n, n = (a - 1) * s + left
      PROVE  n <= a * s /\ a * s \in Nat
  <2>1. a - 1 \in Nat /\ a - 1 + 1 = a
    OBVIOUS
  <2>2. a * s = (a - 1) * s + s /\ (a - 1) * s \in Nat
    BY <2>1, Products
  <2> QED BY <1>1, <2>2
<1> DEFINE a == Across
           t == TotaliMCURows
           hs == HSamp(ci)
           vs == VSamp(ci)
           hl == Left(WidthInBlocks(ci), hs)
           vl == Left(HeightInBlocks(ci), vs)
           wb == WidthInBlocks(ci)
           hb == HeightInBlocks(ci)
<1>2. /\ a \in Nat \ {0} /\ t \in Nat \ {0} /\ hs \in Nat \ {0} /\ vs \in Nat \ {0}
      /\ hl \in 1 .. hs /\ vl \in 1 .. vs /\ wb \in Nat \ {0} /\ hb \in Nat \ {0}
      /\ wb = (a - 1) * hs + hl /\ hb = (t - 1) * vs + vl
      /\ RowsOf(ci) = t * vs /\ ColsOf(ci) = a * hs
  BY SizesOfAnImage, Zenon DEF RowsOf, ColsOf
<1> HIDE DEF a, t, hs, vs, hl, vl, wb, hb
<1>3. wb <= a * hs /\ a * hs \in Nat
  BY <1>1, <1>2, Zenon
<1>4. hb <= t * vs /\ t * vs \in Nat
  BY <1>1, <1>2, Zenon
<1> QED BY <1>2, <1>3, <1>4, Zenon DEF wb, hb

\* SaveDCT_Coefficients
LEMMA RowIsSaved ==
  ASSUME layout \in Layouts, room \in MinHeights, NEW i \in 0 .. HeightInBlocks(1) - 1,
         NEW a, HoldsArray(1, a, RowsOf(1), i),
         NEW coefficients, coefficients = InOrderTo(HeightInBlocks(1), FALSE),
         NEW acc, acc = Accessed(a, i, i + 1, TRUE, ZeroRow(1)),
         NEW saved,
         saved = [r \in {i} |-> [col \in DOMAIN RowAt(acc, i) |->
                   IF col < WidthInBlocks(1)
                   THEN [coefficients[i * WidthInBlocks(1) + col + 1] EXCEPT !.ac = "wet"]
                   ELSE RowAt(acc, i)[col]]]
  PROVE  /\ acc.error = "none"
         /\ HoldsArray(1, Stored(acc, saved), RowsOf(1), i + 1)
<1> DEFINE wb == WidthInBlocks(1)
           hb == HeightInBlocks(1)
           rows == RowsOf(1)
           cols == ColsOf(1)
           next == i + 1
           contents == [col \in DOMAIN RowAt(acc, i) |->
                   IF col < wb
                   THEN [coefficients[i * wb + col + 1] EXCEPT !.ac = "wet"]
                   ELSE RowAt(acc, i)[col]]
<1>1. 1 \in Comps
  BY SizesOfAnImage
<1>2. /\ hb \in Nat \ {0} /\ hb <= rows /\ rows \in Nat
      /\ wb \in Nat \ {0} /\ wb <= cols /\ cols \in Nat
  BY <1>1, ImageFitsTheArray
<1>3. AccessRows(1) \in Nat \ {0}
  BY <1>1, SizesOfAnImage
<1>4. /\ i \in Nat /\ i < hb /\ next \in Nat /\ i < next /\ next <= rows /\ next - i = 1
      /\ i <= rows /\ i .. next - 1 = {i} /\ next = i + 1
  BY <1>2
<1>5. saved = [r \in {i} |-> contents]
  BY Zenon
<1> HIDE DEF wb, hb, rows, cols, next, contents
<1>6. IsGranted(1, acc, rows, i, i, next, TRUE)
  <2>1. next - i <= AccessRows(1) /\ rows <= rows
    BY <1>2, <1>3, <1>4
  <2>2. HoldsArray(1, a, rows, i) /\ acc = Accessed(a, i, next, TRUE, ZeroRow(1))
    BY DEF rows, next
  <2>3. MayAccess(1, a, rows, i, i, next, TRUE)
    BY <1>2, <1>4, <2>1, <2>2, Zenon DEF MayAccess, rows
  <2> QED BY <1>1, <2>2, <2>3, AccessKeepsTheRows
<1>7. RowAt(acc, i) \in RowContents(1) /\ rows <= acc.first_undef_row
  <2>1. IsOpen(1, acc, rows, i, i, next)
    BY <1>6, Zenon DEF IsGranted
  <2>2. i \in i .. next - 1
    BY <1>4
  <2> QED BY <2>1, <2>2, Zenon DEF IsOpen, HoldsArray
<1>8. DOMAIN RowAt(acc, i) = 0 .. cols - 1 /\ \A col \in 0 .. cols - 1 : RowAt(acc, i)[col] \in AnyBlock
  BY <1>7 DEF RowContents, cols
<1>9. contents = [col \in 0 .. cols - 1 |->
                   IF col < wb
                   THEN [coefficients[i * wb + col + 1] EXCEPT !.ac = "wet"]
                   ELSE RowAt(acc, i)[col]]
  BY <1>8, Zenon DEF contents
<1>10. ASSUME NEW col \in 0 .. cols - 1, col < wb
       PROVE  [coefficients[i * wb + col + 1] EXCEPT !.ac = "wet"] = WetBlock(1, i, col)
  <2>1. col + 1 \in 1 .. wb /\ col + 1 - 1 = col /\ i \in 0 .. hb - 1 /\ hb \in Nat
    BY <1>2, <1>4, <1>10
  <2>2. i * wb + col + 1 = i * wb + (col + 1)
    <3>1. i * wb \in Nat
      BY <1>2, <1>4, Products
    <3> QED BY <1>2, <3>1
  <2>3. coefficients[i * wb + (col + 1)] = TheBlock(FALSE, 1, i, col)
    <3> DEFINE c == col + 1
    <3>1. c \in 1 .. wb /\ c - 1 = col
      BY <2>1
    <3> HIDE DEF c
    <3>2. InOrderTo(hb, FALSE)[i * wb + c] = TheBlock(FALSE, 1, i, c - 1)
      BY <2>1, <3>1, BlockInOrder, Zenon DEF wb
    <3> QED BY <3>1, <3>2, Zenon DEF c, hb
  <2>4. coefficients[i * wb + col + 1] = ABlock(1, i, col)
    BY <2>2, <2>3, Zenon DEF TheBlock
  <2>5. [ABlock(1, i, col) EXCEPT !.ac = "wet"] = WetBlock(1, i, col)
    BY DEF ABlock, WetBlock
  <2> QED BY <2>4, <2>5, Zenon
<1>11. ASSUME NEW col \in 0 .. cols - 1
       PROVE  HoldsBlock(contents[col], i < next, 1, i, col)
  <2>1. contents[col] = IF col < wb
                   THEN [coefficients[i * wb + col + 1] EXCEPT !.ac = "wet"]
                   ELSE RowAt(acc, i)[col]
    BY <1>9, Zenon
  <2>2. CASE col < wb
    <3>1. contents[col] = WetBlock(1, i, col)
      BY <1>10, <2>1, <2>2, Zenon
    <3>2. 1 \in Nat /\ i \in Nat /\ col \in Nat
      BY <1>2, <1>4
    <3>3. contents[col] \in AnyBlock
      BY <3>1, <3>2, BlocksAreBlocks
    <3>4. contents[col] = TheBlock(i < next, 1, i, col)
      BY <1>4, <3>1, Zenon DEF TheBlock
    <3> QED BY <3>3, <3>4, Zenon DEF HoldsBlock
  <2>3. CASE ~(col < wb)
    <3>1. contents[col] \in AnyBlock
      BY <1>8, <2>1, <2>3, Zenon
    <3>2. ~IsInImage(1, i, col)
      BY <2>3, Zenon DEF IsInImage, wb
    <3> QED BY <3>1, <3>2, Zenon DEF HoldsBlock
  <2> QED BY <2>2, <2>3
<1>12. contents \in RowContents(1)
  <2>1. ASSUME NEW col \in 0 .. cols - 1
        PROVE  (IF col < wb
                   THEN [coefficients[i * wb + col + 1] EXCEPT !.ac = "wet"]
                   ELSE RowAt(acc, i)[col]) \in AnyBlock
    <3>1. contents[col] \in AnyBlock
      BY <1>11, Zenon DEF HoldsBlock
    <3> QED BY <1>9, <3>1, Zenon
  <2>2. contents \in [0 .. cols - 1 -> AnyBlock]
    BY <1>9, <2>1, Zenon
  <2> QED BY <2>2, Zenon DEF RowContents, cols
<1>13. HoldsRow(1, contents, i, next)
  BY <1>11, Zenon DEF HoldsRow, cols
<1>14. MayStore(1, acc, rows, i, i, next, saved, rows, next)
  <2>1. saved = [r \in i .. next - 1 |-> saved[r]]
    BY <1>4, <1>5
  <2>2. \A r \in i .. next - 1 : saved[r] \in RowContents(1) /\ HoldsRow(1, saved[r], r, next)
    <3>1. saved[i] = contents /\ \A r \in i .. next - 1 : r = i
      BY <1>4, <1>5
    <3> QED BY <1>12, <1>13, <3>1, Zenon
  <2>3. \A r \in 0 .. rows - 1 : r \notin i .. next - 1 => (r < i <=> r < next)
    BY <1>2, <1>4
  <2>4. rows \in {rows, next} /\ rows <= rows
    BY <1>2
  <2> QED BY <1>2, <1>4, <1>6, <1>7, <2>1, <2>2, <2>3, <2>4, Zenon DEF MayStore, rows
<1>15. HoldsArray(1, Stored(acc, saved), rows, next)
  BY <1>1, <1>14, StoreKeepsTheRows
<1> QED BY <1>6, <1>15, Zenon DEF IsGranted, rows, next

-----------------------------------------------------------------------------
(***************************************************************************)
(* The MCUs of the stego image                                             *)
(***************************************************************************)
RowsOut(i) == IF i < TotaliMCURows THEN FirstMCURow(AllComps, 1, i) ELSE MCURowsOf(AllComps)
IsWritten(out, n) ==
  /\ IsOfLength(out, n * MCUsPerRow(AllComps))
  /\ \A m \in 1 .. n * MCUsPerRow(AllComps) : HoldsMCU(AllComps, m, out[m], TRUE)

LEMMA AllCompsIsAScan ==
  ASSUME layout \in Layouts
  PROVE  /\ IsScan(AllComps) /\ AllComps[1] = 1 /\ 1 \in DOMAIN AllComps
         /\ DOMAIN AllComps = Comps /\ \A ci \in Comps : AllComps[ci] = ci
BY SizesOfAnImage DEF IsScan, AllComps

LEMMA RowsAreCounted ==
  ASSUME layout \in Layouts
  PROVE  /\ RowsOut(0) = 0 /\ RowsOut(TotaliMCURows) = MCURowsOf(AllComps)
         /\ \A i \in 0 .. TotaliMCURows - 1 :
              /\ RowsOut(i) = FirstMCURow(AllComps, 1, i) /\ RowsOut(i) \in Nat
              /\ MCURowsPeriMCURow(AllComps, i) \in Nat \ {0}
              /\ RowsOut(i + 1) = RowsOut(i) + MCURowsPeriMCURow(AllComps, i)
<1> DEFINE t == TotaliMCURows
           v == VSamp(1)
           hb == HeightInBlocks(1)
           left == Left(hb, v)
           all == Interleaved(AllComps)
<1>1. IsScan(AllComps) /\ AllComps[1] = 1
  BY AllCompsIsAScan
<1>2. /\ t \in Nat \ {0} /\ v \in Nat \ {0} /\ left \in 1 .. v /\ hb = (t - 1) * v + left
  BY SizesOfAnImage
<1>3. MCURowsOf(AllComps) = IF all THEN t ELSE hb
  BY <1>1, Zenon DEF MCURowsOf
<1>4. \A i : FirstMCURow(AllComps, 1, i) = IF all THEN i ELSE i * v
  BY Zenon DEF FirstMCURow
<1>5. \A i : MCURowsPeriMCURow(AllComps, i) = IF all THEN 1 ELSE IF i < t - 1 THEN v ELSE left
  BY <1>1, Zenon DEF MCURowsPeriMCURow, LastRowHeight
<1>6. \A i : RowsOut(i) = IF i < t THEN FirstMCURow(AllComps, 1, i) ELSE MCURowsOf(AllComps)
  BY Zenon DEF RowsOut
<1> HIDE DEF t, v, hb, left, all
<1>7. RowsOut(0) = 0
  <2>1. 0 < t /\ 0 * v = 0
    BY <1>2
  <2> QED BY <1>4, <1>6, <2>1, Zenon
<1>8. RowsOut(t) = MCURowsOf(AllComps)
  <2>1. ~(t < t)
    BY <1>2
  <2> QED BY <1>6, <2>1, Zenon
<1>9. ASSUME NEW i \in 0 .. t - 1
      PROVE  /\ RowsOut(i) = FirstMCURow(AllComps, 1, i) /\ RowsOut(i) \in Nat
             /\ MCURowsPeriMCURow(AllComps, i) \in Nat \ {0}
             /\ RowsOut(i + 1) = RowsOut(i) + MCURowsPeriMCURow(AllComps, i)
  <2>1. i < t /\ i \in Nat /\ i * v \in Nat /\ (i + 1) * v = i * v + v
    BY <1>2, Products
  <2>2. RowsOut(i) = FirstMCURow(AllComps, 1, i) /\ RowsOut(i) = (IF all THEN i ELSE i * v)
    BY <1>4, <1>6, <2>1, Zenon
  <2> DEFINE next == i + 1
             no == MCURowsPeriMCURow(AllComps, i)
  <2>3. RowsOut(next) = IF next < t THEN (IF all THEN next ELSE next * v) ELSE IF all THEN t ELSE hb
    BY <1>3, <1>4, <1>6, Zenon
  <2>4. no = IF all THEN 1 ELSE IF i < t - 1 THEN v ELSE left
    BY <1>5, Zenon
  <2>5. CASE i < t - 1
    <3>1. next < t /\ next * v = i * v + v /\ next = i + 1
      BY <1>2, <2>1, <2>5
    <3> HIDE DEF next, no
    <3> QED BY <1>2, <2>1, <2>2, <2>3, <2>4, <2>5, <3>1 DEF next, no
  <2>6. CASE ~(i < t - 1)
    <3>1. i = t - 1 /\ ~(next < t) /\ next = t
      BY <1>2, <2>1, <2>6
    <3>2. hb = i * v + left
      BY <1>2, <3>1
    <3> HIDE DEF next, no
    <3> QED BY <1>2, <2>1, <2>2, <2>3, <2>4, <2>6, <3>1, <3>2 DEF next, no
  <2> QED BY <2>5, <2>6
<1> QED BY <1>7, <1>8, <1>9 DEF t

LEMMA RowIsWritten ==
  ASSUME layout \in Layouts, iMCU \in 0 .. TotaliMCURows - 1,
         NEW as, \A ci \in Comps : ShowsStrip(as[ci], ci, TRUE),
         NEW out, IsWritten(out, RowsOut(iMCU)), NEW per, per = MCUsPerRow(AllComps),
         NEW no, no = MCURowsPeriMCURow(AllComps, iMCU)
  PROVE  IsWritten(out \o [n \in 1 .. no * per |->
                            MCUOut(AllComps, as, (n - 1) \div per, (n - 1) % per)],
                   RowsOut(iMCU + 1))
<1> DEFINE first == RowsOut(iMCU)
           t == [n \in 1 .. no * per |-> MCUOut(AllComps, as, (n - 1) \div per, (n - 1) % per)]
           u == out \o t
<1>1. IsScan(AllComps) /\ AllComps[1] = 1
  BY AllCompsIsAScan
<1>2. per \in Nat \ {0}
  BY <1>1, SizesOfAScan
<1>3. /\ first = FirstMCURow(AllComps, 1, iMCU) /\ first \in Nat /\ no \in Nat \ {0}
      /\ RowsOut(iMCU + 1) = first + no
  BY RowsAreCounted
<1> HIDE DEF first
<1>4. (first + no) * per = first * per + no * per /\ first * per \in Nat /\ no * per \in Nat
  BY <1>2, <1>3
<1>5. IsOfLength(out, first * per) /\ \A m \in 1 .. first * per : HoldsMCU(AllComps, m, out[m], TRUE)
  BY Zenon DEF IsWritten, first
<1>6. IsOfLength(t, no * per)
  BY DEF IsOfLength
<1>7. \A n \in 1 .. no * per : t[n] = MCUOut(AllComps, as, (n - 1) \div per, (n - 1) % per)
  BY Zenon
<1> HIDE DEF t
<1>8. AreJoined(out, first * per, t, no * per, u)
  BY <1>4, <1>5, <1>6, Joined
<1> HIDE DEF u
<1>9. /\ IsOfLength(u, first * per + no * per)
      /\ \A m \in 1 .. first * per : u[m] = out[m]
      /\ \A n \in 1 .. no * per : u[first * per + n] = t[n]
  BY <1>8, Zenon DEF AreJoined
<1>10. ASSUME NEW n \in 1 .. no * per
       PROVE  HoldsMCU(AllComps, first * per + n, t[n], TRUE)
  <2> DEFINE yoffset == (n - 1) \div per
             xoffset == (n - 1) % per
  <2>1. n - 1 \in Nat /\ n - 1 < no * per
    BY <1>4
  <2>2. yoffset \in Nat /\ xoffset \in 0 .. per - 1 /\ n - 1 = yoffset * per + xoffset
    <3> DEFINE k == n - 1
    <3>1. k \in Nat
      BY <2>1
    <3> HIDE DEF k
    <3>2. k \div per \in Nat /\ k % per \in 0 .. per - 1 /\ k = (k \div per) * per + (k % per)
      BY <1>2, <3>1, Quotients
    <3> QED BY <3>2 DEF k
  <2>3. yoffset < no
    <3>1. no \in Nat
      BY <1>3
    <3> QED BY <1>2, <2>1, <3>1, QuotientIsLess, Zenon
  <2>4. t[n] = MCUOut(AllComps, as, yoffset, xoffset)
    BY <1>7, Zenon
  <2> HIDE DEF yoffset, xoffset
  <2>5. yoffset \in 0 .. no - 1
    BY <1>3, <2>2, <2>3
  <2>6. first * per + n = (first + yoffset) * per + xoffset + 1
    <3>1. (first + yoffset) * per = first * per + yoffset * per /\ yoffset * per \in Nat
      BY <1>2, <1>3, <2>2
    <3> QED BY <1>2, <1>4, <2>2, <3>1
  <2>7. yoffset \in 0 .. MCURowsPeriMCURow(AllComps, iMCU) - 1 /\ xoffset \in 0 .. MCUsPerRow(AllComps) - 1
    BY <2>2, <2>5, Zenon
  <2> DEFINE m == first * per + n
  <2>8. m = (FirstMCURow(AllComps, AllComps[1], iMCU) + yoffset) * MCUsPerRow(AllComps) + xoffset + 1
    BY <1>1, <1>3, <2>6, Zenon
  <2> HIDE DEF m
  <2>9. HoldsMCU(AllComps, m, MCUOut(AllComps, as, yoffset, xoffset), TRUE)
    BY <1>1, <2>7, <2>8, MCUOutHolds, Zenon
  <2> QED BY <2>4, <2>9, Zenon DEF m
<1>11. ASSUME NEW m \in 1 .. (first + no) * per
       PROVE  HoldsMCU(AllComps, m, u[m], TRUE)
  <2>1. CASE m <= first * per
    <3>1. m \in 1 .. first * per
      BY <1>4, <2>1
    <3> QED BY <1>5, <1>9, <3>1, Zenon
  <2>2. CASE ~(m <= first * per)
    <3>1. m - first * per \in 1 .. no * per /\ first * per + (m - first * per) = m
      BY <1>4, <2>2
    <3>2. u[first * per + (m - first * per)] = t[m - first * per]
      BY <1>9, <3>1, Zenon
    <3>3. HoldsMCU(AllComps, first * per + (m - first * per), t[m - first * per], TRUE)
      BY <1>10, <3>1, Zenon
    <3> QED BY <3>1, <3>2, <3>3, Zenon
  <2> QED BY <2>1, <2>2
<1>12. IsWritten(u, first + no)
  BY <1>4, <1>9, <1>11, Zenon DEF IsWritten
<1> QED BY <1>3, <1>12, Zenon DEF u, t

-----------------------------------------------------------------------------
(***************************************************************************)
(* The inductive invariant                                                 *)
(***************************************************************************)
Phases(n, g, p, s, i) ==
  /\ g \in {"read", "load", "save", "write", "loaded"} /\ p \in {"collection", "clone", "stego"}
  /\ i \in Nat /\ s \in 1 .. n + 1
  /\ g = "read" => i < TotaliMCURows /\ (s = n + 1 => i = 0)
  /\ g \in {"load", "save"} => i <= HeightInBlocks(1)
  /\ g = "write" => i <= TotaliMCURows
  /\ g \in {"save", "write"} => p = "clone"
  /\ g = "load" => p # "clone"
  /\ g = "loaded" => p = "stego"

\* A file has one scan, of all components, or one of each.
CompsOf(n, s) == IF n = 1 THEN AllComps ELSE <<s>>
IsFile(n, ss, embedded) ==
  /\ n \in {1, Len(layout.comps)} /\ IsOfLength(ss, n)
  /\ \A s \in 1 .. n : ss[s].comps = CompsOf(n, s) /\ HoldsMCUs(CompsOf(n, s), ss[s].MCUs, embedded)

\* The rows of a component that were read, and those with the message in them.
ScanOf(n, ci) == IF n = 1 THEN 1 ELSE ci
RowsRead(n, g, s, i, ci) ==
  IF g # "read" \/ s > ScanOf(n, ci) THEN RowsOf(ci)
  ELSE IF s = ScanOf(n, ci) THEN i * VSamp(ci) ELSE 0
WetRows(g, p, i, ci) ==
  IF p = "stego" \/ g = "write" THEN RowsOf(ci) ELSE IF g = "save" THEN i ELSE 0
ArraysHold(n, g, p, s, i, as) ==
  /\ as = [ci \in Comps |-> as[ci]]
  /\ \A ci \in Comps : HoldsArray(ci, as[ci], RowsRead(n, g, s, i, ci), WetRows(g, p, i, ci))

RowsLoadedOf(g, p, i) ==
  IF g = "load" THEN i ELSE IF g = "read" /\ p # "clone" THEN 0 ELSE HeightInBlocks(1)
RowsWritten(g, p, i) ==
  IF p = "stego" THEN RowsOut(TotaliMCURows) ELSE IF g = "write" THEN RowsOut(i) ELSE 0

Holds(n, g, p, ss, s, i, as, coefficients, out) ==
  /\ Phases(n, g, p, s, i)
  /\ IsFile(n, ss, p = "stego")
  /\ ArraysHold(n, g, p, s, i, as)
  /\ coefficients = InOrderTo(RowsLoadedOf(g, p, i), p = "stego")
  /\ IsWritten(out, RowsWritten(g, p, i))

GeometryInvariant ==
  /\ layout \in Layouts /\ room \in MinHeights
  /\ Holds(Len(scans), gpc, pass, scans, scan, iMCU, arrays, collection, MCUs_out)

-----------------------------------------------------------------------------
\* The memory of the arrays holds anything when a reading begins.
LEMMA NewArraysHold ==
  ASSUME layout \in Layouts, room \in MinHeights, NEW ci \in Comps, NEW w
  PROVE  HoldsArray(ci, NewArrays[ci], 0, w)
<1> DEFINE a == NewArrays[ci]
           k == Kind(ci)
<1>1. /\ IsKind(k) /\ k.rows = RowsOf(ci) /\ k.access = AccessRows(ci) /\ k.heights = room
      /\ k.contents = RowContents(ci)
  BY KindOfAComponent
<1>2. Garbage(ci) \in RowContents(ci)
  BY BlocksAreBlocks DEF Garbage, RowContents, ColsOf
<1>3. a = Realized(RowsOf(ci), AccessRows(ci), room, Garbage(ci), Garbage(ci))
  BY Zenon DEF NewArrays, RowsOf
<1> HIDE DEF a, k
<1>4. a = Realized(k.rows, k.access, k.heights, Garbage(ci), Garbage(ci))
  BY <1>1, <1>3, Zenon
<1>5. Garbage(ci) \in k.contents
  BY <1>1, <1>2, Zenon
<1>6. Good(k, a) /\ a.error = "none" /\ a.first_undef_row = 0
  BY <1>1, <1>4, <1>5, NewArrayIsZero, Zenon
<1>7. 0 <= a.first_undef_row /\ 0 .. 0 - 1 = {}
  BY <1>6
<1> QED BY <1>6, <1>7 DEF HoldsArray, a, k

LEMMA ReadingBegins ==
  ASSUME layout \in Layouts, room \in MinHeights, NEW n \in {1, Len(layout.comps)},
         NEW p \in {"collection", "clone", "stego"}
  PROVE  Phases(n, "read", p, 1, 0) /\ ArraysHold(n, "read", p, 1, 0, NewArrays)
<1>1. /\ n \in Nat \ {0} /\ TotaliMCURows \in Nat \ {0} /\ Comps = 1 .. Len(layout.comps)
      /\ \A ci \in Comps : VSamp(ci) \in Nat
  BY SizesOfAnImage
<1>2. Phases(n, "read", p, 1, 0)
  BY <1>1 DEF Phases
<1>3. ASSUME NEW ci \in Comps
      PROVE  RowsRead(n, "read", 1, 0, ci) = 0
  <2>1. ScanOf(n, ci) \in Nat \ {0}
    BY <1>1 DEF ScanOf
  <2>2. ~(1 > ScanOf(n, ci)) /\ 0 * VSamp(ci) = 0
    BY <1>1, <2>1
  <2> QED BY <2>2, Zenon DEF RowsRead
<1>4. ASSUME NEW ci \in Comps
      PROVE  HoldsArray(ci, NewArrays[ci], RowsRead(n, "read", 1, 0, ci), WetRows("read", p, 0, ci))
  BY <1>3, NewArraysHold, Zenon
<1>5. NewArrays = [ci \in Comps |-> NewArrays[ci]]
  BY Zenon DEF NewArrays
<1> QED BY <1>2, <1>4, <1>5, Zenon DEF ArraysHold

LEMMA FileOfTheCover ==
  ASSUME layout \in Layouts,
         NEW components \in {<<AllComps>>, [ci \in Comps |-> <<ci>>]},
         NEW ss, ss = AFile(components, ABlock), NEW n, n = Len(ss)
  PROVE  IsFile(n, ss, FALSE)
<1> DEFINE m == Len(layout.comps)
<1>1. m \in Nat \ {0} /\ Comps = 1 .. m /\ AllComps = [ci \in 1 .. m |-> ci]
  BY SizesOfAnImage DEF AllComps
<1>2. ASSUME NEW cis, IsScan(cis)
      PROVE  HoldsMCUs(cis, ScanMCUs(cis, ABlock, Padding), FALSE)
  <2>1. ScanMCUs(cis, ABlock, Padding) = StandardMCUs(cis, FALSE)
    BY ScanMCUsAreStandard
  <2>2. \A i \in 1 .. MCUsOf(cis) : HoldsMCU(cis, i, StandardMCUs(cis, FALSE)[i], FALSE)
    BY <1>2, StandardMCUHolds
  <2> QED BY <2>1, <2>2, Zenon DEF HoldsMCUs
<1> HIDE DEF m
<1>3. PICK k \in {1, m} : /\ DOMAIN components = 1 .. k
                          /\ \A s \in 1 .. k : components[s] = CompsOf(k, s)
  <2>1. CASE components = <<AllComps>>
    <3>1. DOMAIN components = 1 .. 1 /\ \A s \in 1 .. 1 : components[s] = AllComps
      BY <2>1
    <3> QED BY <3>1 DEF CompsOf
  <2>2. CASE components = [ci \in Comps |-> <<ci>>]
    <3>1. DOMAIN components = 1 .. m /\ \A s \in 1 .. m : components[s] = <<s>>
      BY <1>1, <2>2
    <3>2. m = 1 => AllComps = <<1>> /\ \A s \in 1 .. m : s = 1
      BY <1>1
    <3>3. \A s \in 1 .. m : components[s] = CompsOf(m, s)
      BY <3>1, <3>2 DEF CompsOf
    <3> QED BY <3>1, <3>3
  <2> QED BY <2>1, <2>2
<1>4. \A s \in 1 .. k : IsScan(components[s])
  <2>1. ASSUME NEW s \in 1 .. k
        PROVE  IsScan(CompsOf(k, s))
    <3>1. k # 1 => s \in Comps
      BY <1>1
    <3> QED BY <3>1, Zenon DEF CompsOf, IsScan
  <2> QED BY <1>3, <2>1, Zenon
<1>5. ss = [s \in 1 .. k |->
             [comps |-> components[s], MCUs |-> ScanMCUs(components[s], ABlock, Padding)]]
  BY <1>3, Zenon DEF AFile
<1>6. k \in Nat
  BY <1>1
<1>7. IsOfLength(ss, k) /\ Len(ss) = k
  <2>1. IsOfLength(ss, k)
    BY <1>5 DEF IsOfLength
  <2> QED BY <1>6, <2>1, LengthOfASequence
<1>8. ASSUME NEW s \in 1 .. k
      PROVE  ss[s].comps = CompsOf(k, s) /\ HoldsMCUs(CompsOf(k, s), ss[s].MCUs, FALSE)
  <2>1. ss[s] = [comps |-> components[s], MCUs |-> ScanMCUs(components[s], ABlock, Padding)]
    BY <1>5, Zenon
  <2>2. ss[s].comps = components[s] /\ ss[s].MCUs = ScanMCUs(components[s], ABlock, Padding)
    BY <2>1
  <2> QED BY <1>2, <1>3, <1>4, <2>2, Zenon
<1>9. k \in {1, Len(layout.comps)}
  BY DEF m
<1> QED BY <1>7, <1>8, <1>9, Zenon DEF IsFile

LEMMA NothingIsInOrder ==
  ASSUME layout \in Layouts, NEW embedded
  PROVE  InOrderTo(0, embedded) = << >> /\ IsWritten(<< >>, 0)
<1>1. WidthInBlocks(1) \in Nat /\ MCUsPerRow(AllComps) \in Nat
  BY SizesOfAnImage, AllCompsIsAScan, SizesOfAScan
<1>2. 0 * WidthInBlocks(1) = 0 /\ 0 * MCUsPerRow(AllComps) = 0
  BY <1>1
<1>3. InOrderTo(0, embedded) = << >>
  BY <1>2 DEF InOrderTo
<1>4. IsOfLength(<< >>, 0) /\ 1 .. 0 = {}
  BY DEF IsOfLength
<1> QED BY <1>2, <1>3, <1>4 DEF IsWritten

LEMMA GeometryBegins ==
  ASSUME GeometryInit
  PROVE  GeometryInvariant
<1> DEFINE n == Len(scans)
<1>1. layout \in Layouts /\ room \in MinHeights
  BY DEF GeometryInit
<1>2. IsFile(n, scans, FALSE)
  BY <1>1, FileOfTheCover DEF GeometryInit
<1>3. n \in {1, Len(layout.comps)}
  BY <1>2, Zenon DEF IsFile
<1>4. Phases(n, "read", "collection", 1, 0) /\ ArraysHold(n, "read", "collection", 1, 0, NewArrays)
  BY <1>1, <1>3, ReadingBegins
<1>5. RowsLoadedOf("read", "collection", 0) = 0 /\ RowsWritten("read", "collection", 0) = 0
  BY DEF RowsLoadedOf, RowsWritten
<1>6. InOrderTo(0, FALSE) = << >> /\ IsWritten(<< >>, 0)
  BY <1>1, NothingIsInOrder
<1>7. ("collection" = "stego") = FALSE
  OBVIOUS
<1> HIDE DEF n
<1>8. Holds(n, "read", "collection", scans, 1, 0, NewArrays, << >>, << >>)
  BY <1>2, <1>4, <1>5, <1>6, <1>7, Zenon DEF Holds
<1> QED BY <1>1, <1>8, Zenon DEF GeometryInvariant, GeometryInit, n

-----------------------------------------------------------------------------
(***************************************************************************)
(* What depends on the image alone stays                                   *)
(***************************************************************************)
LEMMA SizesStay ==
  ASSUME layout' = layout, room' = room
  PROVE  /\ Comps' = Comps /\ TotaliMCURows' = TotaliMCURows /\ AllComps' = AllComps
         /\ \A ci : /\ HSamp(ci)' = HSamp(ci) /\ VSamp(ci)' = VSamp(ci)
                    /\ WidthInBlocks(ci)' = WidthInBlocks(ci)
                    /\ HeightInBlocks(ci)' = HeightInBlocks(ci)
                    /\ RowsOf(ci)' = RowsOf(ci) /\ ColsOf(ci)' = ColsOf(ci)
                    /\ ZeroRow(ci)' = ZeroRow(ci) /\ Kind(ci)' = Kind(ci)
         /\ \A cis : MCUsPerRow(cis)' = MCUsPerRow(cis) /\ MCURowsOf(cis)' = MCURowsOf(cis)
         /\ \A cis, ci : MCUWidth(cis, ci)' = MCUWidth(cis, ci) /\ MCUHeight(cis, ci)' = MCUHeight(cis, ci)
<1>1. MaxH' = MaxH /\ MaxV' = MaxV /\ Comps' = Comps
  BY DEF MaxH, MaxV, Comps
<1>2. ASSUME NEW ci
      PROVE  HSamp(ci)' = HSamp(ci) /\ VSamp(ci)' = VSamp(ci)
  BY DEF HSamp, VSamp
<1>3. ASSUME NEW ci
      PROVE  /\ WidthInBlocks(ci)' = WidthInBlocks(ci) /\ HeightInBlocks(ci)' = HeightInBlocks(ci)
  BY <1>1, <1>2 DEF WidthInBlocks, HeightInBlocks
<1>4. TotaliMCURows' = TotaliMCURows
  BY <1>1 DEF TotaliMCURows
<1>5. AllComps' = AllComps
  BY <1>1, Zenon DEF AllComps
<1>6. ASSUME NEW ci
      PROVE  RowsOf(ci)' = RowsOf(ci) /\ ColsOf(ci)' = ColsOf(ci)
  BY <1>2, <1>3, Zenon DEF RowsOf, ColsOf
<1>7. ASSUME NEW ci
      PROVE  ZeroRow(ci)' = ZeroRow(ci)
  BY <1>2, <1>3, Zenon DEF ZeroRow
<1>8. ASSUME NEW ci
      PROVE  AccessRows(ci)' = AccessRows(ci)
  BY <1>2 DEF AccessRows
<1>9. ASSUME NEW ci
      PROVE  Kind(ci)' = Kind(ci)
  BY <1>6, <1>7, <1>8, Zenon DEF Kind, RowContents
<1>10. ASSUME NEW cis
       PROVE  MCUsPerRow(cis)' = MCUsPerRow(cis) /\ MCURowsOf(cis)' = MCURowsOf(cis)
  BY <1>1, <1>3, <1>4, Zenon DEF MCUsPerRow, MCURowsOf
<1>11. ASSUME NEW cis, NEW ci
       PROVE  MCUWidth(cis, ci)' = MCUWidth(cis, ci) /\ MCUHeight(cis, ci)' = MCUHeight(cis, ci)
  BY <1>2, Zenon DEF MCUWidth, MCUHeight
<1> QED BY <1>1, <1>2, <1>3, <1>4, <1>5, <1>6, <1>7, <1>9, <1>10, <1>11, Zenon

LEMMA MCUsStay ==
  ASSUME layout' = layout, room' = room
  PROVE  /\ \A block, embedded, ci, row, col :
              HoldsBlock(block, embedded, ci, row, col)' <=> HoldsBlock(block, embedded, ci, row, col)
         /\ \A cis, m, blocks, embedded : HoldsMCU(cis, m, blocks, embedded)' <=> HoldsMCU(cis, m, blocks, embedded)
         /\ \A cis, mcus, embedded : HoldsMCUs(cis, mcus, embedded)' <=> HoldsMCUs(cis, mcus, embedded)
<1>1. ASSUME NEW block, NEW embedded, NEW ci, NEW row, NEW col
      PROVE  HoldsBlock(block, embedded, ci, row, col)' <=> HoldsBlock(block, embedded, ci, row, col)
  BY SizesStay, Zenon DEF HoldsBlock, IsInImage
<1>2. ASSUME NEW cis, NEW i
      PROVE  BlocksBefore(cis, i)' = BlocksBefore(cis, i)
  <2>1. \A d, c : MCUWidth(d, c)' = MCUWidth(d, c) /\ MCUHeight(d, c)' = MCUHeight(d, c)
    BY SizesStay, Zenon
  <2> QED BY <2>1 DEF BlocksBefore
<1>3. ASSUME NEW cis
      PROVE  BlocksInMCU(cis)' = BlocksInMCU(cis)
  BY <1>2, Zenon DEF BlocksInMCU
<1>4. ASSUME NEW cis, NEW ci
      PROVE  BlocksIn(cis, ci)' = BlocksIn(cis, ci)
  BY SizesStay, Zenon DEF BlocksIn
<1>5. ASSUME NEW cis, NEW ci, NEW m, NEW k
      PROVE  MCURow(cis, ci, m, k)' = MCURow(cis, ci, m, k) /\ MCUCol(cis, ci, m, k)' = MCUCol(cis, ci, m, k)
  BY SizesStay, Zenon DEF MCURow, MCUCol
<1>6. ASSUME NEW cis, NEW m, NEW blocks, NEW embedded
      PROVE  HoldsMCU(cis, m, blocks, embedded)' <=> HoldsMCU(cis, m, blocks, embedded)
  BY <1>1, <1>2, <1>3, <1>4, <1>5, Zenon DEF HoldsMCU
<1>7. ASSUME NEW cis
      PROVE  MCUsOf(cis)' = MCUsOf(cis)
  BY SizesStay, Zenon DEF MCUsOf
<1>8. ASSUME NEW cis, NEW mcus, NEW embedded
      PROVE  HoldsMCUs(cis, mcus, embedded)' <=> HoldsMCUs(cis, mcus, embedded)
  BY <1>6, <1>7, Zenon DEF HoldsMCUs
<1> QED BY <1>1, <1>6, <1>8, Zenon

LEMMA ArraysStay ==
  ASSUME layout' = layout, room' = room
  PROVE  \A ci, a, n, w : HoldsArray(ci, a, n, w)' <=> HoldsArray(ci, a, n, w)
<1>1. ASSUME NEW ci, NEW contents, NEW r, NEW w
      PROVE  HoldsRow(ci, contents, r, w)' <=> HoldsRow(ci, contents, r, w)
  BY SizesStay, MCUsStay, Zenon DEF HoldsRow
<1>2. ASSUME NEW ci, NEW a, NEW n, NEW w
      PROVE  HoldsArray(ci, a, n, w)' <=> HoldsArray(ci, a, n, w)
  BY <1>1, SizesStay, Zenon DEF HoldsArray
<1> QED BY <1>2, Zenon

LEMMA InvariantStays ==
  ASSUME layout' = layout, room' = room, layout \in Layouts, room \in MinHeights,
         Holds(Len(scans'), gpc', pass', scans', scan', iMCU', arrays', collection', MCUs_out')
  PROVE  GeometryInvariant'
<1>1. ASSUME NEW n, NEW g, NEW p, NEW s, NEW i
      PROVE  Phases(n, g, p, s, i)' <=> Phases(n, g, p, s, i)
  BY SizesStay, Zenon DEF Phases
<1>2. ASSUME NEW n, NEW s
      PROVE  CompsOf(n, s)' = CompsOf(n, s)
  BY SizesStay, Zenon DEF CompsOf
<1>3. ASSUME NEW n, NEW ss, NEW embedded
      PROVE  IsFile(n, ss, embedded)' <=> IsFile(n, ss, embedded)
  BY <1>2, MCUsStay, Zenon DEF IsFile
<1>4. ASSUME NEW n, NEW g, NEW p, NEW s, NEW i, NEW ci
      PROVE  /\ RowsRead(n, g, s, i, ci)' = RowsRead(n, g, s, i, ci)
             /\ WetRows(g, p, i, ci)' = WetRows(g, p, i, ci)
  BY SizesStay, Zenon DEF RowsRead, WetRows
<1>5. ASSUME NEW n, NEW g, NEW p, NEW s, NEW i, NEW as
      PROVE  ArraysHold(n, g, p, s, i, as)' <=> ArraysHold(n, g, p, s, i, as)
  <2>1. Comps' = Comps
    BY SizesStay
  <2>2. /\ \A ci : /\ RowsRead(n, g, s, i, ci)' = RowsRead(n, g, s, i, ci)
                   /\ WetRows(g, p, i, ci)' = WetRows(g, p, i, ci)
        /\ \A ci, a, m, w : HoldsArray(ci, a, m, w)' <=> HoldsArray(ci, a, m, w)
    BY <1>4, ArraysStay, Zenon
  <2> QED BY <2>1, <2>2 DEF ArraysHold
<1>6. ASSUME NEW i
      PROVE  RowsOut(i)' = RowsOut(i)
  BY SizesStay, Zenon DEF RowsOut, FirstMCURow
<1>7. ASSUME NEW g, NEW p, NEW i
      PROVE  /\ RowsLoadedOf(g, p, i)' = RowsLoadedOf(g, p, i)
             /\ RowsWritten(g, p, i)' = RowsWritten(g, p, i)
  BY <1>6, SizesStay, Zenon DEF RowsLoadedOf, RowsWritten
<1>8. ASSUME NEW n, NEW embedded
      PROVE  InOrderTo(n, embedded)' = InOrderTo(n, embedded)
  <2>1. WidthInBlocks(1)' = WidthInBlocks(1)
    BY SizesStay, Zenon
  <2> QED BY <2>1 DEF InOrderTo, TheBlock
<1>9. ASSUME NEW out, NEW n
      PROVE  IsWritten(out, n)' <=> IsWritten(out, n)
  BY SizesStay, MCUsStay, Zenon DEF IsWritten
<1>10. ASSUME NEW n, NEW g, NEW p, NEW ss, NEW s, NEW i, NEW as, NEW coefficients, NEW out
       PROVE  Holds(n, g, p, ss, s, i, as, coefficients, out)'
                <=> Holds(n, g, p, ss, s, i, as, coefficients, out)
  BY <1>1, <1>3, <1>5, <1>7, <1>8, <1>9, Zenon DEF Holds
<1> QED BY <1>10, Zenon DEF GeometryInvariant

-----------------------------------------------------------------------------
(***************************************************************************)
(* The steps                                                               *)
(***************************************************************************)
LEMMA FileHasScans ==
  ASSUME layout \in Layouts, NEW n, NEW ss, NEW embedded, IsFile(n, ss, embedded)
  PROVE  /\ n \in Nat \ {0} /\ n \in {1, Len(layout.comps)} /\ Len(ss) = n /\ DOMAIN ss = 1 .. n
         /\ \A s \in 1 .. n : /\ ss[s].comps = CompsOf(n, s) /\ IsScan(CompsOf(n, s))
                              /\ HoldsMCUs(CompsOf(n, s), ss[s].MCUs, embedded)
<1>1. n \in {1, Len(layout.comps)} /\ Len(layout.comps) \in Nat \ {0} /\ Comps = 1 .. Len(layout.comps)
  BY SizesOfAnImage DEF IsFile
<1>2. n \in Nat \ {0}
  BY <1>1
<1>3. Len(ss) = n /\ DOMAIN ss = 1 .. n
  BY <1>2, LengthOfASequence DEF IsFile
<1>4. ASSUME NEW s \in 1 .. n
      PROVE  IsScan(CompsOf(n, s))
  <2>1. n # 1 => s \in Comps
    BY <1>1
  <2> QED BY <2>1, Zenon DEF CompsOf, IsScan
<1> QED BY <1>1, <1>2, <1>3, <1>4, Zenon DEF IsFile

LEMMA InvariantHolds ==
  ASSUME GeometryInvariant, NEW n, n = Len(scans)
  PROVE  /\ layout \in Layouts /\ room \in MinHeights
         /\ Phases(n, gpc, pass, scan, iMCU) /\ IsFile(n, scans, pass = "stego")
         /\ ArraysHold(n, gpc, pass, scan, iMCU, arrays)
         /\ collection = InOrderTo(RowsLoadedOf(gpc, pass, iMCU), pass = "stego")
         /\ IsWritten(MCUs_out, RowsWritten(gpc, pass, iMCU))
BY Zenon DEF GeometryInvariant, Holds

\* A component is in a scan that all are in, or in the one that only it is in.
PlaceIn(cis, ci) == CHOOSE i \in DOMAIN cis : cis[i] = ci

LEMMA ComponentsOfAScan ==
  ASSUME layout \in Layouts, NEW n \in {1, Len(layout.comps)}, NEW s \in 1 .. n, NEW ci \in Comps,
         NEW cis, cis = CompsOf(n, s)
  PROVE  /\ ci \in Range(cis) <=> s = ScanOf(n, ci)
         /\ ci \in Range(cis) => PlaceIn(cis, ci) \in DOMAIN cis /\ cis[PlaceIn(cis, ci)] = ci
<1>1. DOMAIN AllComps = Comps /\ \A c \in Comps : AllComps[c] = c
  BY AllCompsIsAScan
<1>2. DOMAIN <<s>> = {1} /\ <<s>>[1] = s
  OBVIOUS
<1>3. ci \in Range(cis) <=> \E i \in DOMAIN cis : cis[i] = ci
  BY Zenon DEF Range
<1>4. ci \in Range(cis) <=> s = ScanOf(n, ci)
  <2>1. CASE n = 1
    <3>1. s = 1
      BY <2>1
    <3> QED BY <1>1, <1>3, <2>1, <3>1, Zenon DEF CompsOf, ScanOf
  <2>2. CASE n # 1
    BY <1>2, <1>3, <2>2, Zenon DEF CompsOf, ScanOf
  <2> QED BY <2>1, <2>2
<1> QED BY <1>3, <1>4, Zenon DEF PlaceIn

\* How far the arrays are when a strip of the components of scan s is read.
ScanAfter(s, i) == IF i + 1 < TotaliMCURows THEN s ELSE s + 1
RowAfter(i) == IF i + 1 < TotaliMCURows THEN i + 1 ELSE 0

LEMMA RowsAreRead ==
  ASSUME layout \in Layouts, NEW n \in {1, Len(layout.comps)}, NEW s \in 1 .. n,
         NEW i \in 0 .. TotaliMCURows - 1, NEW ci \in Comps,
         NEW next, next = RowsRead(n, "read", ScanAfter(s, i), RowAfter(i), ci)
  PROVE  /\ s = ScanOf(n, ci) => /\ RowsRead(n, "read", s, i, ci) = i * VSamp(ci)
                                 /\ next = (i + 1) * VSamp(ci)
         /\ s # ScanOf(n, ci) => next = RowsRead(n, "read", s, i, ci)
<1> DEFINE t == TotaliMCURows
           v == VSamp(ci)
           rows == RowsOf(ci)
           of == ScanOf(n, ci)
<1>1. /\ t \in Nat \ {0} /\ v \in Nat \ {0} /\ rows = t * v /\ ci \in Nat \ {0} /\ n \in Nat \ {0}
  <2>1. t \in Nat \ {0} /\ v \in Nat \ {0} /\ rows = t * v
    BY SizesOfAnImage, Zenon DEF RowsOf
  <2>2. Len(layout.comps) \in Nat \ {0} /\ Comps = 1 .. Len(layout.comps)
    BY SizesOfAnImage, Zenon
  <2> HIDE DEF t, v, rows, of
  <2> QED BY <2>1, <2>2
<1>2. of \in Nat
  BY <1>1 DEF ScanOf
<1>3. \A s2, i2 : RowsRead(n, "read", s2, i2, ci)
                    = IF s2 > of THEN rows ELSE IF s2 = of THEN i2 * v ELSE 0
  BY Zenon DEF RowsRead
<1>4. RowsRead(n, "read", s, i, ci) = IF s > of THEN rows ELSE IF s = of THEN i * v ELSE 0
  BY <1>3, Zenon
<1>5. next = IF ScanAfter(s, i) > of THEN rows ELSE IF ScanAfter(s, i) = of THEN RowAfter(i) * v ELSE 0
  BY <1>3, Zenon
<1> HIDE DEF t, v, rows, of
<1>6. s \in Nat /\ i \in Nat /\ i < t
  BY <1>1 DEF t
<1>7. CASE i + 1 < t
  <2>1. ScanAfter(s, i) = s /\ RowAfter(i) = i + 1
    BY <1>7 DEF ScanAfter, RowAfter, t
  <2>2. next = IF s > of THEN rows ELSE IF s = of THEN (i + 1) * v ELSE 0
    BY <1>5, <2>1, Zenon
  <2>3. s = of => ~(s > of)
    BY <1>2, <1>6
  <2> QED BY <1>4, <2>2, <2>3, Zenon DEF of, v
<1>8. CASE ~(i + 1 < t)
  <2>1. ScanAfter(s, i) = s + 1 /\ RowAfter(i) = 0 /\ i + 1 = t
    BY <1>1, <1>6, <1>8 DEF ScanAfter, RowAfter, t
  <2>2. next = IF s + 1 > of THEN rows ELSE IF s + 1 = of THEN 0 * v ELSE 0
    BY <1>5, <2>1, Zenon
  <2>3. /\ s = of => ~(s > of) /\ s + 1 > of
        /\ s # of => (s + 1 > of <=> s > of)
        /\ 0 * v = 0
    BY <1>1, <1>2, <1>6
  <2>4. s = of => next = (i + 1) * v
    BY <1>1, <2>1, <2>2, <2>3, Zenon
  <2>5. s # of => next = IF s > of THEN rows ELSE 0
    BY <2>2, <2>3, Zenon
  <2> QED BY <1>4, <2>3, <2>4, <2>5, Zenon DEF of, v
<1> QED BY <1>7, <1>8

-----------------------------------------------------------------------------
LEMMA ReadingPhase ==
  ASSUME NEW n, NEW p \in {"collection", "clone", "stego"}, NEW s \in 1 .. n + 1, NEW i \in Nat,
         i < TotaliMCURows, s = n + 1 => i = 0
  PROVE  Phases(n, "read", p, s, i)
BY DEF Phases

LEMMA ConsumeDataKeeps ==
  ASSUME GeometryInvariant, ConsumeData
  PROVE  GeometryInvariant'
<1> DEFINE n == Len(scans)
           embedded == pass = "stego"
           cis == scans[scan].comps
           aligned == Aligned(cis, TRUE)
           strip(i) == [r \in iMCU * VSamp(cis[i]) .. (iMCU + 1) * VSamp(cis[i]) - 1 |->
                         [col \in DOMAIN RowAt(aligned[cis[i]], r) |->
                           BlockRead(cis, scans[scan].MCUs, i, r - iMCU * VSamp(cis[i]), col,
                                     RowAt(aligned[cis[i]], r)[col])]]
           place(ci) == CHOOSE i \in DOMAIN cis : cis[i] = ci
           next == [ci \in Comps |->
                     IF ci \in Range(cis) THEN Stored(aligned[ci], strip(place(ci))) ELSE aligned[ci]]
           s2 == ScanAfter(scan, iMCU)
           i2 == RowAfter(iMCU)
<1>1. /\ layout \in Layouts /\ room \in MinHeights /\ Phases(n, gpc, pass, scan, iMCU)
      /\ IsFile(n, scans, embedded) /\ ArraysHold(n, gpc, pass, scan, iMCU, arrays)
      /\ collection = InOrderTo(RowsLoadedOf(gpc, pass, iMCU), embedded)
      /\ IsWritten(MCUs_out, RowsWritten(gpc, pass, iMCU))
  BY InvariantHolds
<1>2. gpc = "read" /\ scan \in DOMAIN scans
  BY DEF ConsumeData
<1>3. /\ n \in Nat \ {0} /\ n \in {1, Len(layout.comps)} /\ DOMAIN scans = 1 .. n
      /\ scan \in 1 .. n /\ cis = CompsOf(n, scan) /\ IsScan(cis)
      /\ HoldsMCUs(cis, scans[scan].MCUs, embedded)
  <2>1. /\ n \in Nat \ {0} /\ n \in {1, Len(layout.comps)} /\ DOMAIN scans = 1 .. n
        /\ \A s \in 1 .. n : /\ scans[s].comps = CompsOf(n, s) /\ IsScan(CompsOf(n, s))
                             /\ HoldsMCUs(CompsOf(n, s), scans[s].MCUs, embedded)
    <3> HIDE DEF n, embedded
    <3>1. /\ n \in Nat \ {0} /\ n \in {1, Len(layout.comps)} /\ Len(scans) = n /\ DOMAIN scans = 1 .. n
          /\ \A s \in 1 .. n : /\ scans[s].comps = CompsOf(n, s) /\ IsScan(CompsOf(n, s))
                               /\ HoldsMCUs(CompsOf(n, s), scans[s].MCUs, embedded)
      BY <1>1, FileHasScans
    <3> QED BY <3>1, Zenon
  <2> QED BY <1>2, <2>1, Zenon
<1>4. iMCU \in 0 .. TotaliMCURows - 1 /\ TotaliMCURows \in Nat \ {0}
  <2>1. iMCU \in Nat /\ iMCU < TotaliMCURows /\ TotaliMCURows \in Nat \ {0}
    BY <1>1, <1>2, SizesOfAnImage DEF Phases
  <2> QED BY <2>1
<1>5. embedded \in BOOLEAN
  OBVIOUS
<1>6. \A i, ci : WetRows("read", pass, i, ci) = IF embedded THEN RowsOf(ci) ELSE 0
  BY Zenon DEF WetRows
<1>7. ASSUME NEW ci \in Comps
      PROVE  /\ aligned[ci].error = "none"
             /\ HoldsArray(ci, next[ci], RowsRead(n, "read", s2, i2, ci), WetRows("read", pass, i2, ci))
  <2> DEFINE w == IF embedded THEN RowsOf(ci) ELSE 0
  <2>1. HoldsArray(ci, arrays[ci], RowsRead(n, "read", scan, iMCU, ci), w)
    BY <1>1, <1>2, <1>6, Zenon DEF ArraysHold
  <2>2. /\ ci \in Range(cis) <=> scan = ScanOf(n, ci)
        /\ ci \in Range(cis) => place(ci) \in DOMAIN cis /\ cis[place(ci)] = ci
    <3> DEFINE these == cis
    <3>1. these = CompsOf(n, scan) /\ n \in {1, Len(layout.comps)} /\ scan \in 1 .. n
      BY <1>3
    <3> HIDE DEF these, n
    <3>2. /\ ci \in Range(these) <=> scan = ScanOf(n, ci)
          /\ ci \in Range(these) =>
               PlaceIn(these, ci) \in DOMAIN these /\ these[PlaceIn(these, ci)] = ci
      BY <1>1, <3>1, ComponentsOfAScan
    <3> QED BY <3>2, Zenon DEF these, PlaceIn
  <2>3. /\ scan = ScanOf(n, ci) => /\ RowsRead(n, "read", scan, iMCU, ci) = iMCU * VSamp(ci)
                                   /\ RowsRead(n, "read", s2, i2, ci) = (iMCU + 1) * VSamp(ci)
        /\ scan # ScanOf(n, ci) => RowsRead(n, "read", s2, i2, ci) = RowsRead(n, "read", scan, iMCU, ci)
    <3>1. n \in {1, Len(layout.comps)} /\ scan \in 1 .. n
      BY <1>3
    <3> HIDE DEF n
    <3> QED BY <1>1, <1>4, <3>1, RowsAreRead
  <2>4. WetRows("read", pass, i2, ci) = w
    BY <1>6, Zenon
  <2>5. aligned[ci] = IF ci \notin Range(cis) THEN arrays[ci]
                      ELSE Accessed(arrays[ci], iMCU * VSamp(ci), (iMCU + 1) * VSamp(ci), TRUE, ZeroRow(ci))
    BY Zenon DEF Aligned
  <2>6. next[ci] = IF ci \in Range(cis) THEN Stored(aligned[ci], strip(place(ci))) ELSE aligned[ci]
    BY Zenon
  <2> HIDE DEF next, s2, i2, w
  <2>7. CASE ci \notin Range(cis)
    <3>1. aligned[ci] = arrays[ci] /\ next[ci] = arrays[ci]
      BY <2>5, <2>6, <2>7, Zenon
    <3>2. arrays[ci].error = "none"
      BY <2>1, Zenon DEF HoldsArray
    <3> QED BY <2>1, <2>2, <2>3, <2>4, <2>7, <3>1, <3>2, Zenon
  <2>8. CASE ci \in Range(cis)
    <3> DEFINE j == place(ci)
               its == strip(j)
               mcus == scans[scan].MCUs
    <3>1. j \in DOMAIN cis /\ ci = cis[j]
      BY <2>2, <2>8, Zenon
    <3>2. aligned[ci] = Accessed(arrays[ci], iMCU * VSamp(ci), (iMCU + 1) * VSamp(ci), TRUE, ZeroRow(ci))
      BY <2>5, <2>8, Zenon
    <3> HIDE DEF aligned
    <3>3. its = [r \in iMCU * VSamp(ci) .. (iMCU + 1) * VSamp(ci) - 1 |->
                  [col \in DOMAIN RowAt(aligned[ci], r) |->
                    BlockRead(cis, mcus, j, r - iMCU * VSamp(ci), col, RowAt(aligned[ci], r)[col])]]
      BY <3>1, Zenon
    <3>4. next[ci] = Stored(aligned[ci], its)
      BY <2>6, <2>8, Zenon
    <3>5. HoldsArray(ci, arrays[ci], iMCU * VSamp(ci), w)
      BY <2>1, <2>2, <2>3, <2>8, Zenon
    <3>6. HoldsMCUs(cis, mcus, embedded)
      BY <1>3, Zenon
    <3> HIDE DEF its, mcus, j, cis, embedded
    <3>7. w = IF embedded THEN RowsOf(ci) ELSE 0
      BY Zenon DEF w
    <3>8. /\ aligned[ci].error = "none"
          /\ HoldsArray(ci, Stored(aligned[ci], its), (iMCU + 1) * VSamp(ci), w)
      <4>1. MayRead(cis, j, ci, embedded, w, arrays[ci], mcus, aligned[ci], its)
        BY <1>1, <1>3, <1>4, <1>5, <3>1, <3>2, <3>3, <3>5, <3>6, <3>7, Zenon DEF MayRead
      <4> QED BY <4>1, StripIsRead
    <3> QED BY <2>2, <2>3, <2>4, <2>8, <3>4, <3>8, Zenon
  <2> QED BY <2>7, <2>8
<1>8. Fine(aligned)
  BY <1>7, Zenon DEF Fine
<1>9. /\ arrays' = next /\ scan' = s2 /\ iMCU' = i2 /\ gpc' = "read"
      /\ pass' = pass /\ layout' = layout /\ room' = room /\ scans' = scans
      /\ collection' = collection /\ MCUs_out' = MCUs_out
  <2>1. /\ arrays' = next
        /\ IF iMCU + 1 < TotaliMCURows
           THEN iMCU' = iMCU + 1 /\ UNCHANGED scan
           ELSE iMCU' = 0 /\ scan' = scan + 1
        /\ UNCHANGED gpc
    BY <1>8, Zenon DEF ConsumeData
  <2>2. /\ pass' = pass /\ layout' = layout /\ room' = room /\ scans' = scans
        /\ collection' = collection /\ MCUs_out' = MCUs_out
    BY DEF ConsumeData
  <2> QED BY <1>2, <2>1, <2>2, Zenon DEF ScanAfter, RowAfter
<1>10. Phases(n, "read", pass, s2, i2)
  <2>1. pass \in {"collection", "clone", "stego"} /\ n \in Nat /\ scan \in 1 .. n
    BY <1>1, <1>3 DEF Phases
  <2> DEFINE t == TotaliMCURows
  <2>2. /\ s2 = IF iMCU + 1 < t THEN scan ELSE scan + 1
        /\ i2 = IF iMCU + 1 < t THEN iMCU + 1 ELSE 0
        /\ t \in Nat \ {0} /\ iMCU \in 0 .. t - 1
    BY <1>4, Zenon DEF ScanAfter, RowAfter
  <2> HIDE DEF n, s2, i2, t
  <2>3. /\ i2 \in Nat /\ s2 \in 1 .. n + 1 /\ i2 < t /\ (s2 = n + 1 => i2 = 0)
    BY <2>1, <2>2
  <2> QED BY <2>1, <2>3, ReadingPhase, Zenon DEF t
<1>11. next = [ci \in Comps |-> next[ci]]
  OBVIOUS
<1>12. ArraysHold(n, "read", pass, s2, i2, next)
  <2> HIDE DEF next, n, s2, i2
  <2> QED BY <1>7, <1>11, Zenon DEF ArraysHold
<1>13. /\ RowsLoadedOf("read", pass, i2) = RowsLoadedOf(gpc, pass, iMCU)
       /\ RowsWritten("read", pass, i2) = RowsWritten(gpc, pass, iMCU)
  BY <1>2 DEF RowsLoadedOf, RowsWritten
<1> HIDE DEF next, s2, i2
<1>14. Holds(n, "read", pass, scans, s2, i2, next, collection, MCUs_out)
  BY <1>1, <1>10, <1>12, <1>13, Zenon DEF Holds
<1>15. Holds(Len(scans'), gpc', pass', scans', scan', iMCU', arrays', collection', MCUs_out')
  BY <1>9, <1>14, Zenon
<1> QED BY <1>1, <1>9, <1>15, InvariantStays, Zenon

-----------------------------------------------------------------------------
LEMMA FinishReadingKeeps ==
  ASSUME GeometryInvariant, FinishReading
  PROVE  GeometryInvariant'
<1> DEFINE n == Len(scans)
           embedded == pass = "stego"
           g2 == IF pass = "clone" THEN "save" ELSE "load"
<1>1. /\ layout \in Layouts /\ room \in MinHeights /\ Phases(n, gpc, pass, scan, iMCU)
      /\ IsFile(n, scans, embedded) /\ ArraysHold(n, gpc, pass, scan, iMCU, arrays)
      /\ collection = InOrderTo(RowsLoadedOf(gpc, pass, iMCU), embedded)
      /\ IsWritten(MCUs_out, RowsWritten(gpc, pass, iMCU))
  BY InvariantHolds
<1>2. gpc = "read" /\ scan \notin DOMAIN scans
  BY DEF FinishReading
<1>3. n \in Nat \ {0} /\ n \in {1, Len(layout.comps)} /\ DOMAIN scans = 1 .. n
  <2> HIDE DEF n, embedded
  <2> QED BY <1>1, FileHasScans
<1>4. /\ scan = n + 1 /\ iMCU = 0 /\ pass \in {"collection", "clone", "stego"}
      /\ scan \in Nat /\ HeightInBlocks(1) \in Nat
  <2>1. /\ scan \in 1 .. n + 1 /\ (scan = n + 1 => iMCU = 0)
        /\ pass \in {"collection", "clone", "stego"}
    BY <1>1, <1>2, Zenon DEF Phases
  <2>2. HeightInBlocks(1) \in Nat
    BY <1>1, SizesOfAnImage
  <2> HIDE DEF n
  <2> QED BY <1>2, <1>3, <2>1, <2>2
<1>5. Phases(n, g2, pass, scan, 0)
  <2> HIDE DEF n
  <2> QED BY <1>3, <1>4 DEF Phases
<1>6. ASSUME NEW ci \in Comps
      PROVE  HoldsArray(ci, arrays[ci], RowsRead(n, g2, scan, 0, ci), WetRows(g2, pass, 0, ci))
  <2>1. HoldsArray(ci, arrays[ci], RowsRead(n, "read", scan, 0, ci), WetRows("read", pass, 0, ci))
    BY <1>1, <1>2, <1>4, Zenon DEF ArraysHold
  <2>2. scan > ScanOf(n, ci)
    <3>1. Comps = 1 .. Len(layout.comps) /\ Len(layout.comps) \in Nat
      BY <1>1, SizesOfAnImage
    <3> HIDE DEF n
    <3> QED BY <1>3, <1>4, <3>1 DEF ScanOf
  <2>3. RowsRead(n, "read", scan, 0, ci) = RowsOf(ci) /\ RowsRead(n, g2, scan, 0, ci) = RowsOf(ci)
    BY <2>2, Zenon DEF RowsRead
  <2>4. WetRows("read", pass, 0, ci) = WetRows(g2, pass, 0, ci)
    BY DEF WetRows
  <2> QED BY <2>1, <2>3, <2>4, Zenon
<1>7. ArraysHold(n, g2, pass, scan, 0, arrays)
  <2> HIDE DEF n, g2
  <2> QED BY <1>1, <1>6, Zenon DEF ArraysHold
<1>8. /\ RowsLoadedOf(gpc, pass, iMCU) = RowsLoadedOf(g2, pass, 0)
      /\ RowsWritten(gpc, pass, iMCU) = RowsWritten(g2, pass, 0)
  BY <1>2, <1>4 DEF RowsLoadedOf, RowsWritten
<1> HIDE DEF g2
<1>9. Holds(n, g2, pass, scans, scan, 0, arrays, collection, MCUs_out)
  BY <1>1, <1>5, <1>7, <1>8, Zenon DEF Holds
<1>10. /\ gpc' = g2 /\ layout' = layout /\ room' = room /\ pass' = pass /\ scans' = scans
       /\ scan' = scan /\ iMCU' = 0 /\ arrays' = arrays /\ collection' = collection
       /\ MCUs_out' = MCUs_out
  BY <1>4 DEF FinishReading, g2
<1>11. Holds(Len(scans'), gpc', pass', scans', scan', iMCU', arrays', collection', MCUs_out')
  BY <1>9, <1>10, Zenon
<1> QED BY <1>1, <1>10, <1>11, InvariantStays, Zenon

\* Of one array, the blocks of the image in a row.
LEMMA RowIsSeen ==
  ASSUME layout \in Layouts, NEW i \in 0 .. HeightInBlocks(1) - 1, NEW embedded \in BOOLEAN,
         NEW contents, NEW w, w = IF embedded THEN RowsOf(1) ELSE 0, HoldsRow(1, contents, i, w)
  PROVE  \A col \in 0 .. WidthInBlocks(1) - 1 : contents[col] = TheBlock(embedded, 1, i, col)
<1>1. /\ HeightInBlocks(1) \in Nat \ {0} /\ HeightInBlocks(1) <= RowsOf(1) /\ RowsOf(1) \in Nat
      /\ WidthInBlocks(1) \in Nat \ {0} /\ WidthInBlocks(1) <= ColsOf(1) /\ ColsOf(1) \in Nat
  BY ImageFitsTheArray, SizesOfAnImage
<1>2. i < w <=> embedded
  BY <1>1
<1> SUFFICES ASSUME NEW col \in 0 .. WidthInBlocks(1) - 1
             PROVE  contents[col] = TheBlock(embedded, 1, i, col)
  BY Zenon
<1>3. col \in 0 .. ColsOf(1) - 1 /\ i < HeightInBlocks(1) /\ col < WidthInBlocks(1)
  BY <1>1
<1>4. contents[col] = TheBlock(i < w, 1, i, col)
  BY <1>3, Zenon DEF HoldsRow, HoldsBlock, IsInImage
<1> QED BY <1>2, <1>4, Zenon DEF TheBlock

LEMMA LoadRowKeeps ==
  ASSUME GeometryInvariant, LoadRow
  PROVE  GeometryInvariant'
<1> DEFINE n == Len(scans)
           embedded == pass = "stego"
           w == IF embedded THEN RowsOf(1) ELSE 0
           acc == ThisRow(FALSE)
           next == [arrays EXCEPT ![1] = acc]
           loaded == collection \o [c \in 1 .. WidthInBlocks(1) |-> RowAt(next[1], iMCU)[c - 1]]
<1>1. /\ layout \in Layouts /\ room \in MinHeights /\ Phases(n, gpc, pass, scan, iMCU)
      /\ IsFile(n, scans, embedded) /\ ArraysHold(n, gpc, pass, scan, iMCU, arrays)
      /\ collection = InOrderTo(RowsLoadedOf(gpc, pass, iMCU), embedded)
      /\ IsWritten(MCUs_out, RowsWritten(gpc, pass, iMCU))
  BY InvariantHolds
<1>2. gpc = "load" /\ iMCU < HeightInBlocks(1)
  BY DEF LoadRow
<1>3. /\ 1 \in Comps /\ HeightInBlocks(1) \in Nat \ {0} /\ HeightInBlocks(1) <= RowsOf(1)
      /\ RowsOf(1) \in Nat /\ AccessRows(1) \in Nat \ {0}
  BY <1>1, ImageFitsTheArray, SizesOfAnImage
<1>4. /\ iMCU \in 0 .. HeightInBlocks(1) - 1 /\ iMCU \in Nat /\ scan \in 1 .. n + 1
      /\ pass \in {"collection", "stego"}
  <2>1. /\ iMCU \in Nat /\ scan \in 1 .. n + 1 /\ pass \in {"collection", "clone", "stego"} /\ pass # "clone"
    BY <1>1, <1>2, Zenon DEF Phases
  <2> HIDE DEF n
  <2> QED BY <1>2, <1>3, <2>1
<1>5. /\ arrays = [ci \in Comps |-> arrays[ci]]
      /\ \A ci \in Comps : HoldsArray(ci, arrays[ci], RowsOf(ci), IF embedded THEN RowsOf(ci) ELSE 0)
  <2>1. \A ci : RowsRead(n, gpc, scan, iMCU, ci) = RowsOf(ci)
    BY <1>2 DEF RowsRead
  <2>2. \A ci : WetRows(gpc, pass, iMCU, ci) = IF embedded THEN RowsOf(ci) ELSE 0
    BY <1>2 DEF WetRows
  <2>3. ASSUME NEW ci \in Comps
        PROVE  HoldsArray(ci, arrays[ci], RowsOf(ci), IF embedded THEN RowsOf(ci) ELSE 0)
    <3> DEFINE its == IF embedded THEN RowsOf(ci) ELSE 0
    <3>1. WetRows(gpc, pass, iMCU, ci) = its
      BY <2>2, Zenon
    <3> HIDE DEF its
    <3>2. HoldsArray(ci, arrays[ci], RowsOf(ci), its)
      BY <1>1, <2>1, <3>1, Zenon DEF ArraysHold
    <3> QED BY <3>2, Zenon DEF its
  <2> QED BY <1>1, <2>3, Zenon DEF ArraysHold
<1>6. acc = Accessed(arrays[1], iMCU, iMCU + 1, FALSE, ZeroRow(1))
  BY Zenon DEF ThisRow
<1>7. embedded \in BOOLEAN
  OBVIOUS
<1> HIDE DEF acc, embedded
<1>8. HoldsArray(1, arrays[1], RowsOf(1), w)
  BY <1>3, <1>5, Zenon
<1>9. /\ acc.error = "none" /\ HoldsArray(1, acc, RowsOf(1), w)
      /\ HoldsRow(1, RowAt(acc, iMCU), iMCU, w)
  <2> DEFINE end == iMCU + 1
             rows == RowsOf(1)
  <2>1. /\ end \in Nat /\ iMCU < end /\ end <= rows /\ end - iMCU <= AccessRows(1)
        /\ iMCU \in iMCU .. end - 1 /\ rows \in Nat /\ rows <= rows
    BY <1>3, <1>4
  <2>3. acc = Accessed(arrays[1], iMCU, end, FALSE, ZeroRow(1)) /\ HoldsArray(1, arrays[1], rows, w)
        /\ rows <= RowsOf(1)
    BY <1>6, <1>8, <2>1
  <2> HIDE DEF w, end, rows
  <2>2. /\ acc.error = "none" /\ HoldsArray(1, acc, rows, w)
        /\ \A r \in iMCU .. end - 1 : HoldsRow(1, RowAt(acc, r), r, w)
    <3>1. MaySee(1, arrays[1], rows, w, iMCU, end, acc)
      BY <1>4, <2>1, <2>3, Zenon DEF MaySee
    <3> QED BY <1>1, <1>3, <3>1, RowsAreShown, Zenon
  <2> USE DEF rows
  <2> QED BY <2>1, <2>2, Zenon
<1>10. /\ next = [ci \in Comps |-> next[ci]] /\ next[1] = acc
       /\ \A ci \in Comps : ci # 1 => next[ci] = arrays[ci]
  BY <1>3, <1>5
<1> HIDE DEF next
<1>11. ASSUME NEW ci \in Comps
       PROVE  /\ next[ci].error = "none"
              /\ HoldsArray(ci, next[ci], RowsOf(ci), IF embedded THEN RowsOf(ci) ELSE 0)
  <2>1. CASE ci = 1
    BY <1>9, <1>10, <2>1, Zenon
  <2>2. CASE ci # 1
    BY <1>5, <1>10, <2>2, Zenon DEF HoldsArray
  <2> QED BY <2>1, <2>2
<1>12. Fine(next)
  BY <1>11, Zenon DEF Fine
<1>13. loaded = InOrderTo(iMCU + 1, embedded)
  <2>1. collection = InOrderTo(iMCU, embedded)
    BY <1>1, <1>2, Zenon DEF RowsLoadedOf
  <2>2. \A col \in 0 .. WidthInBlocks(1) - 1 : RowAt(acc, iMCU)[col] = TheBlock(embedded, 1, iMCU, col)
    BY <1>1, <1>4, <1>7, <1>9, RowIsSeen
  <2> DEFINE contents == RowAt(acc, iMCU)
  <2> HIDE DEF contents
  <2>3. InOrderTo(iMCU, embedded) \o [c \in 1 .. WidthInBlocks(1) |-> contents[c - 1]] = InOrderTo(iMCU + 1, embedded)
    BY <1>1, <1>4, <2>2, RowIsLoaded DEF contents
  <2>4. loaded = collection \o [c \in 1 .. WidthInBlocks(1) |-> contents[c - 1]]
    BY <1>10, Zenon DEF contents
  <2> QED BY <2>1, <2>3, <2>4, Zenon
<1> HIDE DEF loaded
<1>14. /\ arrays' = next /\ collection' = loaded /\ iMCU' = iMCU + 1 /\ gpc' = "load"
       /\ pass' = pass /\ layout' = layout /\ room' = room /\ scans' = scans /\ scan' = scan
       /\ MCUs_out' = MCUs_out
  <2>1. /\ arrays' = next
        /\ IF Fine(arrays')
           THEN /\ collection' = collection
                     \o [c \in 1 .. WidthInBlocks(1) |-> RowAt(arrays'[1], iMCU)[c - 1]]
                /\ iMCU' = iMCU + 1 /\ UNCHANGED gpc
           ELSE gpc' = "error" /\ UNCHANGED <<collection, iMCU>>
        /\ UNCHANGED <<pass, layout, room, scans, scan, MCUs_out>>
    BY Zenon DEF LoadRow, next, acc
  <2>2. Fine(arrays')
    BY <1>12, <2>1, Zenon
  <2>3. collection' = collection \o [c \in 1 .. WidthInBlocks(1) |-> RowAt(next[1], iMCU)[c - 1]]
    BY <2>1, <2>2, Zenon
  <2> QED BY <1>2, <2>1, <2>2, <2>3 DEF loaded
<1>15. Phases(n, "load", pass, scan, iMCU + 1)
  <2>1. iMCU + 1 \in Nat /\ iMCU + 1 <= HeightInBlocks(1)
    BY <1>3, <1>4
  <2> HIDE DEF n
  <2> QED BY <1>4, <2>1 DEF Phases
<1>16. ArraysHold(n, "load", pass, scan, iMCU + 1, next)
  <2>1. \A i, ci : RowsRead(n, "load", scan, i, ci) = RowsOf(ci)
    BY DEF RowsRead
  <2>2. \A i, ci : WetRows("load", pass, i, ci) = IF embedded THEN RowsOf(ci) ELSE 0
    BY DEF WetRows, embedded
  <2> QED BY <1>10, <1>11, <2>1, <2>2, Zenon DEF ArraysHold
<1>17. /\ RowsLoadedOf("load", pass, iMCU + 1) = iMCU + 1
       /\ RowsWritten("load", pass, iMCU + 1) = RowsWritten(gpc, pass, iMCU)
  BY <1>2 DEF RowsLoadedOf, RowsWritten
<1>18. Holds(n, "load", pass, scans, scan, iMCU + 1, next, loaded, MCUs_out)
  BY <1>1, <1>13, <1>15, <1>16, <1>17, Zenon DEF Holds, embedded
<1>19. Holds(Len(scans'), gpc', pass', scans', scan', iMCU', arrays', collection', MCUs_out')
  BY <1>14, <1>18, Zenon
<1> QED BY <1>1, <1>14, <1>19, InvariantStays, Zenon

-----------------------------------------------------------------------------
LEMMA RowsLoadedKeeps ==
  ASSUME GeometryInvariant, RowsLoaded
  PROVE  GeometryInvariant'
<1> DEFINE n == Len(scans)
<1>1. /\ layout \in Layouts /\ room \in MinHeights /\ Phases(n, gpc, pass, scan, iMCU)
      /\ IsFile(n, scans, pass = "stego") /\ ArraysHold(n, gpc, pass, scan, iMCU, arrays)
      /\ collection = InOrderTo(RowsLoadedOf(gpc, pass, iMCU), pass = "stego")
      /\ IsWritten(MCUs_out, RowsWritten(gpc, pass, iMCU))
  BY InvariantHolds
<1>2. /\ gpc = "load" /\ iMCU = HeightInBlocks(1)
      /\ layout' = layout /\ room' = room /\ scans' = scans /\ collection' = collection
      /\ MCUs_out' = MCUs_out
  BY DEF RowsLoaded
<1>3. n \in {1, Len(layout.comps)}
  BY <1>1, Zenon DEF IsFile
<1>4. collection = InOrderTo(HeightInBlocks(1), pass = "stego")
  BY <1>1, <1>2, Zenon DEF RowsLoadedOf
<1>5. CASE pass = "collection"
  <2>1. gpc' = "read" /\ pass' = "clone" /\ arrays' = NewArrays /\ scan' = 1 /\ iMCU' = 0
    BY <1>5 DEF RowsLoaded
  <2>2. Phases(n, "read", "clone", 1, 0) /\ ArraysHold(n, "read", "clone", 1, 0, NewArrays)
    BY <1>1, <1>3, ReadingBegins
  <2>3. /\ (pass = "stego") = FALSE /\ ("clone" = "stego") = FALSE
        /\ RowsLoadedOf("read", "clone", 0) = HeightInBlocks(1)
        /\ RowsWritten("read", "clone", 0) = 0 /\ RowsWritten(gpc, pass, iMCU) = 0
    BY <1>2, <1>5 DEF RowsLoadedOf, RowsWritten
  <2>4. Holds(n, "read", "clone", scans, 1, 0, NewArrays, collection, MCUs_out)
    BY <1>1, <1>4, <2>2, <2>3, Zenon DEF Holds
  <2>5. Holds(Len(scans'), gpc', pass', scans', scan', iMCU', arrays', collection', MCUs_out')
    BY <1>2, <2>1, <2>4, Zenon
  <2> QED BY <1>1, <1>2, <2>5, InvariantStays, Zenon
<1>6. CASE pass # "collection"
  <2>1. gpc' = "loaded" /\ pass' = pass /\ arrays' = arrays /\ scan' = scan /\ iMCU' = iMCU
    BY <1>6 DEF RowsLoaded
  <2>2. pass = "stego"
    BY <1>1, <1>2, <1>6 DEF Phases
  <2>3. Phases(n, "loaded", pass, scan, iMCU)
    BY <1>1, <1>2, <2>2 DEF Phases
  <2>4. \A ci : /\ RowsRead(n, "loaded", scan, iMCU, ci) = RowsRead(n, gpc, scan, iMCU, ci)
                /\ WetRows("loaded", pass, iMCU, ci) = WetRows(gpc, pass, iMCU, ci)
    BY <1>2, <2>2 DEF RowsRead, WetRows
  <2>5. ArraysHold(n, "loaded", pass, scan, iMCU, arrays)
    BY <1>1, <2>4, Zenon DEF ArraysHold
  <2>6. /\ RowsLoadedOf("loaded", pass, iMCU) = HeightInBlocks(1)
        /\ RowsWritten("loaded", pass, iMCU) = RowsWritten(gpc, pass, iMCU)
    BY <1>2, <2>2 DEF RowsLoadedOf, RowsWritten
  <2>7. Holds(n, "loaded", pass, scans, scan, iMCU, arrays, collection, MCUs_out)
    BY <1>1, <1>4, <2>3, <2>5, <2>6, Zenon DEF Holds
  <2>8. Holds(Len(scans'), gpc', pass', scans', scan', iMCU', arrays', collection', MCUs_out')
    BY <1>2, <2>1, <2>7, Zenon
  <2> QED BY <1>1, <1>2, <2>8, InvariantStays, Zenon
<1> QED BY <1>5, <1>6

LEMMA SaveRowKeeps ==
  ASSUME GeometryInvariant, SaveRow
  PROVE  GeometryInvariant'
<1> DEFINE n == Len(scans)
           acc == ThisRow(TRUE)
           saved == [r \in {iMCU} |-> [col \in DOMAIN RowAt(acc, iMCU) |->
                      IF col < WidthInBlocks(1)
                      THEN [collection[iMCU * WidthInBlocks(1) + col + 1] EXCEPT !.ac = "wet"]
                      ELSE RowAt(acc, iMCU)[col]]]
           next == [arrays EXCEPT ![1] = Stored(acc, saved)]
           i2 == iMCU + 1
<1>1. /\ layout \in Layouts /\ room \in MinHeights /\ Phases(n, gpc, pass, scan, iMCU)
      /\ IsFile(n, scans, pass = "stego") /\ ArraysHold(n, gpc, pass, scan, iMCU, arrays)
      /\ collection = InOrderTo(RowsLoadedOf(gpc, pass, iMCU), pass = "stego")
      /\ IsWritten(MCUs_out, RowsWritten(gpc, pass, iMCU))
  BY InvariantHolds
<1>2. gpc = "save" /\ iMCU < HeightInBlocks(1)
  BY DEF SaveRow
<1>3. /\ 1 \in Comps /\ HeightInBlocks(1) \in Nat \ {0} /\ HeightInBlocks(1) <= RowsOf(1)
      /\ RowsOf(1) \in Nat
      /\ \A ci \in Comps : HeightInBlocks(ci) \in Nat /\ RowsOf(ci) \in Nat
  BY <1>1, ImageFitsTheArray, SizesOfAnImage
<1>4. /\ iMCU \in 0 .. HeightInBlocks(1) - 1 /\ iMCU \in Nat /\ scan \in 1 .. n + 1
      /\ pass = "clone" /\ i2 \in Nat /\ i2 <= HeightInBlocks(1)
  <2>1. iMCU \in Nat /\ scan \in 1 .. n + 1 /\ pass = "clone"
    BY <1>1, <1>2 DEF Phases
  <2> HIDE DEF n
  <2> QED BY <1>2, <1>3, <2>1
<1>5. (pass = "stego") = FALSE
  BY <1>4
<1>6. collection = InOrderTo(HeightInBlocks(1), FALSE)
  BY <1>1, <1>2, <1>4, <1>5, Zenon DEF RowsLoadedOf
<1>7. \A i, ci : RowsRead(n, "save", scan, i, ci) = RowsOf(ci) /\ WetRows("save", pass, i, ci) = i
  BY <1>4 DEF RowsRead, WetRows
<1>8. /\ arrays = [ci \in Comps |-> arrays[ci]]
      /\ \A ci \in Comps : HoldsArray(ci, arrays[ci], RowsOf(ci), iMCU)
  BY <1>1, <1>2, <1>7, Zenon DEF ArraysHold
<1>9. acc = Accessed(arrays[1], iMCU, iMCU + 1, TRUE, ZeroRow(1))
  BY Zenon DEF ThisRow
<1>10. acc.error = "none" /\ HoldsArray(1, Stored(acc, saved), RowsOf(1), iMCU + 1)
  <2> DEFINE these == saved
  <2>1. these = [r \in {iMCU} |-> [col \in DOMAIN RowAt(acc, iMCU) |->
                  IF col < WidthInBlocks(1)
                  THEN [collection[iMCU * WidthInBlocks(1) + col + 1] EXCEPT !.ac = "wet"]
                  ELSE RowAt(acc, iMCU)[col]]]
    BY Zenon
  <2> HIDE DEF these, acc
  <2>2. HoldsArray(1, arrays[1], RowsOf(1), iMCU)
    BY <1>3, <1>8, Zenon
  <2>3. acc.error = "none" /\ HoldsArray(1, Stored(acc, these), RowsOf(1), iMCU + 1)
    BY <1>1, <1>4, <1>6, <1>9, <2>1, <2>2, RowIsSaved
  <2> QED BY <2>3, Zenon DEF these
<1> HIDE DEF acc, saved
<1>11. /\ next = [ci \in Comps |-> next[ci]] /\ next[1] = Stored(acc, saved)
       /\ \A ci \in Comps : ci # 1 => next[ci] = arrays[ci]
  BY <1>3, <1>8
<1>12. /\ arrays' = next /\ gpc' = "save" /\ iMCU' = i2 /\ pass' = pass /\ layout' = layout
       /\ room' = room /\ scans' = scans /\ scan' = scan /\ collection' = collection
       /\ MCUs_out' = MCUs_out
  <2>1. arrays' = next /\ gpc' = gpc
    BY <1>10, Zenon DEF SaveRow, acc, saved
  <2>2. /\ iMCU' = i2 /\ pass' = pass /\ layout' = layout
        /\ room' = room /\ scans' = scans /\ scan' = scan /\ collection' = collection
        /\ MCUs_out' = MCUs_out
    BY DEF SaveRow
  <2> QED BY <1>2, <2>1, <2>2, Zenon
<1> HIDE DEF next
<1>13. ASSUME NEW ci \in Comps
       PROVE  HoldsArray(ci, next[ci], RowsOf(ci), i2)
  <2>1. CASE ci = 1
    BY <1>10, <1>11, <2>1, Zenon
  <2>2. CASE ci # 1
    <3>1. HoldsArray(ci, arrays[ci], RowsOf(ci), iMCU)
      BY <1>8, Zenon
    <3>2. HoldsArray(ci, arrays[ci], RowsOf(ci), i2)
      BY <2>2, <3>1, WetRowsAreTheSame
    <3> QED BY <1>11, <2>2, <3>2, Zenon
  <2> QED BY <2>1, <2>2
<1> HIDE DEF i2
<1>14. Phases(n, "save", pass, scan, i2)
  <2> HIDE DEF n
  <2> QED BY <1>4 DEF Phases
<1>15. ArraysHold(n, "save", pass, scan, i2, next)
  BY <1>7, <1>11, <1>13, Zenon DEF ArraysHold
<1>16. /\ RowsLoadedOf("save", pass, i2) = RowsLoadedOf(gpc, pass, iMCU)
       /\ RowsWritten("save", pass, i2) = RowsWritten(gpc, pass, iMCU)
  BY <1>2 DEF RowsLoadedOf, RowsWritten
<1>17. Holds(n, "save", pass, scans, scan, i2, next, collection, MCUs_out)
  BY <1>1, <1>14, <1>15, <1>16, Zenon DEF Holds
<1>18. Holds(Len(scans'), gpc', pass', scans', scan', iMCU', arrays', collection', MCUs_out')
  BY <1>12, <1>17, Zenon
<1> QED BY <1>1, <1>12, <1>18, InvariantStays, Zenon

\* The dummy rows below the image need no message.
LEMMA RowsSavedKeeps ==
  ASSUME GeometryInvariant, RowsSaved
  PROVE  GeometryInvariant'
<1> DEFINE n == Len(scans)
<1>1. /\ layout \in Layouts /\ room \in MinHeights /\ Phases(n, gpc, pass, scan, iMCU)
      /\ IsFile(n, scans, pass = "stego") /\ ArraysHold(n, gpc, pass, scan, iMCU, arrays)
      /\ collection = InOrderTo(RowsLoadedOf(gpc, pass, iMCU), pass = "stego")
      /\ IsWritten(MCUs_out, RowsWritten(gpc, pass, iMCU))
  BY InvariantHolds
<1>2. /\ gpc = "save" /\ iMCU = HeightInBlocks(1) /\ gpc' = "write" /\ iMCU' = 0
      /\ pass' = pass /\ layout' = layout /\ room' = room /\ scans' = scans /\ scan' = scan
      /\ arrays' = arrays /\ collection' = collection /\ MCUs_out' = MCUs_out
  BY DEF RowsSaved
<1>3. pass = "clone" /\ scan \in 1 .. n + 1 /\ TotaliMCURows \in Nat
  BY <1>1, <1>2, SizesOfAnImage DEF Phases
<1>4. Phases(n, "write", pass, scan, 0)
  <2> HIDE DEF n
  <2> QED BY <1>3 DEF Phases
<1>5. ASSUME NEW ci \in Comps
      PROVE  HoldsArray(ci, arrays[ci], RowsRead(n, "write", scan, 0, ci), WetRows("write", pass, 0, ci))
  <2>1. /\ RowsRead(n, gpc, scan, iMCU, ci) = RowsOf(ci) /\ RowsRead(n, "write", scan, 0, ci) = RowsOf(ci)
        /\ WetRows(gpc, pass, iMCU, ci) = iMCU /\ WetRows("write", pass, 0, ci) = RowsOf(ci)
    BY <1>2, <1>3 DEF RowsRead, WetRows
  <2>2. HoldsArray(ci, arrays[ci], RowsOf(ci), HeightInBlocks(1))
    BY <1>1, <1>2, <2>1, Zenon DEF ArraysHold
  <2>3. \A r \in 0 .. RowsOf(ci) - 1 :
          (r < HeightInBlocks(1) <=> r < RowsOf(ci)) \/ ci # 1 \/ ~(r < HeightInBlocks(ci))
    <3>1. HeightInBlocks(ci) \in Nat /\ HeightInBlocks(ci) <= RowsOf(ci) /\ RowsOf(ci) \in Nat
      BY <1>1, ImageFitsTheArray
    <3> QED BY <3>1
  <2>4. HoldsArray(ci, arrays[ci], RowsOf(ci), RowsOf(ci))
    BY <2>2, <2>3, WetRowsAreTheSame
  <2> QED BY <2>1, <2>4, Zenon
<1>6. ArraysHold(n, "write", pass, scan, 0, arrays)
  BY <1>1, <1>5, Zenon DEF ArraysHold
<1>7. /\ RowsLoadedOf("write", pass, 0) = RowsLoadedOf(gpc, pass, iMCU)
      /\ RowsWritten("write", pass, 0) = RowsWritten(gpc, pass, iMCU)
  <2>1. RowsOut(0) = 0
    BY <1>1, RowsAreCounted
  <2> QED BY <1>2, <1>3, <2>1 DEF RowsLoadedOf, RowsWritten
<1>8. Holds(n, "write", pass, scans, scan, 0, arrays, collection, MCUs_out)
  BY <1>1, <1>4, <1>6, <1>7, Zenon DEF Holds
<1>9. Holds(Len(scans'), gpc', pass', scans', scan', iMCU', arrays', collection', MCUs_out')
  BY <1>2, <1>8, Zenon
<1> QED BY <1>1, <1>2, <1>9, InvariantStays, Zenon

-----------------------------------------------------------------------------
LEMMA StripIsShown ==
  ASSUME layout \in Layouts, room \in MinHeights, NEW ci \in Comps,
         iMCU \in 0 .. TotaliMCURows - 1, NEW a, HoldsArray(ci, a, RowsOf(ci), RowsOf(ci)),
         NEW acc, acc = Accessed(a, iMCU * VSamp(ci), (iMCU + 1) * VSamp(ci), FALSE, ZeroRow(ci))
  PROVE  /\ acc.error = "none" /\ HoldsArray(ci, acc, RowsOf(ci), RowsOf(ci))
         /\ ShowsStrip(acc, ci, TRUE)
<1> DEFINE v == VSamp(ci)
           t == TotaliMCURows
           rows == RowsOf(ci)
           start == iMCU * v
           end == (iMCU + 1) * v
<1>1. v \in Nat \ {0} /\ t \in Nat \ {0} /\ v <= AccessRows(ci) /\ AccessRows(ci) \in Nat /\ rows = t * v
  BY SizesOfAnImage, Zenon DEF RowsOf
<1>2. acc = Accessed(a, start, end, FALSE, ZeroRow(ci)) /\ HoldsArray(ci, a, rows, rows)
  BY Zenon
<1>3. iMCU \in 0 .. t - 1
  BY Zenon
<1> HIDE DEF v, t, rows
<1>4. iMCU \in Nat /\ iMCU + 1 \in Nat /\ iMCU + 1 <= t
  BY <1>1, <1>3
<1>5. start \in Nat /\ end = start + v /\ end <= t * v /\ t * v \in Nat
  BY <1>1, <1>4, Products, ProductsGrow
<1> HIDE DEF start, end
<1>6. /\ rows \in Nat /\ rows <= rows /\ end \in Nat /\ start < end /\ end <= rows
      /\ end - start <= AccessRows(ci)
  BY <1>1, <1>5
<1>7. MaySee(ci, a, rows, rows, start, end, acc)
  <2>1. rows <= RowsOf(ci)
    BY <1>6, Zenon DEF rows
  <2> QED BY <1>2, <1>5, <1>6, <2>1, Zenon DEF MaySee
<1>8. /\ acc.error = "none" /\ HoldsArray(ci, acc, rows, rows)
      /\ \A r \in start .. end - 1 : HoldsRow(ci, RowAt(acc, r), r, rows)
  BY <1>7, RowsAreShown, Zenon
<1>9. ASSUME NEW r \in start .. end - 1, NEW col \in 0 .. ColsOf(ci) - 1
      PROVE  HoldsBlock(RowAt(acc, r)[col], TRUE, ci, r, col)
  <2>1. (r < rows) = TRUE
    BY <1>5, <1>6
  <2>2. HoldsBlock(RowAt(acc, r)[col], r < rows, ci, r, col)
    BY <1>8, Zenon DEF HoldsRow
  <2> QED BY <2>1, <2>2, Zenon
<1>10. ShowsStrip(acc, ci, TRUE)
  BY <1>9, Zenon DEF ShowsStrip, start, end, v
<1> QED BY <1>8, <1>10, Zenon DEF rows

LEMMA CompressOutputKeeps ==
  ASSUME GeometryInvariant, CompressOutput
  PROVE  GeometryInvariant'
<1> DEFINE n == Len(scans)
           aligned == Aligned(AllComps, FALSE)
           no == MCURowsPeriMCURow(AllComps, iMCU)
           per == MCUsPerRow(AllComps)
           out == MCUs_out \o [m \in 1 .. no * per |->
                    MCUOut(AllComps, aligned, (m - 1) \div per, (m - 1) % per)]
           i2 == iMCU + 1
<1>1. /\ layout \in Layouts /\ room \in MinHeights /\ Phases(n, gpc, pass, scan, iMCU)
      /\ IsFile(n, scans, pass = "stego") /\ ArraysHold(n, gpc, pass, scan, iMCU, arrays)
      /\ collection = InOrderTo(RowsLoadedOf(gpc, pass, iMCU), pass = "stego")
      /\ IsWritten(MCUs_out, RowsWritten(gpc, pass, iMCU))
  BY InvariantHolds
<1>2. gpc = "write" /\ iMCU < TotaliMCURows
  BY DEF CompressOutput
<1>3. /\ iMCU \in 0 .. TotaliMCURows - 1 /\ iMCU \in Nat /\ scan \in 1 .. n + 1 /\ pass = "clone"
      /\ i2 \in Nat /\ i2 <= TotaliMCURows
  <2>1. iMCU \in Nat /\ scan \in 1 .. n + 1 /\ pass = "clone" /\ TotaliMCURows \in Nat
    BY <1>1, <1>2, SizesOfAnImage DEF Phases
  <2> HIDE DEF n
  <2> QED BY <1>2, <2>1
<1>4. \A i, ci : RowsRead(n, "write", scan, i, ci) = RowsOf(ci) /\ WetRows("write", pass, i, ci) = RowsOf(ci)
  BY DEF RowsRead, WetRows
<1>5. ASSUME NEW ci \in Comps
      PROVE  /\ aligned[ci].error = "none" /\ HoldsArray(ci, aligned[ci], RowsOf(ci), RowsOf(ci))
             /\ ShowsStrip(aligned[ci], ci, TRUE)
  <2>1. ci \in Range(AllComps)
    BY <1>1, AllCompsIsAScan, Zenon DEF Range
  <2>2. aligned[ci] = Accessed(arrays[ci], iMCU * VSamp(ci), (iMCU + 1) * VSamp(ci), FALSE, ZeroRow(ci))
    BY <2>1, Zenon DEF Aligned
  <2>3. HoldsArray(ci, arrays[ci], RowsOf(ci), RowsOf(ci))
    BY <1>1, <1>2, <1>4, Zenon DEF ArraysHold
  <2> HIDE DEF aligned
  <2> QED BY <1>1, <1>3, <2>2, <2>3, StripIsShown
<1>6. aligned = [ci \in Comps |-> aligned[ci]]
  BY DEF Aligned
<1>7. Fine(aligned)
  BY <1>5, Zenon DEF Fine
<1> HIDE DEF aligned
<1>8. IsWritten(out, RowsOut(i2))
  <2>1. IsWritten(MCUs_out, RowsOut(iMCU))
    BY <1>1, <1>2, <1>3 DEF RowsWritten
  <2> HIDE DEF no, per
  <2>2. no = MCURowsPeriMCURow(AllComps, iMCU) /\ per = MCUsPerRow(AllComps)
    BY Zenon DEF no, per
  <2>3. \A ci \in Comps : ShowsStrip(aligned[ci], ci, TRUE)
    BY <1>5, Zenon
  <2> QED BY <1>1, <1>3, <2>1, <2>2, <2>3, RowIsWritten
<1>9. /\ arrays' = aligned /\ gpc' = "write" /\ iMCU' = i2 /\ MCUs_out' = out
      /\ pass' = pass /\ layout' = layout /\ room' = room /\ scans' = scans /\ scan' = scan
      /\ collection' = collection
  <2>1. arrays' = aligned /\ MCUs_out' = out /\ gpc' = gpc
    BY <1>7, Zenon DEF CompressOutput, aligned
  <2>2. /\ iMCU' = i2 /\ pass' = pass /\ layout' = layout /\ room' = room /\ scans' = scans
        /\ scan' = scan /\ collection' = collection
    BY DEF CompressOutput
  <2> QED BY <1>2, <2>1, <2>2, Zenon
<1> HIDE DEF out, i2
<1>10. Phases(n, "write", pass, scan, i2)
  <2> HIDE DEF n
  <2> QED BY <1>3 DEF Phases
<1>11. ArraysHold(n, "write", pass, scan, i2, aligned)
  BY <1>4, <1>5, <1>6, Zenon DEF ArraysHold
<1>12. RowsLoadedOf("write", pass, i2) = RowsLoadedOf(gpc, pass, iMCU)
  BY <1>2 DEF RowsLoadedOf
<1>13. RowsWritten("write", pass, i2) = RowsOut(i2)
  BY <1>3 DEF RowsWritten
<1>14. Holds(n, "write", pass, scans, scan, i2, aligned, collection, out)
  BY <1>1, <1>8, <1>10, <1>11, <1>12, <1>13, Zenon DEF Holds
<1>15. Holds(Len(scans'), gpc', pass', scans', scan', iMCU', arrays', collection', MCUs_out')
  BY <1>9, <1>14, Zenon
<1> QED BY <1>1, <1>9, <1>15, InvariantStays, Zenon

LEMMA ReadStegoKeeps ==
  ASSUME GeometryInvariant, ReadStego
  PROVE  GeometryInvariant'
<1> DEFINE copy == <<[comps |-> AllComps, MCUs |-> MCUs_out]>>
<1>1. /\ layout \in Layouts /\ room \in MinHeights /\ Phases(Len(scans), gpc, pass, scan, iMCU)
      /\ IsWritten(MCUs_out, RowsWritten(gpc, pass, iMCU))
  BY InvariantHolds
<1>2. /\ gpc = "write" /\ iMCU = TotaliMCURows /\ gpc' = "read" /\ pass' = "stego"
      /\ scans' = copy /\ scan' = 1 /\ iMCU' = 0 /\ arrays' = NewArrays /\ collection' = << >>
      /\ layout' = layout /\ room' = room /\ MCUs_out' = MCUs_out
  BY DEF ReadStego
<1>3. /\ Phases(1, "read", "stego", 1, 0) /\ ArraysHold(1, "read", "stego", 1, 0, NewArrays)
  BY <1>1, ReadingBegins
<1>4. InOrderTo(RowsLoadedOf("read", "stego", 0), TRUE) = << >>
  <2>1. RowsLoadedOf("read", "stego", 0) = 0
    BY DEF RowsLoadedOf
  <2> QED BY <1>1, <2>1, NothingIsInOrder
<1>5. IsWritten(MCUs_out, RowsOut(TotaliMCURows)) /\ RowsOut(TotaliMCURows) = MCURowsOf(AllComps)
  <2>1. pass # "stego"
    BY <1>1, <1>2 DEF Phases
  <2> QED BY <1>1, <1>2, <2>1, RowsAreCounted DEF RowsWritten
<1>6. HoldsMCUs(AllComps, MCUs_out, TRUE)
  <2>1. MCURowsOf(AllComps) \in Nat /\ MCUsPerRow(AllComps) \in Nat
    BY <1>1, AllCompsIsAScan, SizesOfAScan
  <2>2. MCURowsOf(AllComps) * MCUsPerRow(AllComps) = MCUsOf(AllComps)
    BY <2>1 DEF MCUsOf
  <2> QED BY <1>5, <2>2, Zenon DEF IsWritten, HoldsMCUs
<1>7. IsFile(1, copy, TRUE)
  <2>1. IsOfLength(copy, 1) /\ copy[1].comps = AllComps /\ copy[1].MCUs = MCUs_out
        /\ \A s \in 1 .. 1 : s = 1
    BY DEF IsOfLength
  <2> HIDE DEF copy
  <2> QED BY <1>6, <2>1, Zenon DEF IsFile, CompsOf
<1>8. RowsWritten("read", "stego", 0) = RowsOut(TotaliMCURows) /\ ("stego" = "stego") = TRUE
  BY DEF RowsWritten
<1>9. Len(copy) = 1
  OBVIOUS
<1> HIDE DEF copy
<1>10. Holds(1, "read", "stego", copy, 1, 0, NewArrays, << >>, MCUs_out)
  BY <1>3, <1>4, <1>5, <1>7, <1>8, Zenon DEF Holds
<1>11. Holds(Len(scans'), gpc', pass', scans', scan', iMCU', arrays', collection', MCUs_out')
  BY <1>2, <1>9, <1>10, Zenon
<1> QED BY <1>1, <1>2, <1>11, InvariantStays, Zenon

-----------------------------------------------------------------------------
(***************************************************************************)
(* What the invariant says of the file and of the collections              *)
(***************************************************************************)
LEMMA CollectionIsInOrder ==
  ASSUME layout \in Layouts
  PROVE  /\ InOrderTo(HeightInBlocks(1), FALSE) = InOrder(ABlock)
         /\ InOrderTo(HeightInBlocks(1), TRUE) = InOrder(WetBlock)
<1> DEFINE h == HeightInBlocks(1)
           w == WidthInBlocks(1)
<1>1. h \in Nat /\ w \in Nat
  BY SizesOfAnImage
<1>2. h * w = w * h
  BY <1>1
<1>3. /\ \A row, col : TheBlock(FALSE, 1, row, col) = ABlock(1, row, col)
      /\ \A row, col : TheBlock(TRUE, 1, row, col) = WetBlock(1, row, col)
  BY DEF TheBlock
<1>4. \A embedded : InOrderTo(h, embedded) = [k \in 1 .. h * w |-> TheBlock(embedded, 1, (k - 1) \div w, (k - 1) % w)]
  BY Zenon DEF InOrderTo
<1> HIDE DEF h, w
<1>5. \A embedded : InOrderTo(h, embedded) = [k \in 1 .. w * h |-> TheBlock(embedded, 1, (k - 1) \div w, (k - 1) % w)]
  BY <1>2, <1>4
<1>6. InOrderTo(h, FALSE) = [n \in 1 .. w * h |-> ABlock(1, (n - 1) \div w, (n - 1) % w)]
  BY <1>3, <1>5
<1>7. InOrderTo(h, TRUE) = [n \in 1 .. w * h |-> WetBlock(1, (n - 1) \div w, (n - 1) % w)]
  BY <1>3, <1>5
<1> QED BY <1>6, <1>7 DEF InOrder, h, w

\* Block b of MCU m is a block of the image.
IsBlockOf(m, blocks, b, block) ==
  /\ m \in 1 .. MCUsOf(AllComps) /\ HoldsMCU(AllComps, m, blocks, TRUE)
  /\ b \in 1 .. BlocksInMCU(AllComps)
  /\ block = StandardMCUs(AllComps, TRUE)[m][b] /\ block # Padding

LEMMA MCUHasTheBlocks ==
  ASSUME layout \in Layouts, NEW m, NEW blocks, NEW b, NEW block, IsBlockOf(m, blocks, b, block)
  PROVE  blocks[b] = block
<1> USE DEF IsBlockOf
<1> DEFINE parts == StandardParts(AllComps, TRUE, m)
           standard == StandardMCUs(AllComps, TRUE)[m]
<1>1. IsScan(AllComps)
  BY AllCompsIsAScan
<1>2. IsAssembled(AllComps, parts, standard)
  BY <1>1, StandardMCUHolds
<1>8. PICK i \in DOMAIN AllComps : \E k \in 1 .. BlocksIn(AllComps, AllComps[i]) :
        b = BlocksBefore(AllComps, i) + k
  BY <1>2, Zenon DEF IsAssembled
<1>3. PICK k \in 1 .. BlocksIn(AllComps, AllComps[i]) : b = BlocksBefore(AllComps, i) + k
  BY <1>8, Zenon
<1> DEFINE ci == AllComps[i]
           row == MCURow(AllComps, ci, m, k)
           col == MCUCol(AllComps, ci, m, k)
<1>4. block = parts[i][k]
  BY <1>2, <1>3, Zenon DEF IsAssembled
<1>5. parts[i][k] = StandardBlock(TRUE, ci, row, col)
  BY Zenon DEF StandardParts, StandardPart
<1>6. IsInImage(ci, row, col) /\ block = TheBlock(TRUE, ci, row, col)
  BY <1>4, <1>5, Zenon DEF StandardBlock
<1>7. HoldsBlock(blocks[b], TRUE, ci, row, col)
  BY <1>3, Zenon DEF HoldsMCU
<1> QED BY <1>6, <1>7, Zenon DEF HoldsBlock

LEMMA BlocksAreThere ==
  ASSUME GeometryInvariant
  PROVE  BlocksComeBack
<1> DEFINE n == Len(scans)
           all == AllComps
<1>1. /\ layout \in Layouts /\ Phases(n, gpc, pass, scan, iMCU)
      /\ collection = InOrderTo(RowsLoadedOf(gpc, pass, iMCU), pass = "stego")
      /\ IsWritten(MCUs_out, RowsWritten(gpc, pass, iMCU))
  BY InvariantHolds
<1>2. gpc # "error"
  BY <1>1 DEF Phases
<1>3. ASSUME gpc = "save"
      PROVE  collection = InOrder(ABlock)
  <2>1. pass = "clone"
    BY <1>1, <1>3 DEF Phases
  <2>2. RowsLoadedOf(gpc, pass, iMCU) = HeightInBlocks(1) /\ (pass = "stego") = FALSE
    BY <1>3, <2>1 DEF RowsLoadedOf
  <2> QED BY <1>1, <2>2, CollectionIsInOrder, Zenon
<1>4. ASSUME gpc = "loaded"
      PROVE  collection = InOrder(WetBlock)
  <2>1. pass = "stego"
    BY <1>1, <1>4 DEF Phases
  <2>2. RowsLoadedOf(gpc, pass, iMCU) = HeightInBlocks(1) /\ (pass = "stego") = TRUE
    BY <1>4, <2>1 DEF RowsLoadedOf
  <2> QED BY <1>1, <2>2, CollectionIsInOrder, Zenon
<1>5. ASSUME pass = "stego", NEW m \in DOMAIN MCUs_out, NEW b \in DOMAIN MCUs_out[m],
             ScanMCUs(all, WetBlock, Padding)[m][b] # Padding
      PROVE  MCUs_out[m][b] = ScanMCUs(all, WetBlock, Padding)[m][b]
  <2> DEFINE block == StandardMCUs(all, TRUE)[m][b]
             blocks == MCUs_out[m]
  <2>1. IsScan(all) /\ MCURowsOf(all) \in Nat /\ MCUsPerRow(all) \in Nat
    BY <1>1, AllCompsIsAScan, SizesOfAScan
  <2>2. MCURowsOf(all) * MCUsPerRow(all) = MCUsOf(all)
    BY <2>1 DEF MCUsOf
  <2>3. IsWritten(MCUs_out, MCURowsOf(all))
    BY <1>1, <1>5, RowsAreCounted DEF RowsWritten
  <2>4. DOMAIN MCUs_out = 1 .. MCUsOf(all) /\ \A i \in 1 .. MCUsOf(all) : HoldsMCU(all, i, MCUs_out[i], TRUE)
    BY <2>2, <2>3, Zenon DEF IsWritten, IsOfLength
  <2>5. m \in 1 .. MCUsOf(all) /\ HoldsMCU(all, m, blocks, TRUE)
    BY <2>4, Zenon
  <2>6. b \in 1 .. BlocksInMCU(all)
    BY <2>5, Zenon DEF HoldsMCU, IsOfLength
  <2>7. ScanMCUs(all, WetBlock, Padding)[m][b] = block
    BY ScanMCUsAreStandard, Zenon
  <2>8. block # Padding
    BY <1>5, <2>7, Zenon
  <2>9. block = StandardMCUs(AllComps, TRUE)[m][b] /\ HoldsMCU(AllComps, m, blocks, TRUE)
        /\ m \in 1 .. MCUsOf(AllComps) /\ b \in 1 .. BlocksInMCU(AllComps)
    BY <2>5, <2>6, Zenon
  <2> HIDE DEF block, blocks
  <2>10. blocks[b] = block
    <3>1. layout \in Layouts
      BY <1>1
    <3>2. IsBlockOf(m, blocks, b, block)
      BY <2>8, <2>9, Zenon DEF IsBlockOf
    <3> QED BY <3>1, <3>2, MCUHasTheBlocks, Zenon
  <2> QED BY <2>7, <2>10, Zenon DEF blocks
<1> QED BY <1>2, <1>3, <1>4, <1>5, Zenon DEF BlocksComeBack

-----------------------------------------------------------------------------
\* At every step of the way, the arrays hold the blocks of the rows that were
\* read, the collection those that were loaded, the output those that were
\* written, each in its place (jdcoefct.c:227, jctrans.c:262).
THEOREM BlocksAreInTheirPlaces == GeometrySpec => []GeometryInvariant
<1>1. GeometryInit => GeometryInvariant
  BY GeometryBegins
<1>2. GeometryInvariant /\ [GeometryNext]_geometryVars => GeometryInvariant'
  <2> SUFFICES ASSUME GeometryInvariant, [GeometryNext]_geometryVars
               PROVE  GeometryInvariant'
    OBVIOUS
  <2>1. CASE ConsumeData
    BY <2>1, ConsumeDataKeeps
  <2>2. CASE FinishReading
    BY <2>2, FinishReadingKeeps
  <2>3. CASE LoadRow
    BY <2>3, LoadRowKeeps
  <2>4. CASE RowsLoaded
    BY <2>4, RowsLoadedKeeps
  <2>5. CASE SaveRow
    BY <2>5, SaveRowKeeps
  <2>6. CASE RowsSaved
    BY <2>6, RowsSavedKeeps
  <2>7. CASE CompressOutput
    BY <2>7, CompressOutputKeeps
  <2>8. CASE ReadStego
    BY <2>8, ReadStegoKeeps
  <2>9. CASE UNCHANGED geometryVars
    <3>1. /\ gpc' = gpc /\ pass' = pass /\ layout' = layout /\ room' = room /\ scans' = scans
          /\ scan' = scan /\ iMCU' = iMCU /\ arrays' = arrays /\ collection' = collection
          /\ MCUs_out' = MCUs_out
      BY <2>9 DEF geometryVars
    <3>2. layout \in Layouts /\ room \in MinHeights
      BY DEF GeometryInvariant
    <3>3. Holds(Len(scans'), gpc', pass', scans', scan', iMCU', arrays', collection', MCUs_out')
      BY <3>1, Zenon DEF GeometryInvariant
    <3> QED BY <3>1, <3>2, <3>3, InvariantStays, Zenon
  <2> QED BY <2>1, <2>2, <2>3, <2>4, <2>5, <2>6, <2>7, <2>8, <2>9 DEF GeometryNext
<1> QED BY <1>1, <1>2, PTL DEF GeometrySpec

\* Whatever the size of the image, its sampling factors, the scans of the cover,
\* and the memory for its arrays are, the blocks come back, and no access to an
\* array is refused.
THEOREM BlocksAreBack == GeometrySpec => []BlocksComeBack
<1>1. GeometryInvariant => BlocksComeBack
  BY BlocksAreThere
<1> QED BY <1>1, BlocksAreInTheirPlaces, PTL

-----------------------------------------------------------------------------
(***************************************************************************)
(* Wet coefficients                                                        *)
(***************************************************************************)
Odd(a) == Remainder(a, 2) # 0

\* The coefficient k of the cover, recompressed, and with its flip.
Recompressed(k) == Quantized(Dequantized(k), reduced[k])
Flipped(k) == IF k \in delta THEN XorOne(Recompressed(k)) ELSE Recompressed(k)

\* The sequences hold what was derived of the coefficients before the current one.
DerivedSoFar ==
  /\ DOMAIN wet = 0 .. member - 1
  /\ \A k \in 0 .. member - 1 : wet[k] = Recompressed(k) /\ (k \in parities <=> Odd(wet[k]))
  /\ parities \subseteq 0 .. member - 1 /\ humidity \subseteq 0 .. member - 1

DerivedAll ==
  /\ \A k \in Members : k \in parities <=> Odd(Recompressed(k))
  /\ parities \subseteq Members /\ humidity \subseteq Members
  /\ delta \subseteq humidity

FlippedSoFar ==
  /\ DOMAIN wet = Members
  /\ \A k \in Members : wet[k] = IF k < member THEN Flipped(k) ELSE Recompressed(k)

ReadSoFar ==
  /\ \A k \in Members : stego[k] = Flipped(k)
  /\ received \subseteq 0 .. member - 1
  /\ \A k \in 0 .. member - 1 : k \in received <=> Odd(stego[k])

WetInvariant ==
  /\ cover \in Covers /\ full \in [Members -> FullSteps] /\ reduced \in [Members -> ReducedSteps]
  /\ wpc \in {"derive", "inject", "flip", "refused", "read", "end"}
  /\ member \in 0 .. NoOfMembers
  /\ wpc = "derive" => DerivedSoFar /\ delta = {}
  /\ wpc = "inject" =>
       /\ DerivedAll /\ DOMAIN wet = Members
       /\ \A k \in Members : wet[k] = Recompressed(k)
  /\ wpc = "flip" => DerivedAll /\ FlippedSoFar
  /\ wpc \in {"read", "end"} => DerivedAll /\ ReadSoFar
  /\ wpc \notin {"read", "end"} => stego = << >> /\ received = {}
  /\ wpc \in {"inject", "end"} => member = NoOfMembers
-----------------------------------------------------------------------------
\* What is quantized is a number, and nothing becomes nothing.
LEMMA QuantizedIsNumber ==
  ASSUME NEW n \in Int, NEW s \in Nat \ {0}
  PROVE  /\ Quantized(n, s) \in Int
         /\ n = 0 => Quantized(n, s) = 0
<1>1. Abs(n) \in Nat /\ s \div 2 \in Nat /\ s \div 2 < s
  BY DEF Abs
<1>2. (Abs(n) + s \div 2) \div s \in Nat
  BY <1>1
<1>3. n = 0 => (Abs(n) + s \div 2) \div s = 0
  <2>1. ASSUME NEW h \in Nat, h < s PROVE h \div s = 0
    BY <2>1
  <2>2. n = 0 => Abs(n) + s \div 2 = s \div 2
    BY <1>1 DEF Abs
  <2> QED BY <1>1, <2>1, <2>2
<1> QED BY <1>2, <1>3 DEF Quantized

\* The rounded quotient is a nearest one.
LEMMA QuantizedIsNearest ==
  ASSUME NEW n \in Int, NEW s \in Nat \ {0}
  PROVE  2 * Abs(Quantized(n, s) * s - n) <= s
<1> DEFINE h == s \div 2
           m == (Abs(n) + h) \div s
           r == (Abs(n) + h) % s
           p == m * s
<1>1. Abs(n) \in Nat /\ h \in Nat /\ 2 * h <= s /\ s <= 2 * h + 1
  BY DEF Abs
<1>2. ASSUME NEW a \in Nat
      PROVE  a \div s \in Nat /\ a % s \in 0 .. s - 1 /\ a = s * (a \div s) + (a % s)
  BY <1>2
<1>3. m \in Nat /\ r \in 0 .. s - 1 /\ Abs(n) + h = s * m + r
  <2> HIDE DEF h
  <2>1. Abs(n) + h \in Nat
    BY <1>1
  <2> QED BY <2>1, <1>2
<1>4. p \in Nat /\ s * m = p /\ (-m) * s = -p
  <2> HIDE DEF m
  <2> QED BY <1>3
<1>5. Quantized(n, s) = IF n < 0 THEN -m ELSE m
  BY DEF Quantized
<1> HIDE DEF m, r, h, p
<1>6. Quantized(n, s) * s = IF n < 0 THEN -p ELSE p
  BY <1>3, <1>4, <1>5 DEF p
<1>7. Abs(n) + h = p + r
  BY <1>3, <1>4
<1>8. CASE n < 0
  <2>1. Abs(n) = -n /\ Quantized(n, s) * s - n = -p - n
    BY <1>8, <1>6 DEF Abs
  <2> QED BY <2>1, <1>1, <1>3, <1>4, <1>7 DEF Abs
<1>9. CASE n >= 0
  <2>1. Abs(n) = n /\ Quantized(n, s) * s - n = p - n
    BY <1>9, <1>6 DEF Abs
  <2> QED BY <2>1, <1>1, <1>3, <1>4, <1>7 DEF Abs
<1> QED BY <1>8, <1>9

\* A flip changes the parity, by a step of one.
LEMMA FlipChangesTheParity ==
  ASSUME NEW a \in Int
  PROVE  /\ XorOne(a) \in Int
         /\ Odd(XorOne(a)) <=> ~Odd(a)
         /\ XorOne(a) = a + 1 \/ XorOne(a) = a - 1
<1>1. \A b \in Int : Odd(b) <=> b % 2 = 1
  BY DEF Odd, Remainder, Abs
<1>2. XorOne(a) \in Int /\ (XorOne(a) = a + 1 \/ XorOne(a) = a - 1)
  BY DEF XorOne
<1>3. XorOne(a) % 2 = 1 <=> a % 2 # 1
  BY DEF XorOne
<1> QED BY <1>1, <1>2, <1>3

-----------------------------------------------------------------------------
\* What a cover coefficient is recompressed to is a number.
LEMMA RecompressedIsNumber ==
  ASSUME WetInvariant, NEW k \in Members
  PROVE  /\ Dequantized(k) \in Int /\ reduced[k] \in Nat \ {0}
         /\ Recompressed(k) \in Int
         /\ Dequantized(k) = 0 => ~Odd(Recompressed(k))
<1>1. cover[k] \in Int /\ full[k] \in Int /\ reduced[k] \in Nat \ {0}
  <2>1. cover[k] \in -MaxCover .. MaxCover
    BY DEF WetInvariant, Covers
  <2>2. full[k] \in FullSteps /\ reduced[k] \in ReducedSteps
    BY DEF WetInvariant
  <2>3. cover[k] \in Int
    BY <2>1, WetAssumption
  <2>4. full[k] \in Nat /\ reduced[k] \in Nat \ {0}
    BY <2>2, WetAssumption, Zenon
  <2> QED BY <2>3, <2>4
<1>2. Dequantized(k) \in Int
  BY <1>1 DEF Dequantized
<1>3. ~Odd(0)
  BY DEF Odd, Remainder
<1> QED BY <1>1, <1>2, <1>3, QuantizedIsNumber DEF Recompressed

\* Each coefficient that is derived adds its own entries and no others.
LEMMA DerivationContinues ==
  ASSUME WetInvariant, DerivateFundamentalSequences
  PROVE  WetInvariant'
<1> DEFINE n == Dequantized(member)
           temp == Quantized(n, reduced[member])
<1>1. /\ wpc = "derive" /\ member < NoOfMembers /\ wpc' = wpc /\ member' = member + 1
      /\ cover' = cover /\ full' = full /\ reduced' = reduced
      /\ delta' = delta /\ stego' = stego /\ received' = received
      /\ wet' = WetAfter(temp)
      /\ parities' = IF n # 0 /\ Remainder(temp, 2) # 0 THEN parities \cup {member} ELSE parities
      /\ humidity' = humidity \/ humidity' = humidity \cup {member}
  BY DEF DerivateFundamentalSequences, coverVars
<1>2. NoOfMembers \in Nat /\ member \in Members /\ member \in Nat
  BY <1>1, WetAssumption DEF WetInvariant, Members
<1>3. DerivedSoFar /\ delta = {}
  BY <1>1 DEF WetInvariant
<1>4. temp = Recompressed(member) /\ (n = 0 => ~Odd(temp))
  BY <1>2, RecompressedIsNumber DEF Recompressed
<1>5. \A k : Recompressed(k)' = Recompressed(k)
  BY <1>1 DEF Recompressed, Dequantized
<1>6. DOMAIN wet' = 0 .. member' - 1
  BY <1>1, <1>2 DEF WetAfter
<1>7. \A k \in 0 .. member' - 1 : wet'[k] = IF k = member THEN temp ELSE wet[k]
  BY <1>1, <1>2 DEF WetAfter
<1> HIDE DEF temp, n
<1>8. \A k \in 0 .. member' - 1 : wet'[k] = Recompressed(k)
  BY <1>1, <1>2, <1>3, <1>4, <1>7 DEF DerivedSoFar
<1>9. parities' = IF Odd(temp) THEN parities \cup {member} ELSE parities
  BY <1>1, <1>4 DEF Odd
<1>10. \A k \in 0 .. member' - 1 : k \in parities' <=> Odd(wet'[k])
  <2>1. member \notin parities
    BY <1>2, <1>3 DEF DerivedSoFar
  <2>2. ASSUME NEW k \in 0 .. member - 1
        PROVE  k \in parities' <=> Odd(wet'[k])
    <3>1. k # member /\ k \in 0 .. member' - 1 /\ wet'[k] = wet[k]
      BY <1>1, <1>2, <1>7
    <3>2. k \in parities <=> Odd(wet[k])
      BY <1>3 DEF DerivedSoFar
    <3> QED BY <3>1, <3>2, <1>9
  <2>3. member \in parities' <=> Odd(wet'[member])
    <3>1. wet'[member] = temp
      BY <1>1, <1>2, <1>7
    <3> QED BY <2>1, <3>1, <1>9
  <2>4. \A k \in 0 .. member' - 1 : k \in 0 .. member - 1 \/ k = member
    BY <1>1, <1>2
  <2> QED BY <2>2, <2>3, <2>4
<1>11. parities' \subseteq 0 .. member' - 1 /\ humidity' \subseteq 0 .. member' - 1
  <2>1. \A k \in 0 .. member - 1 : k \in 0 .. member' - 1
    BY <1>1, <1>2
  <2>2. member \in 0 .. member' - 1
    BY <1>1, <1>2
  <2>3. parities' \subseteq parities \cup {member} /\ humidity' \subseteq humidity \cup {member}
    BY <1>1, <1>9
  <2>4. parities \subseteq 0 .. member - 1 /\ humidity \subseteq 0 .. member - 1
    BY <1>3 DEF DerivedSoFar
  <2> QED BY <2>1, <2>2, <2>3, <2>4
<1>12. DerivedSoFar'
  BY <1>5, <1>6, <1>8, <1>10, <1>11 DEF DerivedSoFar, Odd
<1>13. member' \in 0 .. NoOfMembers
  BY <1>1, <1>2
<1>14. Covers' = Covers
  OBVIOUS
<1> QED BY <1>1, <1>3, <1>12, <1>13 DEF WetInvariant, Covers, Members

\* What the flips and the parities are about does not change any more.
LEMMA DerivedStays ==
  ASSUME DerivedAll, UNCHANGED <<coverVars, sequences>>, delta' \subseteq humidity
  PROVE  DerivedAll'
BY DEF DerivedAll, coverVars, sequences, Recompressed, Dequantized, Odd, Members

\* Each turn of the loop of the flips does its coefficient and no other.
LEMMA FlippingContinues ==
  ASSUME WetInvariant, UpdateCoefficient
  PROVE  WetInvariant'
<1>1. /\ wpc = "flip" /\ member < NoOfMembers /\ wpc' = wpc /\ member' = member + 1
      /\ cover' = cover /\ full' = full /\ reduced' = reduced
      /\ delta' = delta /\ stego' = stego /\ received' = received
      /\ wet' = IF member \in delta THEN [wet EXCEPT ![member] = XorOne(@)] ELSE wet
      /\ UNCHANGED <<coverVars, sequences>>
  BY DEF UpdateCoefficient, coverVars, sequences
<1>2. NoOfMembers \in Nat /\ member \in Members /\ member \in Nat
  BY <1>1, WetAssumption DEF WetInvariant, Members
<1>3. DerivedAll /\ FlippedSoFar
  BY <1>1 DEF WetInvariant
<1>4. DerivedAll'
  BY <1>1, <1>3, DerivedStays DEF DerivedAll
<1>5. \A k : Recompressed(k)' = Recompressed(k) /\ Flipped(k)' = Flipped(k)
  BY <1>1 DEF Recompressed, Dequantized, Flipped
<1>6. DOMAIN wet' = Members
  BY <1>1, <1>3 DEF FlippedSoFar
<1>7. ASSUME NEW k \in Members
      PROVE  wet'[k] = IF k < member' THEN Flipped(k) ELSE Recompressed(k)
  <2>1. CASE k = member
    <3>1. wet[k] = Recompressed(k)
      BY <2>1, <1>2, <1>3 DEF FlippedSoFar
    <3>2. wet'[k] = Flipped(k)
      BY <2>1, <3>1, <1>1, <1>2, <1>3 DEF Flipped, FlippedSoFar
    <3> QED BY <2>1, <3>2, <1>1, <1>2
  <2>2. CASE k # member
    <3>1. wet'[k] = wet[k]
      BY <2>2, <1>1, <1>2, <1>3 DEF FlippedSoFar
    <3>2. k < member <=> k < member'
      BY <2>2, <1>1, <1>2 DEF Members
    <3> QED BY <3>1, <3>2, <1>3 DEF FlippedSoFar
  <2> QED BY <2>1, <2>2
<1>8. FlippedSoFar'
  BY <1>5, <1>6, <1>7 DEF FlippedSoFar, Members
<1>9. member' \in 0 .. NoOfMembers
  BY <1>1, <1>2
<1> QED BY <1>1, <1>4, <1>8, <1>9 DEF WetInvariant, Covers, Members

\* Each coefficient that is read adds its own parity and no other.
LEMMA ReadingContinues ==
  ASSUME WetInvariant, ReadParity
  PROVE  WetInvariant'
<1>1. /\ wpc = "read" /\ member < NoOfMembers /\ wpc' = wpc /\ member' = member + 1
      /\ cover' = cover /\ full' = full /\ reduced' = reduced
      /\ delta' = delta /\ stego' = stego
      /\ received' = IF Odd(stego[member]) THEN received \cup {member} ELSE received
      /\ UNCHANGED <<coverVars, sequences>>
  BY DEF ReadParity, coverVars, sequences, Odd
<1>2. NoOfMembers \in Nat /\ member \in Members /\ member \in Nat
  BY <1>1, WetAssumption DEF WetInvariant, Members
<1>3. DerivedAll /\ ReadSoFar
  BY <1>1 DEF WetInvariant
<1>4. DerivedAll'
  BY <1>1, <1>3, DerivedStays DEF DerivedAll
<1>5. \A k : Recompressed(k)' = Recompressed(k) /\ Flipped(k)' = Flipped(k)
  BY <1>1 DEF Recompressed, Dequantized, Flipped
<1>6. received' \subseteq 0 .. member' - 1
  BY <1>1, <1>2, <1>3 DEF ReadSoFar
<1>7. ASSUME NEW k \in 0 .. member' - 1
      PROVE  k \in received' <=> Odd(stego[k])
  <2>1. member \notin received
    BY <1>2, <1>3 DEF ReadSoFar
  <2>2. CASE k = member
    BY <2>1, <2>2, <1>1
  <2>3. CASE k # member
    <3>1. k \in 0 .. member - 1
      BY <2>3, <1>1, <1>2
    <3> QED BY <2>3, <3>1, <1>1, <1>3 DEF ReadSoFar
  <2> QED BY <2>2, <2>3
<1>8. ReadSoFar'
  BY <1>1, <1>3, <1>5, <1>6, <1>7 DEF ReadSoFar, Members, Odd
<1>9. member' \in 0 .. NoOfMembers
  BY <1>1, <1>2
<1> QED BY <1>1, <1>4, <1>8, <1>9 DEF WetInvariant, Covers, Members

-----------------------------------------------------------------------------
\* Derivation, flips and reading go from one to the next.
LEMMA PhasesFollow ==
  ASSUME WetInvariant,
         Derived \/ InjectionFails \/ InjectionSucceeds \/ WriteStegoImage \/ ParitiesRead
  PROVE  WetInvariant'
<1> USE DEF coverVars, sequences
<1>1. NoOfMembers \in Nat /\ Members = 0 .. NoOfMembers - 1
  BY WetAssumption DEF Members
<1>2. CASE Derived
  <2>1. DerivedSoFar /\ delta = {} /\ member = NoOfMembers
    BY <1>2 DEF Derived, WetInvariant
  <2>2. /\ \A k \in Members : wet[k] = Recompressed(k) /\ (k \in parities <=> Odd(Recompressed(k)))
        /\ parities \subseteq Members /\ humidity \subseteq Members /\ DOMAIN wet = Members
    BY <2>1, <1>1 DEF DerivedSoFar
  <2>3. DerivedAll
    BY <2>1, <2>2 DEF DerivedAll
  <2>4. DerivedAll' /\ \A k : Recompressed(k)' = Recompressed(k)
    BY <1>2, <2>3, DerivedStays DEF Derived, DerivedAll, Recompressed, Dequantized
  <2> QED BY <1>2, <2>1, <2>2, <2>4 DEF Derived, WetInvariant, Covers, Members
<1>3. CASE InjectionFails
  BY <1>3 DEF InjectionFails, WetInvariant, Covers, Members
<1>4. CASE InjectionSucceeds
  <2>1. DerivedAll /\ DOMAIN wet = Members /\ \A k \in Members : wet[k] = Recompressed(k)
    BY <1>4 DEF InjectionSucceeds, WetInvariant
  <2>2. DerivedAll' /\ \A k : Recompressed(k)' = Recompressed(k)
    BY <1>4, <2>1, DerivedStays DEF InjectionSucceeds, Recompressed, Dequantized
  <2>3. member' = 0 /\ wet' = wet
    BY <1>4 DEF InjectionSucceeds
  <2>4. FlippedSoFar'
    <3>1. \A k \in Members : ~(k < 0)
      BY <1>1
    <3> QED BY <2>1, <2>2, <2>3, <3>1 DEF FlippedSoFar, Members
  <2>5. 0 \in 0 .. NoOfMembers
    BY <1>1
  <2> QED BY <1>4, <2>2, <2>3, <2>4, <2>5 DEF InjectionSucceeds, WetInvariant, Covers, Members
<1>5. CASE WriteStegoImage
  <2>1. DerivedAll /\ FlippedSoFar /\ member = NoOfMembers /\ received = {}
    BY <1>5 DEF WriteStegoImage, WetInvariant
  <2>2. DerivedAll' /\ \A k : Flipped(k)' = Flipped(k)
    BY <1>5, <2>1, DerivedStays
    DEF WriteStegoImage, DerivedAll, Recompressed, Dequantized, Flipped
  <2>3. member' = 0 /\ stego' = wet /\ received' = {}
    BY <1>5, <2>1 DEF WriteStegoImage
  <2>4. \A k \in Members : wet[k] = Flipped(k)
    BY <2>1, <1>1 DEF FlippedSoFar
  <2>5. ReadSoFar'
    <3>1. 0 .. 0 - 1 = {}
      OBVIOUS
    <3> QED BY <2>2, <2>3, <2>4, <3>1 DEF ReadSoFar, Members
  <2>6. 0 \in 0 .. NoOfMembers
    BY <1>1
  <2> QED BY <1>5, <2>2, <2>3, <2>5, <2>6 DEF WriteStegoImage, WetInvariant, Covers, Members
<1>6. CASE ParitiesRead
  <2>1. DerivedAll /\ ReadSoFar
    BY <1>6 DEF ParitiesRead, WetInvariant
  <2>2. DerivedAll' /\ ReadSoFar'
    BY <1>6, <2>1, DerivedStays
    DEF ParitiesRead, DerivedAll, ReadSoFar, Recompressed, Dequantized, Flipped, Odd, Members
  <2> QED BY <1>6, <2>2 DEF ParitiesRead, WetInvariant, Covers, Members
<1> QED BY <1>2, <1>3, <1>4, <1>5, <1>6

\* Nothing is derived, flipped or read at first.
LEMMA InitIsInvariant == WetInit => WetInvariant
<1> SUFFICES ASSUME WetInit PROVE WetInvariant
  OBVIOUS
<1>1. 0 \in 0 .. NoOfMembers /\ 0 .. 0 - 1 = {}
  BY WetAssumption
<1>2. DOMAIN << >> = {}
  OBVIOUS
<1>3. DerivedSoFar
  BY <1>1, <1>2 DEF WetInit, DerivedSoFar
<1> QED BY <1>1, <1>3 DEF WetInit, WetInvariant

\* Every turn of every loop keeps the invariant.
LEMMA StepKeepsInvariant ==
  ASSUME WetInvariant, [WetNext]_wetVars
  PROVE  WetInvariant'
<1>1. CASE Terminated \/ UNCHANGED wetVars
  <2>1. UNCHANGED wetVars
    BY <1>1 DEF Terminated
  <2> QED BY <2>1
      DEF wetVars, coverVars, sequences, WetInvariant, Covers, Members, DerivedSoFar, DerivedAll,
          FlippedSoFar, ReadSoFar, Recompressed, Dequantized, Flipped, Odd
<1> QED BY <1>1, DerivationContinues, FlippingContinues, ReadingContinues, PhasesFollow
        DEF WetNext

\* The inductive invariant: what each of the loops has made of the coefficients
\* it has passed.
THEOREM LoopsKeepTheirWord == WetSpec => []WetInvariant
<1> QED BY InitIsInvariant, StepKeepsInvariant, PTL DEF WetSpec

\* For every image, steps and threshold the decoder reads the parities of the
\* encoder with the flips (c_l_wetdecoder.cpp:87).
THEOREM ParitiesAreShared == WetSpec => []DecoderReadsTheFlippedParities
<1>1. WetInvariant => DecoderReadsTheFlippedParities
  <2> SUFFICES ASSUME WetInvariant, wpc = "end"
               PROVE  received = ParitySum(parities, delta)
    BY DEF DecoderReadsTheFlippedParities
  <2>1. DerivedAll /\ ReadSoFar /\ member = NoOfMembers
    BY DEF WetInvariant
  <2>2. ASSUME NEW k \in Members
        PROVE  k \in received <=> k \in ParitySum(parities, delta)
    <3>1. k \in received <=> Odd(Flipped(k))
      BY <2>1 DEF ReadSoFar, Members
    <3>2. k \in parities <=> Odd(Recompressed(k))
      BY <2>1 DEF DerivedAll
    <3>3. Recompressed(k) \in Int
      BY RecompressedIsNumber
    <3>4. Odd(XorOne(Recompressed(k))) <=> ~Odd(Recompressed(k))
      BY <3>3, FlipChangesTheParity
    <3> QED BY <3>1, <3>2, <3>4, Zenon DEF Flipped, ParitySum
  <2>3. received \subseteq Members /\ ParitySum(parities, delta) \subseteq Members
    BY <2>1 DEF ReadSoFar, DerivedAll, ParitySum, Members
  <2> QED BY <2>2, <2>3
<1> QED BY <1>1, LoopsKeepTheirWord, PTL

\* For every image, steps and threshold the stego image is the recompressed cover
\* but for flips of dry coefficients (c_l_wetencoder.cpp:195-226).
THEOREM StegoIsNear == WetSpec => []StegoIsRecompressedCover
<1>1. WetInvariant => StegoIsRecompressedCover
  <2> SUFFICES ASSUME WetInvariant, stego # << >>, NEW k \in Members
               PROVE  /\ k \notin humidity => 2 * Abs(stego[k] * reduced[k] - Dequantized(k)) <= reduced[k]
                      /\ 2 * Abs(stego[k] * reduced[k] - Dequantized(k)) <= 3 * reduced[k]
    BY DEF StegoIsRecompressedCover
  <2> DEFINE q == Recompressed(k)
             s == reduced[k]
             n == Dequantized(k)
  <2>1. DerivedAll /\ stego[k] = Flipped(k)
    BY DEF WetInvariant, ReadSoFar
  <2>2. q \in Int /\ s \in Nat \ {0} /\ n \in Int
    BY RecompressedIsNumber
  <2>3. 2 * Abs(q * s - n) <= s
    BY <2>2, QuantizedIsNearest DEF Recompressed
  <2>4. stego[k] = q \/ (k \in humidity /\ stego[k] = XorOne(q))
    BY <2>1 DEF Flipped, DerivedAll
  <2> HIDE DEF q, s, n
  <2>5. CASE stego[k] = q
    <3>1. 2 * Abs(q * s - n) <= 3 * s
      <4> DEFINE d == Abs(q * s - n)
      <4>1. d \in Int
        BY <2>2 DEF Abs
      <4> HIDE DEF d
      <4> QED BY <4>1, <2>2, <2>3 DEF d
    <3> QED BY <3>1, <2>3, <2>5, Zenon DEF s, n
  <2>6. CASE k \in humidity /\ stego[k] = XorOne(q)
    <3>1. stego[k] = q + 1 \/ stego[k] = q - 1
      BY <2>6, <2>2, FlipChangesTheParity
    <3>2. q * s \in Int /\ (q + 1) * s = q * s + s /\ (q - 1) * s = q * s - s
      BY <2>2
    <3>3. 2 * Abs(stego[k] * s - n) <= 3 * s
      <4> DEFINE p == q * s
      <4>1. stego[k] * s = p + s \/ stego[k] * s = p - s
        BY <3>1, <3>2
      <4>2. p \in Int /\ 2 * Abs(p - n) <= s
        BY <2>3, <3>2
      <4> HIDE DEF p
      <4> QED BY <4>1, <4>2, <2>2 DEF Abs
    <3> QED BY <3>3, <2>6 DEF s, n
  <2> QED BY <2>4, <2>5, <2>6
<1> QED BY <1>1, LoopsKeepTheirWord, PTL

-----------------------------------------------------------------------------
\* The test of dryness, which compares with the value a coefficient was rounded to,
\* is one of how uneven the ways to the two multiples around it are.
LEMMA DistanceIsUnevenness ==
  ASSUME NEW n \in Int, NEW s \in Nat \ {0}
  PROVE  LET below == (n \div s) * s
         IN  Distance(n, s, Quantized(n, s)) = 100 * Abs((n - below) - (below + s - n))
<1> DEFINE q == Quantized(n, s)
           l == n \div s
           e == q * s
           b == l * s
<1>1. q \in Int /\ 2 * Abs(e - n) <= s
  BY QuantizedIsNumber, QuantizedIsNearest
<1>2. l \in Int /\ n % s \in 0 .. s - 1 /\ n = s * l + (n % s)
  OBVIOUS
<1> HIDE DEF q, l
<1>3. e \in Int /\ b \in Int /\ b <= n /\ n < b + s
  <2>1. s * l = b /\ b \in Int /\ e \in Int
    BY <1>1, <1>2
  <2> QED BY <2>1, <1>2
<1>4. e - b = (q - l) * s /\ q - l \in Int
  BY <1>1, <1>2
<1> HIDE DEF e, b
<1>5. -s < e - b /\ e - b < 2 * s
  BY <1>1, <1>3 DEF Abs
<1>6. e = b \/ e = b + s
  <2>1. ASSUME NEW d \in Int, -s < d * s, d * s < 2 * s
        PROVE  d = 0 \/ d = 1
    <3>1. CASE d < 0
      <4>1. (-d - 1) * s >= 0
        BY <3>1
      <4>2. (-d - 1) * s = -(d * s) - s /\ d * s \in Int
        OBVIOUS
      <4> QED BY <4>1, <4>2, <2>1
    <3>2. CASE d > 1
      <4>1. (d - 2) * s >= 0
        BY <3>2
      <4>2. (d - 2) * s = d * s - 2 * s /\ d * s \in Int
        OBVIOUS
      <4> QED BY <4>1, <4>2, <2>1
    <3> QED BY <3>1, <3>2
  <2>2. q - l = 0 \/ q - l = 1
    BY <1>4, <1>5, <2>1
  <2>3. 0 * s = 0 /\ 1 * s = s
    OBVIOUS
  <2> QED BY <1>3, <1>4, <2>2, <2>3
<1>7. Distance(n, s, q) = 100 * s - 200 * Abs(n - e)
  BY DEF Distance, e
<1>8. 100 * s - 200 * Abs(n - e) = 100 * Abs((n - b) - (b + s - n))
  BY <1>1, <1>3, <1>6 DEF Abs
<1> QED BY <1>7, <1>8 DEF q, b, l

\* What is less than half a step from zero becomes zero, and nothing else.
LEMMA LessThanHalfVanishes ==
  ASSUME NEW n \in Int, NEW s \in Nat \ {0}
  PROVE  Quantized(n, s) # 0 <=> 2 * Abs(n) >= s
<1> DEFINE h == s \div 2
           m == (Abs(n) + h) \div s
<1>1. Abs(n) \in Nat /\ h \in Nat /\ 2 * h <= s /\ s <= 2 * h + 1
  BY DEF Abs
<1>2. ASSUME NEW a \in Nat
      PROVE  a \div s \in Nat /\ (a \div s # 0 <=> a >= s)
  BY <1>2
<1>3. m \in Nat /\ (m # 0 <=> Abs(n) + h >= s)
  <2> HIDE DEF h
  <2>1. Abs(n) + h \in Nat
    BY <1>1
  <2> QED BY <2>1, <1>2
<1>4. Quantized(n, s) = IF n < 0 THEN -m ELSE m
  BY DEF Quantized
<1> HIDE DEF m, h
<1>5. Quantized(n, s) # 0 <=> m # 0
  BY <1>3, <1>4
<1> QED BY <1>1, <1>3, <1>5

\* What the property says of one coefficient that has been tested.
IsRightlyDry(k) ==
  /\ 2 * Abs(Dequantized(k)) >= reduced[k]
  /\ 100 * Unevenness(k) <= Percent(k)
  /\ EighthsOnly => 100 * Unevenness(k) # Percent(k)
IsRightlyWet(k) ==
  \/ 2 * Abs(Dequantized(k)) < reduced[k]
  \/ 100 * Unevenness(k) >= Percent(k)

LEMMA TestIsRight ==
  ASSUME WetInvariant, threshold \in Nat, NEW k \in Members
  PROVE  /\ MayBeDry(Dequantized(k), reduced[k], Recompressed(k)) => IsRightlyDry(k)
         /\ MayBeWet(Dequantized(k), reduced[k], Recompressed(k)) => IsRightlyWet(k)
<1> DEFINE n == Dequantized(k)
           s == reduced[k]
           q == Recompressed(k)
           d == Distance(n, s, q)
           p == Percent(k)
<1>1. n \in Int /\ s \in Nat \ {0}
  BY RecompressedIsNumber
<1>2. q # 0 <=> 2 * Abs(n) >= s
  BY <1>1, LessThanHalfVanishes DEF Recompressed
<1>3. d = 100 * Unevenness(k)
  BY <1>1, DistanceIsUnevenness DEF Recompressed, Unevenness
<1>4. d \in Int /\ p \in Int /\ Abs(n) \in Int
  <2>1. q \in Int
    BY RecompressedIsNumber
  <2> HIDE DEF n, s, q
  <2>2. q * s \in Int
    BY <2>1, <1>1
  <2>3. Abs(n - q * s) \in Int /\ Abs(n) \in Int
    BY <2>2, <1>1 DEF Abs
  <2>4. threshold * s \in Int
    BY <1>1
  <2> QED BY <2>3, <2>4, <1>1 DEF Distance, Percent, s
<1>5. /\ MayBeDry(n, s, q) <=> q # 0 /\ (d < p \/ (d = p /\ ~EighthsOnly))
      /\ MayBeWet(n, s, q) <=> q = 0 \/ ~(d < p)
  BY DEF MayBeDry, MayBeWet, SurelyDry, PerhapsDry, Percent
<1> HIDE DEF n, s, q, d, p
<1>6. MayBeDry(n, s, q) => IsRightlyDry(k)
  <2> SUFFICES ASSUME MayBeDry(n, s, q) PROVE IsRightlyDry(k)
    OBVIOUS
  <2>1. 2 * Abs(n) >= s /\ d <= p /\ (EighthsOnly => d # p)
    BY <1>2, <1>4, <1>5
  <2> QED BY <2>1, <1>3 DEF IsRightlyDry, n, s, p
<1>7. MayBeWet(n, s, q) => IsRightlyWet(k)
  <2> SUFFICES ASSUME MayBeWet(n, s, q) PROVE IsRightlyWet(k)
    OBVIOUS
  <2>1. 2 * Abs(n) < s \/ d >= p
    BY <1>1, <1>2, <1>4, <1>5
  <2> QED BY <2>1, <1>3 DEF IsRightlyWet, n, s, p
<1> QED BY <1>6, <1>7 DEF n, s, q

\* The dry coefficients so far, and their count.
DryInvariant ==
  /\ threshold \in Nat
  /\ IsFiniteSet(humidity) /\ dryTotal = Cardinality(humidity)
  /\ \A k \in Members :
       /\ k \in humidity => IsRightlyDry(k)
       /\ k \notin humidity /\ (wpc = "derive" => k < member) => IsRightlyWet(k)

LEMMA InitDry == WetInit => DryInvariant
<1> SUFFICES ASSUME WetInit PROVE DryInvariant
  OBVIOUS
<1>1. threshold \in Nat
  BY WetAssumption DEF WetInit
<1>2. IsFiniteSet({}) /\ Cardinality({}) = 0
  BY FS_EmptySet
<1>3. \A k \in Members : ~(k < 0)
  BY WetAssumption DEF Members
<1> QED BY <1>1, <1>2, <1>3 DEF WetInit, DryInvariant

\* A coefficient is added to the count once, and others are left alone.
LEMMA DerivationKeepsDry ==
  ASSUME WetInvariant, DryInvariant, DerivateFundamentalSequences
  PROVE  DryInvariant'
<1>1. /\ wpc = "derive" /\ member < NoOfMembers /\ wpc' = wpc /\ member' = member + 1
      /\ cover' = cover /\ full' = full /\ reduced' = reduced /\ threshold' = threshold
  BY DEF DerivateFundamentalSequences, coverVars
<1>2. member \in Members /\ member \in Nat
  BY <1>1, WetAssumption DEF WetInvariant, Members
<1>3. humidity \subseteq 0 .. member - 1
  BY <1>1 DEF WetInvariant, DerivedSoFar
<1>4. \A k \in Members : (IsRightlyDry(k) => IsRightlyDry(k)') /\ (IsRightlyWet(k) => IsRightlyWet(k)')
  BY <1>1 DEF IsRightlyDry, IsRightlyWet, Unevenness, Percent, EighthsOnly, Dequantized
<1>5. \A k \in Members : k < member' /\ k # member => k < member
  BY <1>1, <1>2 DEF Members
<1>6. member \notin humidity
  BY <1>2, <1>3
<1>7. \/ /\ MayBeDry(Dequantized(member), reduced[member], Recompressed(member))
         /\ humidity' = humidity \cup {member} /\ dryTotal' = dryTotal + 1
      \/ /\ MayBeWet(Dequantized(member), reduced[member], Recompressed(member))
         /\ humidity' = humidity /\ dryTotal' = dryTotal
  BY DEF DerivateFundamentalSequences, Recompressed
<1>8. /\ MayBeDry(Dequantized(member), reduced[member], Recompressed(member)) => IsRightlyDry(member)
      /\ MayBeWet(Dequantized(member), reduced[member], Recompressed(member)) => IsRightlyWet(member)
  BY <1>2, TestIsRight DEF DryInvariant
<1>9. IsFiniteSet(humidity') /\ dryTotal' = Cardinality(humidity')
  BY <1>6, <1>7, FS_AddElement DEF DryInvariant
<1>10. ASSUME NEW k \in Members
       PROVE  /\ k \in humidity' => IsRightlyDry(k)'
              /\ k \notin humidity' /\ k < member' => IsRightlyWet(k)'
  BY <1>1, <1>2, <1>4, <1>5, <1>6, <1>7, <1>8 DEF DryInvariant
<1> QED BY <1>1, <1>9, <1>10 DEF DryInvariant, Members

\* No other step touches the sequences, or goes back to the first loop.
LEMMA DryStays ==
  ASSUME WetInvariant, DryInvariant, UNCHANGED <<coverVars, sequences>>,
         \/ UNCHANGED <<wpc, member>>
         \/ wpc' # "derive" /\ (wpc = "derive" => member = NoOfMembers)
  PROVE  DryInvariant'
<1>1. \A k \in Members : (IsRightlyDry(k) => IsRightlyDry(k)') /\ (IsRightlyWet(k) => IsRightlyWet(k)')
  BY DEF IsRightlyDry, IsRightlyWet, Unevenness, Percent, EighthsOnly, Dequantized, coverVars
<1>2. \A k \in Members : k < NoOfMembers
  BY WetAssumption DEF Members
<1>3. \A k \in Members : (wpc' = "derive" => k < member') => (wpc = "derive" => k < member)
  BY <1>2
<1>4. /\ humidity' = humidity /\ dryTotal' = dryTotal /\ threshold' = threshold
  BY DEF coverVars, sequences
<1>5. ASSUME NEW k \in Members
      PROVE  /\ k \in humidity => IsRightlyDry(k)'
             /\ k \notin humidity /\ (wpc' = "derive" => k < member') => IsRightlyWet(k)'
  BY <1>1, <1>3 DEF DryInvariant
<1> QED BY <1>4, <1>5 DEF DryInvariant, Members

LEMMA StepKeepsDry ==
  ASSUME WetInvariant, DryInvariant, [WetNext]_wetVars
  PROVE  DryInvariant'
<1>1. CASE DerivateFundamentalSequences
  BY <1>1, DerivationKeepsDry
<1>2. CASE Derived
  BY <1>2, DryStays DEF Derived
<1>3. CASE InjectionFails \/ InjectionSucceeds
  BY <1>3, DryStays DEF InjectionFails, InjectionSucceeds
<1>4. CASE UpdateCoefficient \/ WriteStegoImage
  BY <1>4, DryStays DEF UpdateCoefficient, WriteStegoImage
<1>5. CASE ReadParity \/ ParitiesRead
  BY <1>5, DryStays DEF ReadParity, ParitiesRead
<1>6. CASE Terminated \/ UNCHANGED wetVars
  BY <1>6, DryStays DEF Terminated, wetVars
<1> QED BY <1>1, <1>2, <1>3, <1>4, <1>5, <1>6 DEF WetNext

\* For every image, steps and threshold, the coefficients that are counted as dry
\* are those with two multiples of the new step almost equally near
\* (c_l_wetencoder.cpp:209-224).
THEOREM DryOnesAreUndecided == WetSpec => []DryOnesCouldGoEitherWay
<1>1. DryInvariant => DryOnesCouldGoEitherWay
  BY DEF DryInvariant, DryOnesCouldGoEitherWay, IsRightlyDry, IsRightlyWet
<1> QED BY <1>1, InitDry, StepKeepsDry, LoopsKeepTheirWord, PTL DEF WetSpec

-----------------------------------------------------------------------------
(***************************************************************************)
(* Correction bits                                                         *)
(***************************************************************************)

\* Any bits, one behind the other.
IsString(b) == \E S : b \in Seq(S)

\* A sequence of a set is one of a larger set.
LEMMA SequenceOfALargerSet ==
  ASSUME NEW S, NEW T, S \subseteq T, NEW b \in Seq(S)
  PROVE  b \in Seq(T)
  <1>1. Len(b) \in Nat /\ b \in [1 .. Len(b) -> S]
    BY LenProperties
  <1>2. b \in [1 .. Len(b) -> T]
    BY <1>1
  <1> QED BY <1>1, <1>2

\* How many bits there are when some are added.
LEMMA LengthsOfStrings ==
  /\ IsString(<< >>) /\ Len(<< >>) = 0
  /\ \A b : IsString(b) => Len(b) \in Nat
  /\ \A b, e : IsString(b) => IsString(Append(b, e)) /\ Len(Append(b, e)) = Len(b) + 1
  /\ \A a, b : IsString(a) /\ IsString(b) => IsString(a \o b) /\ Len(a \o b) = Len(a) + Len(b)
  <1>1. IsString(<< >>) /\ Len(<< >>) = 0
    BY EmptySeq DEF IsString
  <1>2. ASSUME NEW b, IsString(b) PROVE Len(b) \in Nat
    BY <1>2, LenProperties DEF IsString
  <1>3. ASSUME NEW b, NEW e, IsString(b)
        PROVE  IsString(Append(b, e)) /\ Len(Append(b, e)) = Len(b) + 1
    <2>1. PICK S : b \in Seq(S)
      BY <1>3 DEF IsString
    <2>2. b \in Seq(S \cup {e}) /\ e \in S \cup {e}
      BY <2>1, SequenceOfALargerSet
    <2> QED BY <2>2, AppendProperties DEF IsString
  <1>4. ASSUME NEW a, NEW b, IsString(a), IsString(b)
        PROVE  IsString(a \o b) /\ Len(a \o b) = Len(a) + Len(b)
    <2>1. PICK S : a \in Seq(S)
      BY <1>4 DEF IsString
    <2>2. PICK T : b \in Seq(T)
      BY <1>4 DEF IsString
    <2>3. a \in Seq(S \cup T) /\ b \in Seq(S \cup T)
      BY <2>1, <2>2, SequenceOfALargerSet
    <2> QED BY <2>3, ConcatProperties DEF IsString
  <1> QED BY <1>1, <1>2, <1>3, <1>4

\* The largest number of bits behind which those of one more block fit.
Room == MAX_CORR_BITS - DCTSIZE2 + 1

\* The blocks that ended, and what is kept of them: no bits without a block.
HasFields(state) == {"EOBRUN", "bit_buffer", "most"} \subseteq DOMAIN state
RunOK(state) ==
  /\ HasFields(state)
  /\ state.EOBRUN \in 0 .. MaxEOBRun - 1
  /\ IsString(state.bit_buffer)
  /\ state.EOBRUN = 0 => state.bit_buffer = << >>
  /\ state.most \in 0 .. MAX_CORR_BITS
CoderOK(state) == RunOK(state) /\ Len(state.bit_buffer) <= Room
SameBits(s, t) ==
  DOMAIN t = DOMAIN s /\ t.EOBRUN = s.EOBRUN /\ t.bit_buffer = s.bit_buffer /\ t.most = s.most

\* What does not concern these fields keeps what is true of them.
LEMMA SameBitsAreKept ==
  ASSUME NEW s, NEW t, SameBits(s, t)
  PROVE  /\ HasFields(s) => HasFields(t)
         /\ RunOK(s) => RunOK(t)
         /\ CoderOK(s) => CoderOK(t)
  BY DEF SameBits, HasFields, RunOK, CoderOK

\* Bits on their way out are none of the buffer.
LEMMA EmittedKeepsTheBuffer ==
  ASSUME NEW state, HasFields(state), NEW string
  PROVE  SameBits(state, Emitted(state, string))
  <1>1. \E a, b : Emitted(state, string) = [state EXCEPT !.put_buffer = a, !.out = b]
    BY Zenon DEF Emitted
  <1> QED BY <1>1 DEF HasFields, SameBits

\* No blocks, and no bits, are left behind a symbol for the blocks.
LEMMA NothingIsLeft ==
  ASSUME NEW state, HasFields(state), state.EOBRUN = 0 => state.bit_buffer = << >>
  PROVE  LET e == EmitEOBRun(state)
         IN  HasFields(e) /\ e.EOBRUN = 0 /\ e.bit_buffer = << >> /\ e.most = state.most
  <1>1. CASE state.EOBRUN = 0
    <2>1. EmitEOBRun(state) = state
      BY <1>1 DEF EmitEOBRun
    <2> QED BY <1>1, <2>1
  <1>2. CASE state.EOBRUN # 0
    <2> DEFINE nbits == NoOfBits(state.EOBRUN) - 1
               all == Emitted(Symbol(state, <<nbits, 0>>),
                              BitsOf(state.EOBRUN % 2 ^ nbits, nbits) \o state.bit_buffer)
    <2>1. EmitEOBRun(state) = [all EXCEPT !.EOBRUN = 0, !.bit_buffer = << >>]
      BY <1>2, Zenon DEF EmitEOBRun
    <2>2. SameBits(state, Symbol(state, <<nbits, 0>>))
      BY EmittedKeepsTheBuffer DEF Symbol
    <2>3. HasFields(Symbol(state, <<nbits, 0>>))
      BY <2>2, SameBitsAreKept
    <2>4. SameBits(Symbol(state, <<nbits, 0>>), all)
      BY <2>3, EmittedKeepsTheBuffer
    <2> HIDE DEF all
    <2>5. HasFields(all) /\ all.most = state.most
      BY <2>2, <2>3, <2>4, SameBitsAreKept DEF SameBits
    <2> QED BY <2>1, <2>5 DEF HasFields
  <1> QED BY <1>1, <1>2

\* That is a state of the coder.
LEMMA EmittedRunIsOK ==
  ASSUME NEW state, HasFields(state), state.EOBRUN = 0 => state.bit_buffer = << >>,
         state.most \in 0 .. MAX_CORR_BITS
  PROVE  CoderOK(EmitEOBRun(state))
  <1>1. 0 \in 0 .. MaxEOBRun - 1 /\ 0 <= Room
    BY ProgressionAssumption DEF Room
  <1> QED BY <1>1, NothingIsLeft, LengthsOfStrings DEF RunOK, CoderOK

\* When a block ends there may be too many blocks, or bits, and then there are
\* none.
LEMMA EndOfABlockIsCounted ==
  ASSUME NEW state, HasFields(state), state.EOBRUN \in 0 .. MaxEOBRun - 1,
         IsString(state.bit_buffer), state.most \in 0 .. MAX_CORR_BITS
  PROVE  CoderOK(AnotherEOB(state))
  <1> DEFINE one == [state EXCEPT !.EOBRUN = @ + 1]
  <1>0. MaxEOBRun \in Nat /\ MAX_CORR_BITS \in Nat /\ DCTSIZE2 \in Nat
    BY ProgressionAssumption
  <1>1. /\ HasFields(one) /\ one.EOBRUN = state.EOBRUN + 1 /\ one.bit_buffer = state.bit_buffer
        /\ one.most = state.most
    BY DEF HasFields
  <1> HIDE DEF one
  <1>2. one.EOBRUN # 0 /\ one.EOBRUN \in 1 .. MaxEOBRun
    BY <1>0, <1>1
  <1>3. CASE state.EOBRUN + 1 = MaxEOBRun \/ Len(state.bit_buffer) > MAX_CORR_BITS - DCTSIZE2 + 1
    <2>1. AnotherEOB(state) = EmitEOBRun(one)
      BY <1>3 DEF AnotherEOB, one
    <2> QED BY <1>1, <1>2, <2>1, EmittedRunIsOK
  <1>4. CASE ~(state.EOBRUN + 1 = MaxEOBRun \/ Len(state.bit_buffer) > MAX_CORR_BITS - DCTSIZE2 + 1)
    <2>1. AnotherEOB(state) = one
      BY <1>4 DEF AnotherEOB, one
    <2>2. Len(one.bit_buffer) \in Nat
      BY <1>1, LengthsOfStrings
    <2>3. Len(one.bit_buffer) <= Room
      BY <1>0, <1>1, <1>4, <2>2 DEF Room
    <2>4. one.EOBRUN \in 0 .. MaxEOBRun - 1
      BY <1>0, <1>1, <1>2, <1>4
    <2> QED BY <1>1, <1>2, <2>1, <2>3, <2>4 DEF RunOK, CoderOK
  <1> QED BY <1>3, <1>4

\* What goes on in a block: the state of the coder, with fewer correction bits of
\* this block than it has coefficients behind the first.
WorkOK(w, n) ==
  /\ DOMAIN w = {"state", "r", "BE", "BR"}
  /\ CoderOK(w.state)
  /\ w.BE = Len(w.state.bit_buffer)
  /\ IsString(w.BR) /\ Len(w.BR) <= n

\* The buffer has held no more than it can.
LEMMA HeldBitsFit ==
  ASSUME NEW w, NEW n \in Nat, WorkOK(w, n), n < DCTSIZE2
  PROVE  /\ CoderOK(Held(w)) /\ Held(w).EOBRUN = w.state.EOBRUN
         /\ Held(w).bit_buffer = w.state.bit_buffer
  <1> DEFINE m == IF w.BE + Len(w.BR) > w.state.most THEN w.BE + Len(w.BR) ELSE w.state.most
  <1>1. Held(w) = [w.state EXCEPT !.most = m]
    BY DEF Held
  <1>2. m \in 0 .. MAX_CORR_BITS
    <2>1. Len(w.BR) \in Nat /\ Len(w.BR) <= n /\ w.BE \in Nat /\ w.BE <= MAX_CORR_BITS - DCTSIZE2 + 1
      BY LengthsOfStrings DEF WorkOK, CoderOK, RunOK, Room
    <2>2. w.state.most \in 0 .. MAX_CORR_BITS
      BY DEF WorkOK, CoderOK, RunOK
    <2> QED BY <2>1, <2>2, ProgressionAssumption
  <1> HIDE DEF m
  <1>3. HasFields(w.state) /\ CoderOK(w.state)
    BY DEF WorkOK, CoderOK, RunOK
  <1>4. /\ HasFields(Held(w)) /\ Held(w).EOBRUN = w.state.EOBRUN
        /\ Held(w).bit_buffer = w.state.bit_buffer /\ Held(w).most = m
    BY <1>1, <1>3 DEF HasFields
  <1> HIDE DEF m
  <1> QED BY <1>2, <1>3, <1>4 DEF CoderOK, RunOK

\* None is left when something is sent.
LEMMA SentWork ==
  ASSUME NEW w, NEW n \in Nat, WorkOK(w, n), n < DCTSIZE2, NEW string, NEW r
  PROVE  WorkOK(Sent(w, string, r), n)
  <1> DEFINE e == EmitEOBRun(Held(w))
             t == Emitted(e, string)
  <1>1. CoderOK(Held(w))
    BY HeldBitsFit
  <1>2. CoderOK(e) /\ HasFields(e) /\ e.bit_buffer = << >>
    BY <1>1, EmittedRunIsOK, NothingIsLeft DEF CoderOK, RunOK
  <1> HIDE DEF e
  <1>3. SameBits(e, t)
    BY <1>2, EmittedKeepsTheBuffer
  <1> HIDE DEF t
  <1>4. CoderOK(t) /\ t.bit_buffer = << >>
    BY <1>2, <1>3, SameBitsAreKept DEF SameBits
  <1>5. Sent(w, string, r) = [state |-> t, r |-> r, BE |-> 0, BR |-> << >>]
    BY DEF Sent, t, e
  <1> QED BY <1>4, <1>5, LengthsOfStrings DEF WorkOK

\* Each turn of the loop adds at most one bit.
LEMMA TurnAddsABit ==
  ASSUME NEW w, NEW n \in Nat, WorkOK(w, n), n + 1 < DCTSIZE2,
         NEW value, NEW absvalue, NEW folded
  PROVE  WorkOK(RefineTurn(w, value, absvalue, folded), n + 1)
  <1> DEFINE runs == RunsSent(w, folded)
  <1>0. n < DCTSIZE2 /\ n <= n + 1 /\ n + 1 \in Nat
    BY ProgressionAssumption
  <1>1. WorkOK(runs, n)
    <2>1. runs = w \/ \E string, r : runs = Sent(w, string, r)
      BY Zenon DEF RunsSent
    <2> HIDE DEF runs
    <2> QED BY <1>0, <2>1, SentWork
  <1> HIDE DEF runs
  <1>2. \A v : WorkOK(v, n) => WorkOK(v, n + 1)
    BY <1>0, LengthsOfStrings DEF WorkOK
  <1>3. CASE absvalue = 0
    <2>1. \E r : RefineTurn(w, value, absvalue, folded) = [w EXCEPT !.r = r]
      BY <1>3, Zenon DEF RefineTurn
    <2>2. WorkOK(RefineTurn(w, value, absvalue, folded), n)
      BY <2>1 DEF WorkOK
    <2> QED BY <1>2, <2>2
  <1>4. CASE absvalue # 0 /\ absvalue > 1
    <2>1. RefineTurn(w, value, absvalue, folded) = Corrects(runs, absvalue % 2)
      BY <1>4, Zenon DEF RefineTurn, runs
    <2>2. /\ IsString(Append(runs.BR, absvalue % 2))
          /\ Len(Append(runs.BR, absvalue % 2)) = Len(runs.BR) + 1 /\ Len(runs.BR) \in Nat
      BY <1>1, LengthsOfStrings DEF WorkOK
    <2>3. \E bits : /\ Corrects(runs, absvalue % 2) = [runs EXCEPT !.BR = bits]
                    /\ IsString(bits) /\ Len(bits) = Len(runs.BR) + 1
      BY <2>2 DEF Corrects
    <2> QED BY <1>0, <1>1, <2>1, <2>2, <2>3 DEF WorkOK
  <1>5. CASE absvalue # 0 /\ ~(absvalue > 1)
    <2>1. RefineTurn(w, value, absvalue, folded) = Newly(runs, value)
      BY <1>5, Zenon DEF RefineTurn, runs
    <2>2. \E string : Newly(runs, value) = Sent(runs, string, 0)
      BY Zenon DEF Newly
    <2> QED BY <1>0, <1>1, <1>2, <2>1, <2>2, SentWork
  <1> QED BY <1>3, <1>4, <1>5

\* A turn of one of the encoder's loops: over the coefficients of a block, in a
\* first scan or a later one, or over the blocks of an MCU.
LoopTurn(loop, w, k, data, info, EOB) ==
  CASE loop = "first" -> FirstTurn(w, Scaled(data[k], info.Al))
    [] loop = "refine" -> RefineTurn(w, data[k], Magnitude(data[k]) \div 2 ^ info.Al, k > EOB)
    [] OTHER -> PEncodedBlock(w, data[info.comps[k]], info.comps[k], info)

\* What is there behind each of n turns, from lo on.
Loop(loop, w, lo, n, data, info, EOB, f) ==
  f = [k \in lo .. lo + n |->
         IF k = lo THEN w ELSE LoopTurn(loop, f[k - 1], k, data, info, EOB)]

\* A loop can go on.
LEMMA LoopGoesOn ==
  ASSUME NEW loop, NEW w, NEW lo \in Int, NEW n \in Nat, NEW data, NEW info, NEW EOB,
         NEW f, Loop(loop, w, lo, n, data, info, EOB, f),
         NEW g, g = [k \in lo .. lo + (n + 1) |->
                       IF k = lo + (n + 1) THEN LoopTurn(loop, f[k - 1], k, data, info, EOB)
                       ELSE f[k]]
  PROVE  Loop(loop, w, lo, n + 1, data, info, EOB, g)
  <1>1. \A k \in lo .. lo + n :
          f[k] = IF k = lo THEN w ELSE LoopTurn(loop, f[k - 1], k, data, info, EOB)
    BY DEF Loop
  <1>2. ASSUME NEW k \in lo .. lo + (n + 1)
        PROVE  g[k] = IF k = lo THEN w ELSE LoopTurn(loop, g[k - 1], k, data, info, EOB)
    <2>1. CASE k = lo + (n + 1)
      <3>1. k # lo /\ k - 1 \in lo .. lo + (n + 1) /\ k - 1 # lo + (n + 1)
        BY <2>1
      <3>2. g[k - 1] = f[k - 1] /\ g[k] = LoopTurn(loop, f[k - 1], k, data, info, EOB)
        BY <2>1, <3>1
      <3> QED BY <3>1, <3>2
    <2>2. CASE k = lo
      <3>1. k \in lo .. lo + n /\ k # lo + (n + 1)
        BY <2>2
      <3> QED BY <1>1, <2>2, <3>1
    <2>3. CASE k # lo /\ k # lo + (n + 1)
      <3>1. k \in lo .. lo + n /\ k - 1 \in lo .. lo + (n + 1) /\ k - 1 # lo + (n + 1)
        BY <2>3
      <3>2. g[k] = f[k] /\ g[k - 1] = f[k - 1]
        BY <2>3, <3>1
      <3> QED BY <1>1, <2>3, <3>1, <3>2
    <2> QED BY <2>1, <2>2, <2>3
  <1>3. g = [k \in lo .. lo + (n + 1) |-> g[k]]
    OBVIOUS
  <1> QED BY <1>2, <1>3, Zenon DEF Loop

\* And so it can be gone through.
LEMMA LoopsCanBeRun ==
  ASSUME NEW loop, NEW w, NEW lo \in Int, NEW n \in Nat, NEW data, NEW info, NEW EOB
  PROVE  \E f : Loop(loop, w, lo, n, data, info, EOB, f)
  <1> DEFINE S == {k \in Nat : ~ \E f : Loop(loop, w, lo, k, data, info, EOB, f)}
  <1>1. ASSUME S # {} PROVE FALSE
    <2>1. PICK k \in S : \A j \in S : k <= j
      BY <1>1, LeastNumber
    <2>2. k # 0
      <3> DEFINE f == [i \in lo .. lo + 0 |-> w]
      <3>1. \A i \in lo .. lo + 0 : i = lo
        OBVIOUS
      <3>2. f = [i \in lo .. lo + 0 |->
                   IF i = lo THEN w ELSE LoopTurn(loop, f[i - 1], i, data, info, EOB)]
        BY <3>1
      <3> HIDE DEF f
      <3>3. Loop(loop, w, lo, 0, data, info, EOB, f)
        BY <3>2 DEF Loop
      <3> QED BY <3>3, <2>1
    <2>3. k - 1 \in Nat /\ ~(k <= k - 1) /\ (k - 1) + 1 = k
      BY <2>1, <2>2
    <2>4. PICK f : Loop(loop, w, lo, k - 1, data, info, EOB, f)
      BY <2>1, <2>3
    <2> DEFINE g == [i \in lo .. lo + ((k - 1) + 1) |->
                       IF i = lo + ((k - 1) + 1) THEN LoopTurn(loop, f[i - 1], i, data, info, EOB)
                       ELSE f[i]]
    <2>5. Loop(loop, w, lo, (k - 1) + 1, data, info, EOB, g)
      BY <2>3, <2>4, LoopGoesOn
    <2> HIDE DEF g
    <2>6. Loop(loop, w, lo, k, data, info, EOB, g)
      BY <2>3, <2>5
    <2> QED BY <2>1, <2>6
  <1> QED BY <1>1

\* The first and every other turn of one.
TurnByTurn(loop, w, lo, n, data, info, EOB, f) ==
  /\ f[lo] = w
  /\ \A k \in 0 .. n - 1 :
       f[lo + (k + 1)] = LoopTurn(loop, f[lo + k], lo + (k + 1), data, info, EOB)
LEMMA LoopTurnByTurn ==
  ASSUME NEW loop, NEW w, NEW lo \in Int, NEW n \in Nat, NEW data, NEW info, NEW EOB,
         NEW f, Loop(loop, w, lo, n, data, info, EOB, f)
  PROVE  TurnByTurn(loop, w, lo, n, data, info, EOB, f)
  <1>1. \A k \in lo .. lo + n :
          f[k] = IF k = lo THEN w ELSE LoopTurn(loop, f[k - 1], k, data, info, EOB)
    BY DEF Loop
  <1>2. f[lo] = w
    BY <1>1
  <1>3. ASSUME NEW k \in 0 .. n - 1
        PROVE  f[lo + (k + 1)] = LoopTurn(loop, f[lo + k], lo + (k + 1), data, info, EOB)
    <2>1. /\ lo + (k + 1) \in lo .. lo + n /\ lo + (k + 1) # lo
          /\ (lo + (k + 1)) - 1 = lo + k
      OBVIOUS
    <2> QED BY <1>1, <2>1
  <1> QED BY <1>2, <1>3 DEF TurnByTurn

\* A block of a later scan: its bits fit.
LEMMA RefinedBlockFits ==
  ASSUME NEW state, CoderOK(state), NEW block, NEW info,
         info.Ss \in 2 .. DCTSIZE2, info.Se \in info.Ss .. DCTSIZE2
  PROVE  CoderOK(EncodedACRefine(state, block, info))
  <1> DEFINE absvalue(k) == Magnitude(block[k]) \div 2 ^ info.Al
             newly == {k \in Band(info) : absvalue(k) = 1}
             EOB == IF newly = {} THEN 0 ELSE LastOf(newly)
             first == [state |-> state, r |-> 0, BE |-> Len(state.bit_buffer), BR |-> << >>]
             Ac(f) == f = [k \in info.Ss - 1 .. info.Se |->
                             IF k < info.Ss THEN first
                             ELSE RefineTurn(f[k - 1], block[k], absvalue(k), k > EOB)]
             ac == CHOOSE f : Ac(f)
             end == ac[info.Se]
             lo == info.Ss - 1
             n == info.Se - info.Ss + 1
             both == [Held(end) EXCEPT !.bit_buffer = @ \o end.BR]
  <1>1. EncodedACRefine(state, block, info) =
          IF end.r > 0 \/ end.BR # << >> THEN AnotherEOB(both) ELSE Held(end)
    BY Zenon DEF EncodedACRefine
  <1>2. \A w, k : LoopTurn("refine", w, k, block, info, EOB)
                    = RefineTurn(w, block[k], absvalue(k), k > EOB)
    BY Zenon DEF LoopTurn
  <1>3. WorkOK(first, 0)
    BY LengthsOfStrings DEF WorkOK, CoderOK, RunOK
  <1> HIDE DEF absvalue, EOB, newly, first
  <1>4. /\ lo \in Int /\ n \in Nat /\ lo + n = info.Se /\ n < DCTSIZE2
        /\ \A k \in info.Ss - 1 .. info.Se : k < info.Ss <=> k = lo
    BY ProgressionAssumption
  <1>5. \A f : Loop("refine", first, lo, n, block, info, EOB, f) => Ac(f)
    <2> TAKE f
    <2>1. [k \in info.Ss - 1 .. info.Se |->
             IF k < info.Ss THEN first
             ELSE RefineTurn(f[k - 1], block[k], absvalue(k), k > EOB)]
          = [k \in lo .. info.Se |->
               IF k = lo THEN first ELSE LoopTurn("refine", f[k - 1], k, block, info, EOB)]
      BY <1>2, <1>4
    <2> QED BY <1>4, <2>1, Zenon DEF Loop
  <1>6. \A f : Ac(f) => Loop("refine", first, lo, n, block, info, EOB, f)
    <2> TAKE f
    <2>1. [k \in info.Ss - 1 .. info.Se |->
             IF k < info.Ss THEN first
             ELSE RefineTurn(f[k - 1], block[k], absvalue(k), k > EOB)]
          = [k \in lo .. info.Se |->
               IF k = lo THEN first ELSE LoopTurn("refine", f[k - 1], k, block, info, EOB)]
      BY <1>2, <1>4
    <2> QED BY <1>4, <2>1, Zenon DEF Loop
  <1> HIDE DEF lo, n
  <1>7. \E f : Loop("refine", first, lo, n, block, info, EOB, f)
    BY <1>4, LoopsCanBeRun
  <1>8. Ac(ac)
    BY <1>5, <1>7
  <1> HIDE DEF ac
  <1>9. Loop("refine", first, lo, n, block, info, EOB, ac)
    BY <1>6, <1>8
  <1>10. /\ ac[lo] = first
         /\ \A k \in 0 .. n - 1 :
              ac[lo + (k + 1)] = LoopTurn("refine", ac[lo + k], lo + (k + 1), block, info, EOB)
    <2>1. lo \in Int /\ n \in Nat
      BY <1>4
    <2>2. TurnByTurn("refine", first, lo, n, block, info, EOB, ac)
      BY <2>1, <1>9, LoopTurnByTurn
    <2> QED BY <2>2, Zenon DEF TurnByTurn
  <1>11. WorkOK(end, n)
    <2> DEFINE S == {k \in 0 .. n : ~WorkOK(ac[lo + k], k)}
    <2>1. ASSUME S # {} PROVE FALSE
      <3>0. S \in SUBSET Nat
        BY <1>4
      <3>1. PICK k \in S : \A j \in S : k <= j
        BY <2>1, <3>0, LeastNumber
      <3>2. k # 0
        <4>1. lo + 0 = lo
          BY <1>4
        <4> QED BY <1>3, <1>10, <3>1, <4>1
      <3>3. k - 1 \in 0 .. n - 1 /\ k - 1 \in Nat /\ ~(k <= k - 1) /\ (k - 1) + 1 = k /\ k - 1 \in 0 .. n
            /\ (k - 1) + 1 < DCTSIZE2
        BY <1>4, <3>1, <3>2, ProgressionAssumption
      <3>4. WorkOK(ac[lo + (k - 1)], k - 1)
        BY <3>1, <3>3
      <3>5. ac[lo + k] = LoopTurn("refine", ac[lo + (k - 1)], lo + k, block, info, EOB)
        BY <1>10, <3>3
      <3>6. WorkOK(ac[lo + k], (k - 1) + 1)
        BY <1>2, <3>3, <3>4, <3>5, TurnAddsABit
      <3> QED BY <3>1, <3>3, <3>6
    <2>2. n \in 0 .. n
      BY <1>4
    <2> QED BY <1>4, <2>1, <2>2
  <1> HIDE DEF end
  <1>12. CoderOK(Held(end)) /\ HasFields(Held(end)) /\ IsString(end.BR)
    BY <1>4, <1>11, HeldBitsFit DEF CoderOK, RunOK, WorkOK
  <1>13. CoderOK(AnotherEOB(both))
    <2>1. /\ HasFields(both) /\ both.EOBRUN = Held(end).EOBRUN /\ both.most = Held(end).most
          /\ both.bit_buffer = Held(end).bit_buffer \o end.BR
      BY <1>12 DEF HasFields
    <2> HIDE DEF both
    <2>2. IsString(both.bit_buffer)
      BY <1>12, <2>1, LengthsOfStrings DEF CoderOK, RunOK
    <2> QED BY <1>12, <2>1, <2>2, EndOfABlockIsCounted DEF CoderOK, RunOK
  <1> HIDE DEF both
  <1> QED BY <1>1, <1>12, <1>13

\* A block of a first scan adds no bits.
LEMMA FirstBlockFits ==
  ASSUME NEW state, CoderOK(state), NEW block, NEW info,
         info.Ss \in 2 .. DCTSIZE2, info.Se \in info.Ss .. DCTSIZE2
  PROVE  CoderOK(EncodedACFirst(state, block, info))
  <1> DEFINE Ac(f) == f = [k \in info.Ss - 1 .. info.Se |->
                             IF k < info.Ss THEN <<state, 0>>
                             ELSE FirstTurn(f[k - 1], Scaled(block[k], info.Al))]
             ac == CHOOSE f : Ac(f)
             end == ac[info.Se]
             lo == info.Ss - 1
             n == info.Se - info.Ss + 1
  <1>1. EncodedACFirst(state, block, info) = IF end[2] > 0 THEN AnotherEOB(end[1]) ELSE end[1]
    BY Zenon DEF EncodedACFirst
  <1>2. \A w, k : LoopTurn("first", w, k, block, info, 0) = FirstTurn(w, Scaled(block[k], info.Al))
    BY Zenon DEF LoopTurn
  <1>3. ASSUME NEW w, CoderOK(w[1]), NEW value
        PROVE  CoderOK(FirstTurn(w, value)[1])
    <2>1. CASE value = 0
      BY <1>3, <2>1 DEF FirstTurn
    <2>2. CASE value # 0
      <3>1. FirstTurn(w, value)[1] = EncodedAC(EmitEOBRun(w[1]), value, w[2])
        BY <2>2 DEF FirstTurn
      <3>2. CoderOK(EmitEOBRun(w[1])) /\ HasFields(EmitEOBRun(w[1]))
        BY <1>3, EmittedRunIsOK DEF CoderOK, RunOK
      <3>3. SameBits(EmitEOBRun(w[1]), EncodedAC(EmitEOBRun(w[1]), value, w[2]))
        BY <3>2, EmittedKeepsTheBuffer DEF EncodedAC
      <3> QED BY <3>1, <3>2, <3>3, SameBitsAreKept
    <2> QED BY <2>1, <2>2
  <1>4. /\ lo \in Int /\ n \in Nat /\ lo + n = info.Se
        /\ \A k \in info.Ss - 1 .. info.Se : k < info.Ss <=> k = lo
    BY ProgressionAssumption
  <1>5. ASSUME NEW f
        PROVE  Ac(f) <=> Loop("first", <<state, 0>>, lo, n, block, info, 0, f)
    <2>1. [k \in info.Ss - 1 .. info.Se |->
             IF k < info.Ss THEN <<state, 0>>
             ELSE FirstTurn(f[k - 1], Scaled(block[k], info.Al))]
          = [k \in lo .. info.Se |->
               IF k = lo THEN <<state, 0>> ELSE LoopTurn("first", f[k - 1], k, block, info, 0)]
      BY <1>2, <1>4
    <2> QED BY <1>4, <2>1, Zenon DEF Loop
  <1> HIDE DEF lo, n
  <1>6. \E f : Loop("first", <<state, 0>>, lo, n, block, info, 0, f)
    BY <1>4, LoopsCanBeRun
  <1>7. Ac(ac)
    BY <1>5, <1>6
  <1> HIDE DEF ac
  <1>8. TurnByTurn("first", <<state, 0>>, lo, n, block, info, 0, ac)
    <2>1. Loop("first", <<state, 0>>, lo, n, block, info, 0, ac)
      BY <1>5, <1>7
    <2> QED BY <1>4, <2>1, LoopTurnByTurn
  <1>9. CoderOK(end[1])
    <2> DEFINE S == {k \in 0 .. n : ~CoderOK(ac[lo + k][1])}
    <2>1. ASSUME S # {} PROVE FALSE
      <3>0. S \in SUBSET Nat
        BY <1>4
      <3>1. PICK k \in S : \A j \in S : k <= j
        BY <2>1, <3>0, LeastNumber
      <3>2. k # 0
        <4>1. lo + 0 = lo /\ ac[lo] = <<state, 0>>
          BY <1>4, <1>8 DEF TurnByTurn
        <4> QED BY <3>1, <4>1
      <3>3. k - 1 \in 0 .. n - 1 /\ ~(k <= k - 1) /\ (k - 1) + 1 = k /\ k - 1 \in 0 .. n
        BY <1>4, <3>1, <3>2
      <3>4. CoderOK(ac[lo + (k - 1)][1])
        BY <3>1, <3>3
      <3>5. ac[lo + k] = LoopTurn("first", ac[lo + (k - 1)], lo + k, block, info, 0)
        BY <1>8, <3>3 DEF TurnByTurn
      <3>6. CoderOK(ac[lo + k][1])
        BY <1>2, <1>3, <3>4, <3>5
      <3> QED BY <3>1, <3>6
    <2>2. n \in 0 .. n
      BY <1>4
    <2> QED BY <1>4, <2>1, <2>2
  <1> HIDE DEF end
  <1>10. CoderOK(AnotherEOB(end[1]))
    BY <1>9, EndOfABlockIsCounted DEF CoderOK, RunOK
  <1> QED BY <1>1, <1>9, <1>10

\* A block of any scan that the script may have.
LEMMA BlockFits ==
  ASSUME NEW state, CoderOK(state), NEW block, NEW ci, NEW info,
         info.Ss \in 1 .. DCTSIZE2, info.Se \in info.Ss .. DCTSIZE2
  PROVE  CoderOK(PEncodedBlock(state, block, ci, info))
  <1>0. HasFields(state)
    BY DEF CoderOK, RunOK
  <1>1. CASE info.Ss = 1 /\ info.Ah = 0
    <2> DEFINE value == block[1] \div 2 ^ info.Al
               t == EncodedDC(state, value - state.last_dc_val[ci])
    <2>1. PEncodedBlock(state, block, ci, info) = EncodedDCFirst(state, value, ci)
      <3>1. ~(info.Ss > 1)
        BY <1>1
      <3> QED BY <1>1, <3>1, Zenon DEF PEncodedBlock
    <2>2. SameBits(state, t)
      BY <1>0, EmittedKeepsTheBuffer DEF EncodedDC
    <2>3. \E last : EncodedDCFirst(state, value, ci) = [t EXCEPT !.last_dc_val = last]
      BY Zenon DEF EncodedDCFirst
    <2> HIDE DEF t
    <2>4. SameBits(state, EncodedDCFirst(state, value, ci))
      BY <1>0, <2>2, <2>3 DEF SameBits, HasFields
    <2> QED BY <2>1, <2>4, SameBitsAreKept
  <1>2. CASE info.Ss = 1 /\ info.Ah # 0
    <2>1. PEncodedBlock(state, block, ci, info) = Emitted(state, <<(block[1] \div 2 ^ info.Al) % 2>>)
      BY <1>2, Zenon DEF PEncodedBlock
    <2> QED BY <1>0, <2>1, EmittedKeepsTheBuffer, SameBitsAreKept
  <1>3. CASE info.Ss # 1
    <2>0. info.Ss \in 2 .. DCTSIZE2 /\ info.Ss > 1
      BY <1>3, ProgressionAssumption
    <2>1. CASE info.Ah = 0
      <3>1. PEncodedBlock(state, block, ci, info) = EncodedACFirst(state, block, info)
        BY <1>3, <2>0, <2>1, Zenon DEF PEncodedBlock
      <3> QED BY <2>0, <3>1, FirstBlockFits
    <2>2. CASE info.Ah # 0
      <3>1. PEncodedBlock(state, block, ci, info) = EncodedACRefine(state, block, info)
        BY <1>3, <2>2, Zenon DEF PEncodedBlock
      <3> QED BY <2>0, <3>1, RefinedBlockFits
    <2> QED BY <2>1, <2>2
  <1> QED BY <1>1, <1>2, <1>3

\* A restart, which ends the run.
LEMMA RestartedCoderIsOK ==
  ASSUME NEW state, CoderOK(state)
  PROVE  CoderOK(PRestarted(state))
  <1> DEFINE e == EmitEOBRun(state)
             t == Emitted(e, Tail(FF))
  <1>1. CoderOK(e) /\ HasFields(e)
    BY EmittedRunIsOK DEF CoderOK, RunOK
  <1>2. SameBits(e, t)
    BY <1>1, EmittedKeepsTheBuffer
  <1>3. \E a, b : PRestarted(state) = [[t EXCEPT !.put_buffer = << >>] EXCEPT !.out = a, !.last_dc_val = b]
    BY Zenon DEF PRestarted, Flushed
  <1> HIDE DEF e, t
  <1>4. SameBits(e, PRestarted(state))
    BY <1>1, <1>2, <1>3 DEF SameBits, HasFields
  <1> QED BY <1>1, <1>4, SameBitsAreKept

\* The restarts are counted elsewhere.
LEMMA CountedCoderIsOK ==
  ASSUME NEW state, CoderOK(state), NEW restarted, restarted => interval # 0
  PROVE  CoderOK(CountedDown(state, restarted))
  <1>0. HasFields(state)
    BY DEF CoderOK, RunOK
  <1>1. \/ CountedDown(state, restarted) = state
        \/ \E a, b : CountedDown(state, restarted)
                       = [state EXCEPT !.restarts_to_go = a, !.next_restart_num = b]
        \/ \E a : CountedDown(state, restarted) = [state EXCEPT !.restarts_to_go = a]
    <2>1. CASE interval = 0
      <3>1. ~restarted
        BY <2>1
      <3> QED BY <2>1, <3>1, Zenon DEF CountedDown
    <2>2. CASE interval # 0 /\ restarted
      BY <2>2, Zenon DEF CountedDown
    <2>3. CASE interval # 0 /\ ~restarted
      BY <2>3, Zenon DEF CountedDown
    <2> QED BY <2>1, <2>2, <2>3
  <1>2. SameBits(state, CountedDown(state, restarted))
    BY <1>0, <1>1 DEF SameBits, HasFields
  <1> QED BY <1>2, SameBitsAreKept

\* The blocks of an MCU.
LEMMA MCUFits ==
  ASSUME NEW state, CoderOK(state), NEW blocks, NEW info, Len(info.comps) \in Nat,
         info.Ss \in 1 .. DCTSIZE2, info.Se \in info.Ss .. DCTSIZE2
  PROVE  CoderOK(PEncodedMCU(state, blocks, info))
  <1> DEFINE begun == IF RestartDue(state) THEN PRestarted(state) ELSE state
             Coded(f) == f = [i \in 0 .. Len(info.comps) |->
                                IF i = 0 THEN begun
                                ELSE PEncodedBlock(f[i - 1], blocks[info.comps[i]], info.comps[i], info)]
             coded == CHOOSE f : Coded(f)
             n == Len(info.comps)
  <1>1. PEncodedMCU(state, blocks, info) = CountedDown(coded[n], RestartDue(state))
    BY Zenon DEF PEncodedMCU
  <1>2. \A w, k : LoopTurn("MCU", w, k, blocks, info, 0)
                    = PEncodedBlock(w, blocks[info.comps[k]], info.comps[k], info)
    <2>1. "MCU" # "first" /\ "MCU" # "refine"
      OBVIOUS
    <2> QED BY <2>1, Zenon DEF LoopTurn
  <1>3. CoderOK(begun)
    BY RestartedCoderIsOK
  <1> HIDE DEF begun
  <1>4. n \in Nat /\ 0 + n = n /\ 0 \in Int
    OBVIOUS
  <1>5. ASSUME NEW f
        PROVE  Coded(f) <=> Loop("MCU", begun, 0, n, blocks, info, 0, f)
    <2>1. [i \in 0 .. n |->
             IF i = 0 THEN begun
             ELSE PEncodedBlock(f[i - 1], blocks[info.comps[i]], info.comps[i], info)]
          = [i \in 0 .. n |->
               IF i = 0 THEN begun ELSE LoopTurn("MCU", f[i - 1], i, blocks, info, 0)]
      BY <1>2
    <2> QED BY <1>4, <2>1, Zenon DEF Loop
  <1> HIDE DEF n
  <1>6. \E f : Loop("MCU", begun, 0, n, blocks, info, 0, f)
    BY <1>4, LoopsCanBeRun
  <1>7. Coded(coded)
    BY <1>5, <1>6
  <1> HIDE DEF coded
  <1>8. TurnByTurn("MCU", begun, 0, n, blocks, info, 0, coded)
    <2>1. Loop("MCU", begun, 0, n, blocks, info, 0, coded)
      BY <1>5, <1>7
    <2> QED BY <1>4, <2>1, LoopTurnByTurn
  <1>9. CoderOK(coded[n])
    <2> DEFINE S == {k \in 0 .. n : ~CoderOK(coded[k])}
    <2>1. ASSUME S # {} PROVE FALSE
      <3>0. S \in SUBSET Nat
        BY <1>4
      <3>1. PICK k \in S : \A j \in S : k <= j
        BY <2>1, <3>0, LeastNumber
      <3>2. k # 0
        BY <1>3, <1>8, <3>1 DEF TurnByTurn
      <3>3. /\ k - 1 \in 0 .. n - 1 /\ ~(k <= k - 1) /\ 0 + ((k - 1) + 1) = k /\ 0 + (k - 1) = k - 1
            /\ k - 1 \in 0 .. n
        BY <1>4, <3>1, <3>2
      <3>4. CoderOK(coded[k - 1])
        BY <3>1, <3>3
      <3>5. coded[k] = LoopTurn("MCU", coded[k - 1], k, blocks, info, 0)
        BY <1>8, <3>3 DEF TurnByTurn
      <3>6. CoderOK(coded[k])
        BY <1>2, <3>4, <3>5, BlockFits
      <3> QED BY <3>1, <3>6
    <2>2. n \in 0 .. n
      BY <1>4
    <2> QED BY <1>4, <2>1, <2>2
  <1>10. RestartDue(state) => interval # 0
    BY DEF RestartDue
  <1> QED BY <1>1, <1>9, <1>10, CountedCoderIsOK

\* What is invariant of the passes: the coder and the script it goes through.
PassOK ==
  /\ CoderOK(coder)
  /\ script \in Seq(Range(script)) /\ ValidScript(script, Len(picture[1]))
  /\ scanno \in 1 .. Len(script)

\* A scan begins with nothing kept.
LEMMA StartedCoderIsOK == CoderOK(StartedCoder)
  <1>1. 0 \in 0 .. MaxEOBRun - 1 /\ 0 <= Room /\ 0 \in 0 .. MAX_CORR_BITS
    BY ProgressionAssumption DEF Room
  <1>2. /\ HasFields(StartedCoder) /\ StartedCoder.EOBRUN = 0 /\ StartedCoder.bit_buffer = << >>
        /\ StartedCoder.most = 0
    BY DEF StartedCoder, HasFields
  <1> QED BY <1>1, <1>2, LengthsOfStrings DEF CoderOK, RunOK

\* The first scan is one of the script.
LEMMA PassesBegin == ProgInit => PassOK
  <1> SUFFICES ASSUME ProgInit PROVE PassOK
    OBVIOUS
  <1>1. script \in ScriptChoices /\ ValidScript(script, Len(picture[1]))
        /\ scanno = 1 /\ coder = StartedCoder
    BY DEF ProgInit
  <1>2. script \in Seq(Range(script)) /\ script # << >>
    BY <1>1, ProgressionAssumption DEF ValidScript
  <1>3. Len(script) \in Nat \ {0}
    BY <1>2, EmptySeq
  <1> QED BY <1>1, <1>2, <1>3, StartedCoderIsOK DEF PassOK

\* And every step keeps that.
LEMMA PassesGoOn == PassOK /\ [ProgNext]_progVars => PassOK'
  <1> SUFFICES ASSUME PassOK, [ProgNext]_progVars PROVE PassOK'
    OBVIOUS
  <1>1. CASE EncodeProgMCU
    <2> DEFINE info == script[scanno]
    <2>1. /\ coder' = PEncodedMCU(coder, picture[mcu], info)
          /\ script' = script /\ picture' = picture /\ scanno' = scanno
      BY <1>1 DEF EncodeProgMCU
    <2>2. scanno \in DOMAIN script
      BY LenProperties DEF PassOK
    <2>3. ValidScan(script, scanno, Len(picture[1]))
      BY <2>2 DEF PassOK, ValidScript
    <2>4. Len(info.comps) \in 1 .. 4 /\ info.Ss \in 1 .. DCTSIZE2 /\ info.Se \in info.Ss .. DCTSIZE2
      BY <2>3, Zenon DEF ValidScan
    <2>5. Len(info.comps) \in Nat
      BY <2>4
    <2> HIDE DEF info
    <2>6. CoderOK(PEncodedMCU(coder, picture[mcu], info))
      BY <2>4, <2>5, MCUFits DEF PassOK
    <2> QED BY <2>1, <2>6 DEF PassOK
  <1>2. CASE FinishProgPass
    BY <1>2 DEF FinishProgPass, PassOK
  <1>3. CASE DecodeProgMCU
    BY <1>3 DEF DecodeProgMCU, PassOK
  <1>4. CASE NextScan
    <2>1. script' = script /\ picture' = picture
      BY <1>4 DEF NextScan
    <2>2. CASE scanno < Len(script)
      <3>1. scanno' = scanno + 1 /\ coder' = StartedCoder
        BY <1>4, <2>2 DEF NextScan
      <3>2. scanno + 1 \in 1 .. Len(script)
        BY <2>2, LenProperties DEF PassOK
      <3> QED BY <2>1, <3>1, <3>2, StartedCoderIsOK DEF PassOK
    <2>3. CASE ~(scanno < Len(script))
      <3>1. scanno' = scanno /\ coder' = coder
        BY <1>4, <2>3 DEF NextScan
      <3> QED BY <2>1, <3>1 DEF PassOK
    <2> QED BY <2>2, <2>3
  <1>5. CASE UNCHANGED progVars
    BY <1>5 DEF progVars, PassOK
  <1> QED BY <1>1, <1>2, <1>3, <1>4, <1>5 DEF ProgNext

\* The state of the coder between two MCUs, for every image and script: there is
\* room for the correction bits of one more block, a symbol can count one more
\* block, and bits are only kept while a run of blocks is, so that a run that is
\* emitted leaves none behind (jcphuff.c:681, 708, "BE bits are gone now").
THEOREM BufferHasRoom == ProgSpec => []PassOK
  <1>1. ProgInit => PassOK
    BY PassesBegin
  <1>2. PassOK /\ [ProgNext]_progVars => PassOK'
    BY PassesGoOn
  <1> QED BY <1>1, <1>2, PTL DEF ProgSpec

\* The buffer of correction bits is never too small for the bits of one more
\* block, and no more blocks end in a row than a symbol can count
\* (jcphuff.c:720), for every image, script, interval of restarts and size of
\* the buffer that jcphuff.c allows.
THEOREM CorrectionsFit == ProgSpec => []CorrectionBitsFit
  <1>1. PassOK => CorrectionBitsFit
    <2> SUFFICES ASSUME PassOK PROVE CorrectionBitsFit
      OBVIOUS
    <2>1. coder.EOBRUN \in 0 .. MaxEOBRun - 1 /\ coder.most \in 0 .. MAX_CORR_BITS
      BY DEF PassOK, CoderOK, RunOK
    <2> QED BY <2>1, ProgressionAssumption DEF CorrectionBitsFit
  <1> QED BY <1>1, BufferHasRoom, PTL

=============================================================================
