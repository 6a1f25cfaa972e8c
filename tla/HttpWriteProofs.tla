--------------------------- MODULE HttpWriteProofs ---------------------------
(***************************************************************************)
(* Theorems about HttpWrite, for any sizes of buffer and files, any number *)
(* of connections, responses and aborts, and any way in which writev       *)
(* splits the output, provided that it ends inside the header once at most *)
(* (CutsHeaderOnce).                                                       *)
(***************************************************************************)
EXTENDS HttpWrite, FiniteSetTheorems, SequenceTheorems, TLAPS

(***************************************************************************)
(* The two iovecs.                                                         *)
(***************************************************************************)

\* A response begins with nothing sent, and has one iovec or two.
Begins ==
  /\ at = "in" => bytes_have_send = 0
  /\ Sending => m_iv_count \in 1 .. 2

Shape == TypeOK /\ RestIsDescribed /\ Begins

LEMMA BytesLength ==
  ASSUME NEW from, NEW iov \in [base : Int, len : Nat]
  PROVE  /\ Bytes(from, iov) \in Seq({from} \X Int \cup {[from |-> from, pos |-> p] : p \in Int})
         /\ Len(Bytes(from, iov)) = iov.len
  BY DEF Bytes

LEMMA ShapeInit == Init => Shape
<1> SUFFICES ASSUME Init PROVE Shape
  OBVIOUS
<1>1. m_iv \in [0 .. 1 -> [base : Int, len : Nat]]
  BY DEF Init, Iov
<1>2. m_write_idx \in 0 .. WRITE_BUFFER_SIZE - 2 /\ aborts \in 0 .. MaxAborts
  BY WriteAssumption DEF Init
<1>3. m_file_address \in Addresses \cup {NULL, MAP_FAILED} /\ st_size \in FileSizes \cup {0}
      /\ mapped \subseteq [address : Addresses, size : FileSizes]
  BY DEF Init
<1>4. /\ at \in {"closed", "in", "out", "writev"} /\ m_linger \in BOOLEAN
      /\ bytes_to_send \in Nat /\ bytes_have_send \in Nat /\ m_iv_count \in 0 .. 2
  BY DEF Init
<1>5. TypeOK
  BY <1>1, <1>2, <1>3, <1>4 DEF TypeOK
<1> QED
  BY <1>5 DEF Init, Shape, RestIsDescribed, Begins, Sending

\* A step outside a response, or one that ends it, has the types to look after only.
LEMMA Outside ==
  ASSUME Shape, at' \in {"closed", "in"}, at' = "in" => bytes_have_send' = 0,
         m_write_idx' \in {0, m_write_idx}, m_linger' \in BOOLEAN,
         bytes_to_send' \in {0, bytes_to_send}, bytes_have_send' \in {0, bytes_have_send},
         UNCHANGED <<m_iv, m_iv_count>>,
         m_file_address' \in Addresses \cup {NULL, MAP_FAILED}, st_size' \in FileSizes \cup {0},
         mapped' \subseteq [address : Addresses, size : FileSizes], aborts' \in 0 .. MaxAborts
  PROVE  Shape'
<1>1. m_write_idx' \in 0 .. WRITE_BUFFER_SIZE - 2 /\ bytes_to_send' \in Nat /\ bytes_have_send' \in Nat
  BY WriteAssumption DEF Shape, TypeOK
<1>2. TypeOK'
  BY <1>1 DEF Shape, TypeOK
<1> QED
  BY <1>2 DEF Shape, RestIsDescribed, Begins, Sending

LEMMA RespondFileShape == Shape /\ RespondFile => Shape'
<1> SUFFICES ASSUME Shape, RespondFile PROVE Shape'
  OBVIOUS
<1>1. PICK size \in FileSizes \ {0}, linger \in BOOLEAN :
        /\ MapFile(size) /\ AddResponse(linger)
        /\ m_iv' = [m_iv EXCEPT ![0] = Iov(0, m_write_idx'), ![1] = Iov(0, size)]
        /\ m_iv_count' = 2
        /\ bytes_to_send' = m_write_idx' + size
  BY DEF RespondFile
<1>2. size \in Nat
  BY WriteAssumption
<1>3. m_write_idx' \in 1 .. WRITE_BUFFER_SIZE - 2
  BY <1>1 DEF AddResponse
<1>4. m_write_idx' \in 0 .. WRITE_BUFFER_SIZE - 2 /\ m_write_idx' \in Nat /\ m_write_idx' > 0
  BY <1>3, WriteAssumption
<1>5. Iov(0, m_write_idx') \in [base : Int, len : Nat] /\ Iov(0, size) \in [base : Int, len : Nat]
  BY <1>2, <1>4 DEF Iov
<1>6. /\ m_iv' \in [0 .. 1 -> [base : Int, len : Nat]]
      /\ m_iv'[0] = Iov(0, m_write_idx') /\ m_iv'[1] = Iov(0, size)
  BY <1>1, <1>5 DEF Shape, TypeOK
<1>7. /\ st_size' = size
      /\ \/ m_file_address' = MAP_FAILED /\ mapped' = mapped
         \/ \E a \in Addresses :
              m_file_address' = a /\ mapped' = mapped \cup {[address |-> a, size |-> size]}
  BY <1>1 DEF MapFile
<1>8. /\ m_file_address' \in Addresses \cup {NULL, MAP_FAILED}
      /\ mapped' \subseteq [address : Addresses, size : FileSizes]
  BY <1>7 DEF Shape, TypeOK
<1>9. at' = "out" /\ bytes_have_send' = 0 /\ aborts' = aborts
  BY DEF RespondFile, Arm, Shape, Begins
<1>10. m_linger' \in BOOLEAN
  BY <1>1 DEF AddResponse
<1>11. bytes_to_send' \in Nat /\ bytes_have_send' \in Nat
  <2>1. bytes_to_send' = m_write_idx' + size
    BY <1>1
  <2>2. m_write_idx' \in Nat
    BY <1>4
  <2>3. bytes_to_send' \in Nat
    <3>1. size \in Nat
      BY <1>2
    <3>2. \A i, j \in Nat : i + j \in Nat
      OBVIOUS
    <3> QED
      BY <2>1, <2>2, <3>1, <3>2
  <2> QED
    BY <1>9, <2>3
<1>12. TypeOK'
  BY <1>1, <1>4, <1>6, <1>7, <1>8, <1>9, <1>10, <1>11 DEF Shape, TypeOK
<1>13. RestIsDescribed'
  BY <1>1, <1>2, <1>4, <1>6, <1>7, <1>9 DEF RestIsDescribed, FileSize, Iov
<1> QED
  BY <1>1, <1>9, <1>12, <1>13 DEF Shape, Begins

LEMMA RespondErrorShape == Shape /\ RespondError => Shape'
<1> SUFFICES ASSUME Shape, RespondError PROVE Shape'
  OBVIOUS
<1>1. m_write_idx' \in 1 .. WRITE_BUFFER_SIZE - 2 /\ m_linger' \in BOOLEAN
      /\ st_size' \in FileSizes \cup {0}
  BY DEF RespondError, AddResponse, Shape, TypeOK
<1>2. m_write_idx' \in 0 .. WRITE_BUFFER_SIZE - 2 /\ m_write_idx' \in Nat /\ m_write_idx' > 0
  BY <1>1, WriteAssumption
<1>3. Iov(0, m_write_idx') \in [base : Int, len : Nat]
  BY <1>2 DEF Iov
<1>4. m_iv' \in [0 .. 1 -> [base : Int, len : Nat]] /\ m_iv'[0] = Iov(0, m_write_idx')
  BY <1>3 DEF RespondError, Shape, TypeOK
<1>5. /\ at' = "out" /\ bytes_have_send' = 0 /\ aborts' = aborts
      /\ m_iv_count' = 1 /\ bytes_to_send' = m_write_idx'
      /\ m_file_address' = m_file_address /\ mapped' = mapped
  BY DEF RespondError, Arm, Shape, Begins
<1>6. TypeOK'
  BY <1>1, <1>2, <1>4, <1>5 DEF Shape, TypeOK
<1>7. RestIsDescribed'
  BY <1>2, <1>4, <1>5 DEF RestIsDescribed, FileSize, Iov
<1> QED
  BY <1>5, <1>6, <1>7 DEF Shape, Begins

\* What is described is what is left.
LEMMA DescribedLength ==
  ASSUME Shape, Sending
  PROVE  /\ Len(Described) = bytes_to_send
         /\ bytes_have_send + bytes_to_send = m_write_idx + FileSize
         /\ FileSize \in Nat
<1>1. FileSize \in Nat /\ m_iv[0] \in [base : Int, len : Nat] /\ m_iv[1] \in [base : Int, len : Nat]
  BY WriteAssumption DEF Shape, TypeOK, FileSize
<1>2. bytes_have_send + bytes_to_send = m_write_idx + FileSize
  BY DEF Shape, RestIsDescribed
<1>3. Len(Described) = m_iv[0].len + (IF m_iv_count = 2 THEN m_iv[1].len ELSE 0)
  <2>1. CASE m_iv_count = 2
    BY <1>1, <2>1, BytesLength DEF Described, Bytes
  <2>2. CASE m_iv_count # 2
    BY <1>1, <2>2, BytesLength DEF Described, Bytes
  <2> QED
    BY <2>1, <2>2
<1>4. bytes_have_send \in Nat /\ bytes_to_send \in Nat /\ m_write_idx \in Nat
  BY WriteAssumption DEF Shape, TypeOK
<1>5. CASE bytes_have_send < m_write_idx
  <2>1. m_iv[0].len = m_write_idx - bytes_have_send /\ (m_iv_count = 2 => m_iv[1].len = FileSize)
    BY <1>5 DEF Shape, RestIsDescribed, Iov
  <2> QED
    BY <1>1, <1>2, <1>3, <1>4, <2>1 DEF FileSize
<1>6. CASE ~(bytes_have_send < m_write_idx)
  <2>1. m_iv[0].len = 0 /\ (m_iv_count = 2 => m_iv[1].len = bytes_to_send)
    BY <1>6 DEF Shape, RestIsDescribed, Iov
  <2> QED
    BY <1>1, <1>2, <1>3, <1>4, <1>6, <2>1 DEF FileSize
<1> QED
  BY <1>1, <1>2, <1>5, <1>6

LEMMA WritevShape ==
  ASSUME Shape, CutsHeaderOnce, NEW n \in 0 .. Len(Described), Writev(n)
  PROVE  Shape'
<1> DEFINE have == bytes_have_send + n  left == bytes_to_send - n
<1>1. Sending /\ at' = at /\ UNCHANGED <<m_write_idx, m_linger, m_iv_count, file, aborts>>
  BY DEF Writev, Sending
<1>2. /\ bytes_have_send' = have /\ bytes_to_send' = left
      /\ bytes_have_send > 0 => have >= m_write_idx
      /\ Advance(have, left)
  BY DEF Writev
<1>3. bytes_have_send \in Nat /\ bytes_to_send \in Nat /\ m_write_idx \in Nat /\ FileSize \in Nat
  BY <1>1, WriteAssumption, DescribedLength DEF Shape, TypeOK
<1>4. n \in Nat /\ n <= bytes_to_send /\ have \in Nat /\ left \in Nat
      /\ have + left = m_write_idx + FileSize
  BY <1>1, <1>3, DescribedLength
<1>5. FileSize' = FileSize
  BY <1>1 DEF FileSize, file
<1>6. m_iv \in [0 .. 1 -> [base : Int, len : Nat]]
  BY DEF Shape, TypeOK
<1>7. CASE have >= m_iv[0].len
  <2>1. m_iv' = [m_iv EXCEPT ![0].len = 0, ![1] = Iov(have - m_write_idx, left)]
    BY <1>2, <1>7 DEF Advance
  <2>2. Iov(have - m_write_idx, left) \in [base : Int, len : Nat]
    BY <1>3, <1>4 DEF Iov
  <2>3. /\ m_iv' \in [0 .. 1 -> [base : Int, len : Nat]]
        /\ m_iv'[0].len = 0 /\ m_iv'[1] = Iov(have - m_write_idx, left)
    BY <1>6, <2>1, <2>2
  <2>4. have >= m_write_idx
    <3>1. bytes_have_send = 0 => m_write_idx = 0 \/ m_iv[0].len = m_write_idx
      BY <1>1, <1>3 DEF Shape, RestIsDescribed, Iov
    <3> QED
      BY <1>2, <1>3, <1>4, <1>7, <3>1
  <2>5. TypeOK'
    BY <1>1, <1>2, <1>4, <2>3 DEF Shape, TypeOK, file
  <2>6. RestIsDescribed'
    BY <1>1, <1>2, <1>3, <1>4, <1>5, <2>3, <2>4 DEF RestIsDescribed
  <2> QED
    BY <1>1, <2>5, <2>6 DEF Shape, Begins, Sending
<1>8. CASE ~(have >= m_iv[0].len)
  <2>1. m_iv' = [m_iv EXCEPT ![0] = Iov(have, m_iv[0].len - have)]
    BY <1>2, <1>8 DEF Advance
  <2>2. m_iv[0].len \in Nat
    BY <1>6
  <2>3. bytes_have_send < m_write_idx
    BY <1>1, <1>3, <1>4, <1>8, <2>2 DEF Shape, RestIsDescribed
  <2>4. /\ m_iv[0].len = m_write_idx - bytes_have_send
        /\ m_iv_count = 2 => m_iv[1] = Iov(0, FileSize)
    BY <1>1, <2>3 DEF Shape, RestIsDescribed, Iov
  <2>5. bytes_have_send = 0
    BY <1>2, <1>3, <1>4, <1>8, <2>4
  <2>6. have < m_write_idx /\ m_iv[0].len - have = m_write_idx - have
    BY <1>3, <1>4, <1>8, <2>4, <2>5
  <2>7. Iov(have, m_write_idx - have) \in [base : Int, len : Nat]
    BY <1>3, <1>4, <2>6 DEF Iov
  <2>8. /\ m_iv' \in [0 .. 1 -> [base : Int, len : Nat]]
        /\ m_iv'[0] = Iov(have, m_write_idx - have) /\ m_iv'[1] = m_iv[1]
    BY <1>6, <2>1, <2>6, <2>7
  <2>9. TypeOK'
    BY <1>1, <1>2, <1>4, <2>8 DEF Shape, TypeOK, file
  <2>10. RestIsDescribed'
    BY <1>1, <1>2, <1>3, <1>4, <1>5, <2>4, <2>6, <2>8 DEF RestIsDescribed
  <2> QED
    BY <1>1, <2>9, <2>10 DEF Shape, Begins, Sending
<1> QED
  BY <1>7, <1>8

\* A step that changes neither the response nor the file.
LEMMA Unchanged ==
  ASSUME Shape, UNCHANGED <<sizes, m_iv, m_iv_count, file>>, aborts' \in 0 .. MaxAborts,
         at' \in {"closed", "in", "out", "writev"}, Sending' => Sending, at' = "in" => at = "in"
  PROVE  Shape'
<1>1. TypeOK'
  BY DEF Shape, TypeOK, sizes, file
<1>2. RestIsDescribed'
  BY DEF Shape, RestIsDescribed, FileSize, sizes, file
<1> QED
  BY <1>1, <1>2 DEF Shape, Begins, sizes

LEMMA ShapeStep == Shape /\ CutsHeaderOnce /\ [Next]_vars => Shape'
<1> SUFFICES ASSUME Shape, CutsHeaderOnce, [Next]_vars PROVE Shape'
  OBVIOUS
<1>0. TypeOK
  BY DEF Shape
<1>1. CASE UNCHANGED vars
  BY <1>0, <1>1, Unchanged DEF vars, TypeOK, Sending
<1>2. CASE Accept
  BY <1>0, <1>2, Outside DEF Accept, Reset, TypeOK, file
<1>3. CASE RespondFile
  BY <1>3, RespondFileShape
<1>4. CASE RespondError
  BY <1>4, RespondErrorShape
<1>5. CASE NoResponse
  <2>1. /\ m_file_address' \in Addresses \cup {NULL, MAP_FAILED}
        /\ st_size' \in FileSizes \cup {0}
        /\ mapped' \subseteq [address : Addresses, size : FileSizes]
    BY <1>0, <1>5 DEF NoResponse, MapFile, TypeOK, file
  <2> QED
    BY <1>0, <1>5, <2>1, Outside DEF NoResponse, TypeOK, sizes
<1>6. CASE Writable
  BY <1>0, <1>6, Unchanged DEF Writable, TypeOK, Sending
<1>7. CASE Again
  BY <1>0, <1>7, Unchanged DEF Again, TypeOK, Sending
<1>8. CASE WriteFails
  BY <1>0, <1>8, Outside DEF WriteFails, Unmap, TypeOK, sizes
<1>9. CASE Sent
  BY <1>0, <1>9, Outside DEF Sent, Unmap, Reset, TypeOK, sizes
<1>10. ASSUME NEW n \in 0 .. Len(Described), Writev(n) PROVE Shape'
  BY <1>10, WritevShape
<1>11. CASE HangUp
  BY <1>0, <1>11, Unchanged DEF HangUp, TypeOK, Sending
<1>12. CASE Abort
  <2>1. aborts' \in 0 .. MaxAborts
    BY <1>0, <1>12, WriteAssumption DEF Abort, TypeOK
  <2> QED
    BY <1>12, <2>1, Unchanged DEF Abort, Sending
<1> QED
  BY <1>1, <1>2, <1>3, <1>4, <1>5, <1>6, <1>7, <1>8, <1>9, <1>10, <1>11, <1>12 DEF Next, WriteLoop

LEMMA ShapeAlways ==
  ASSUME CutsHeaderOnce
  PROVE  Spec => []Shape
<1>1. Shape /\ [Next]_vars => Shape'
  BY ShapeStep
<1> QED
  BY <1>1, ShapeInit, PTL DEF Spec

(* The types, for any way of splitting that cuts the header once at most.  *)
THEOREM WriterTypeCorrect ==
  ASSUME CutsHeaderOnce
  PROVE  Spec => []TypeOK
<1>1. Shape => TypeOK
  BY DEF Shape
<1> QED
  BY <1>1, ShapeAlways, PTL

(* The iovecs describe the rest of the response and the counters agree     *)
(* with them (http_conn.cpp:776-788).                                      *)
THEOREM IovecsDescribeRest ==
  ASSUME CutsHeaderOnce
  PROVE  Spec => []RestIsDescribed
<1>1. Shape => RestIsDescribed
  BY DEF Shape
<1> QED
  BY <1>1, ShapeAlways, PTL

(***************************************************************************)
(* The mappings.  None of this depends on how writev splits the output.    *)
(***************************************************************************)

SendingMapped == Sending /\ m_iv_count = 2 /\ m_file_address # MAP_FAILED
Mapping == [address |-> m_file_address, size |-> st_size]

\* A file that is being sent, and that could be mapped, is mapped as unmap will
\* unmap it.
Own == SendingMapped => Mapping \in mapped

\* Without aborts nothing is mapped between two responses.
Idle == aborts = 0 /\ ~SendingMapped => m_file_address \notin Addresses

\* What is mapped is the file that is being sent and what aborts have left.
Kept ==
  /\ aborts \in Nat /\ st_size \in Nat
  /\ IsFiniteSet(mapped)
  /\ Cardinality(mapped) <= aborts + (IF SendingMapped THEN 1 ELSE 0)

Maps == Own /\ Idle /\ Kept

LEMMA MapsInit == Init => Maps
  BY WriteAssumption, FS_EmptySet DEF Init, Maps, Own, Idle, Kept, SendingMapped, Sending

LEMMA UnmapStep ==
  ASSUME Maps, Unmap, ~SendingMapped', aborts' = aborts
  PROVE  Maps'
<1>1. mapped' \subseteq mapped /\ Mapping \notin mapped'
  <2>1. ~(st_size > st_size)
    BY DEF Maps, Kept
  <2> QED
    BY <2>1 DEF Unmap, Mapping
<1>2. m_file_address' \notin Addresses /\ st_size' \in Nat
  BY WriteAssumption DEF Unmap, Maps, Kept
<1>3. IsFiniteSet(mapped') /\ Cardinality(mapped') <= Cardinality(mapped)
  BY <1>1, FS_Subset DEF Maps, Kept
<1>4. Cardinality(mapped') \in Nat /\ Cardinality(mapped) \in Nat
  BY <1>3, FS_CardinalityType DEF Maps, Kept
<1>5. CASE SendingMapped
  <2>1. mapped' \subseteq mapped \ {Mapping} /\ Mapping \in mapped
    BY <1>1, <1>5 DEF Maps, Own
  <2>2. IsFiniteSet(mapped \ {Mapping}) /\ Cardinality(mapped \ {Mapping}) = Cardinality(mapped) - 1
    BY <2>1, FS_RemoveElement DEF Maps, Kept
  <2>3. Cardinality(mapped') <= Cardinality(mapped) - 1
    BY <2>1, <2>2, FS_Subset
  <2> QED
    BY <1>2, <1>3, <1>4, <1>5, <2>3 DEF Maps, Own, Idle, Kept
<1>6. CASE ~SendingMapped
  BY <1>2, <1>3, <1>4, <1>6 DEF Maps, Own, Idle, Kept
<1> QED
  BY <1>5, <1>6

LEMMA MapsRespondFile == Maps /\ RespondFile => Maps'
<1> SUFFICES ASSUME Maps, RespondFile PROVE Maps'
  OBVIOUS
<1>1. PICK size \in FileSizes \ {0} : MapFile(size) /\ m_iv_count' = 2
  BY DEF RespondFile
<1>2. ~SendingMapped /\ Sending' /\ aborts' = aborts /\ st_size' = size /\ st_size' \in Nat
  BY <1>1, WriteAssumption DEF RespondFile, MapFile, Arm, SendingMapped, Sending
<1>3. CASE m_file_address' = MAP_FAILED /\ mapped' = mapped
  BY <1>2, <1>3, WriteAssumption DEF Maps, Own, Idle, Kept, SendingMapped
<1>4. ASSUME NEW a \in Addresses, m_file_address' = a,
             mapped' = mapped \cup {[address |-> a, size |-> size]}
      PROVE  Maps'
  <2> DEFINE new == [address |-> a, size |-> size]
  <2>1. SendingMapped' /\ new \in mapped' /\ Mapping' = new
    BY <1>1, <1>2, <1>4, WriteAssumption DEF SendingMapped, Mapping
  <2>2. /\ IsFiniteSet(mapped') /\ Cardinality(mapped) \in Nat /\ Cardinality(mapped') \in Nat
        /\ Cardinality(mapped') <= Cardinality(mapped) + 1
    <3>1. IsFiniteSet(mapped) /\ Cardinality(mapped) \in Nat
      BY FS_CardinalityType DEF Maps, Kept
    <3>2. /\ IsFiniteSet(mapped \cup {new})
          /\ Cardinality(mapped \cup {new}) =
               IF new \in mapped THEN Cardinality(mapped) ELSE Cardinality(mapped) + 1
      BY <3>1, FS_AddElement
    <3> QED
      BY <1>4, <3>1, <3>2
  <2> QED
    BY <1>2, <2>1, <2>2 DEF Maps, Own, Idle, Kept
<1> QED
  BY <1>1, <1>3, <1>4 DEF MapFile

LEMMA MapsStep == Maps /\ [Next]_vars => Maps'
<1> SUFFICES ASSUME Maps, [Next]_vars PROVE Maps'
  OBVIOUS
<1> USE DEF Maps, Own, Idle, Kept, SendingMapped, Sending, Mapping
<1>1. CASE UNCHANGED vars
  BY <1>1 DEF vars, file
<1>2. CASE Accept
  BY <1>2 DEF Accept, file
<1>3. CASE RespondFile
  BY <1>3, MapsRespondFile
<1>4. CASE RespondError
  <2>1. /\ at = "in" /\ at' = "out" /\ m_iv_count' = 1 /\ aborts' = aborts
        /\ UNCHANGED <<m_file_address, mapped>>
        /\ st_size' \in FileSizes \cup {st_size}
    BY <1>4 DEF RespondError, Arm
  <2>2. ~SendingMapped /\ ~SendingMapped'
    BY <2>1
  <2>3. st_size' \in Nat
    BY <2>1, WriteAssumption
  <2> QED
    BY <2>1, <2>2, <2>3
<1>5. CASE NoResponse
  <2>1. CASE UNCHANGED file
    BY <1>5, <2>1 DEF NoResponse, file
  <2>2. CASE MapFile(0)
    BY <1>5, <2>2, WriteAssumption DEF NoResponse, MapFile
  <2> QED
    BY <1>5, <2>1, <2>2 DEF NoResponse
<1>6. CASE Writable
  BY <1>6 DEF Writable, file
<1>7. CASE Again
  BY <1>7 DEF Again, file
<1>8. CASE WriteFails
  BY <1>8, UnmapStep DEF WriteFails
<1>9. CASE Sent
  BY <1>9, UnmapStep DEF Sent
<1>10. ASSUME NEW n \in 0 .. Len(Described), Writev(n) PROVE Maps'
  BY <1>10 DEF Writev, file
<1>11. CASE HangUp
  BY <1>11 DEF HangUp, file
<1>12. CASE Abort
  <2>1. Cardinality(mapped) \in Nat
    BY FS_CardinalityType
  <2> QED
    BY <1>12, <2>1 DEF Abort, file
<1> QED
  BY <1>1, <1>2, <1>3, <1>4, <1>5, <1>6, <1>7, <1>8, <1>9, <1>10, <1>11, <1>12 DEF Next, WriteLoop

(* As long as no response was broken off, exactly the file that is being  *)
(* sent is mapped, where unmap will release it and with its size, and      *)
(* otherwise nothing is, though open and mmap may fail at any request and  *)
(* their results are not looked at (http_conn.cpp:585-586, 595-602).       *)
THEOREM WriterUnmapsItsOwn == Spec => []UnmapsItsOwn
<1>1. Maps => UnmapsItsOwn
  <2> SUFFICES ASSUME Maps, aborts = 0
               PROVE  IF SendingMapped THEN mapped = {Mapping}
                                       ELSE mapped = {} /\ m_file_address \notin Addresses
    BY DEF UnmapsItsOwn, SendingMapped, Mapping
  <2>1. IsFiniteSet(mapped) /\ Cardinality(mapped) \in Nat
    BY FS_CardinalityType DEF Maps, Kept
  <2>2. CASE SendingMapped
    <3>1. Mapping \in mapped /\ Cardinality(mapped) <= 1
      BY <2>2 DEF Maps, Own, Kept
    <3>2. IsFiniteSet(mapped \ {Mapping}) /\ Cardinality(mapped \ {Mapping}) = Cardinality(mapped) - 1
      BY <2>1, <3>1, FS_RemoveElement
    <3>3. Cardinality(mapped \ {Mapping}) = 0
      BY <2>1, <3>1, <3>2, FS_CardinalityType
    <3>4. mapped \ {Mapping} = {}
      BY <3>2, <3>3, FS_EmptySet
    <3> QED
      BY <2>2, <3>1, <3>4
  <2>3. CASE ~SendingMapped
    <3>1. Cardinality(mapped) = 0
      BY <2>1, <2>3 DEF Maps, Kept
    <3>2. mapped = {}
      BY <2>1, <3>1, FS_EmptySet
    <3> QED
      BY <2>3, <3>2 DEF Maps, Idle
  <2> QED
    BY <2>2, <2>3
<1> QED
  BY <1>1, MapsInit, MapsStep, PTL DEF Spec

(* No more files stay mapped behind the slot's back than responses were    *)
(* broken off (http_conn.cpp:771, 791).                                    *)
THEOREM WriterLeaksAreAborts == Spec => []LeaksAreAborts
<1>1. Maps => LeaksAreAborts
  <2> SUFFICES ASSUME Maps PROVE LeaksAreAborts
    OBVIOUS
  <2> DEFINE lost == {m \in mapped : m.address # m_file_address}
  <2>1. lost \subseteq mapped /\ Mapping \notin lost
    BY DEF Mapping
  <2>2. IsFiniteSet(lost) /\ Cardinality(lost) <= Cardinality(mapped)
    BY <2>1, FS_Subset DEF Maps, Kept
  <2>3. Cardinality(lost) \in Nat /\ Cardinality(mapped) \in Nat
    BY <2>2, FS_CardinalityType DEF Maps, Kept
  <2>4. CASE SendingMapped
    <3>1. lost \subseteq mapped \ {Mapping} /\ Mapping \in mapped
      BY <2>1, <2>4 DEF Maps, Own
    <3>2. IsFiniteSet(mapped \ {Mapping}) /\ Cardinality(mapped \ {Mapping}) = Cardinality(mapped) - 1
      BY <3>1, FS_RemoveElement DEF Maps, Kept
    <3>3. Cardinality(lost) <= Cardinality(mapped) - 1
      BY <3>1, <3>2, FS_Subset
    <3> QED
      BY <2>3, <2>4, <3>3 DEF Maps, Kept, LeaksAreAborts
  <2>5. CASE ~SendingMapped
    BY <2>2, <2>3, <2>5 DEF Maps, Kept, LeaksAreAborts
  <2> QED
    BY <2>4, <2>5
<1> QED
  BY <1>1, MapsInit, MapsStep, PTL DEF Spec

(***************************************************************************)
(* What the client gets.                                                   *)
(***************************************************************************)

\* The i-th byte of a response.
ByteAt(i) == IF i <= m_write_idx THEN [from |-> "header", pos |-> i - 1]
                                 ELSE [from |-> "file", pos |-> i - m_write_idx - 1]
ByteSet == [from : {"header", "file"}, pos : Int]

Got == Sending => received = [i \in 1 .. bytes_have_send |-> ByteAt(i)]

LEMMA BytesAre ==
  ASSUME NEW from \in {"header", "file"}, NEW iov \in [base : Int, len : Nat]
  PROVE  /\ Bytes(from, iov) \in Seq(ByteSet) /\ Len(Bytes(from, iov)) = iov.len
         /\ \A i \in 1 .. iov.len : Bytes(from, iov)[i] = [from |-> from, pos |-> iov.base + i - 1]
<1>1. \A i \in 1 .. iov.len : [from |-> from, pos |-> iov.base + i - 1] \in ByteSet
  BY DEF ByteSet
<1>2. Bytes(from, iov) \in [1 .. iov.len -> ByteSet]
  BY <1>1 DEF Bytes
<1>3. iov.len \in Nat
  OBVIOUS
<1>4. Bytes(from, iov) \in Seq(ByteSet) /\ Len(Bytes(from, iov)) = iov.len
  BY <1>2, <1>3
<1> QED
  BY <1>4 DEF Bytes

LEMMA WholeBytes ==
  ASSUME NEW from \in {"header", "file"}, NEW len \in Nat
  PROVE  /\ Bytes(from, Iov(0, len)) \in Seq(ByteSet) /\ Len(Bytes(from, Iov(0, len))) = len
         /\ \A i \in 1 .. len : Bytes(from, Iov(0, len))[i] = [from |-> from, pos |-> i - 1]
<1> DEFINE iov == Iov(0, len)
<1>1. iov \in [base : Int, len : Nat] /\ iov.base = 0 /\ iov.len = len
  BY DEF Iov
<1> HIDE DEF iov
<1>2. \A i \in 1 .. len : iov.base + i - 1 = i - 1
  BY <1>1
<1>3. /\ Bytes(from, iov) \in Seq(ByteSet) /\ Len(Bytes(from, iov)) = len
      /\ \A i \in 1 .. len : Bytes(from, iov)[i] = [from |-> from, pos |-> iov.base + i - 1]
  BY <1>1, BytesAre
<1> QED
  BY <1>2, <1>3 DEF iov

LEMMA DescribedBytes ==
  ASSUME Shape, Sending
  PROVE  /\ Described \in Seq(ByteSet)
         /\ \A i \in 1 .. bytes_to_send : Described[i] = ByteAt(bytes_have_send + i)
<1>1. FileSize \in Nat /\ m_iv[0] \in [base : Int, len : Nat] /\ m_iv[1] \in [base : Int, len : Nat]
  BY WriteAssumption DEF Shape, TypeOK, FileSize
<1>2. bytes_have_send \in Nat /\ bytes_to_send \in Nat /\ m_write_idx \in Nat
      /\ bytes_have_send + bytes_to_send = m_write_idx + FileSize
  BY WriteAssumption DEF Shape, TypeOK, RestIsDescribed
<1> DEFINE h == Bytes("header", m_iv[0])
           f == IF m_iv_count = 2 THEN Bytes("file", m_iv[1]) ELSE <<>>
<1>3. /\ h \in Seq(ByteSet) /\ Len(h) = m_iv[0].len
      /\ \A i \in 1 .. m_iv[0].len : h[i] = [from |-> "header", pos |-> m_iv[0].base + i - 1]
  BY <1>1, BytesAre
<1>4. /\ f \in Seq(ByteSet)
      /\ m_iv_count = 2 =>
           /\ Len(f) = m_iv[1].len
           /\ \A i \in 1 .. m_iv[1].len : f[i] = [from |-> "file", pos |-> m_iv[1].base + i - 1]
      /\ m_iv_count # 2 => f = <<>>
  BY <1>1, BytesAre
<1>5. Described = h \o f
  BY DEF Described
<1> HIDE DEF h, f
<1>6. Described \in Seq(ByteSet) /\ Len(Described) = bytes_to_send
  BY <1>3, <1>4, <1>5, DescribedLength
<1>7. ASSUME NEW i \in 1 .. bytes_to_send
      PROVE  Described[i] = ByteAt(bytes_have_send + i)
  <2>1. CASE bytes_have_send < m_write_idx
    <3>1. m_iv[0].len = m_write_idx - bytes_have_send /\ m_iv[0].base = bytes_have_send
          /\ (m_iv_count = 2 => m_iv[1].len = FileSize /\ m_iv[1].base = 0)
      BY <2>1 DEF Shape, RestIsDescribed, Iov
    <3>2. CASE i <= m_iv[0].len
      <4>1. Described[i] = h[i]
        BY <1>1, <1>2, <1>3, <1>4, <1>5, <3>2
      <4> QED
        BY <1>1, <1>2, <1>3, <3>1, <3>2, <4>1 DEF ByteAt
    <3>3. CASE ~(i <= m_iv[0].len)
      <4>1. m_iv_count = 2
        BY <1>1, <1>2, <3>1, <3>3 DEF FileSize
      <4>2. Described[i] = f[i - m_iv[0].len]
        BY <1>1, <1>2, <1>3, <1>4, <1>5, <1>6, <3>3
      <4> QED
        BY <1>1, <1>2, <1>4, <3>1, <3>3, <4>1, <4>2 DEF ByteAt
    <3> QED
      BY <3>2, <3>3
  <2>2. CASE ~(bytes_have_send < m_write_idx)
    <3>1. m_iv[0].len = 0
          /\ (m_iv_count = 2 => m_iv[1].len = bytes_to_send /\ m_iv[1].base = bytes_have_send - m_write_idx)
      BY <2>2 DEF Shape, RestIsDescribed, Iov
    <3>2. m_iv_count = 2
      BY <1>1, <1>2, <2>2 DEF FileSize
    <3>3. Described[i] = f[i]
      BY <1>2, <1>3, <1>4, <1>5, <1>6, <3>1
    <3> QED
      BY <1>1, <1>2, <1>4, <2>2, <3>1, <3>2, <3>3 DEF ByteAt
  <2> QED
    BY <2>1, <2>2
<1> QED
  BY <1>6, <1>7

LEMMA GotWritev ==
  ASSUME Shape, Got, NEW n \in 0 .. Len(Described), Writev(n)
  PROVE  Got'
<1>1. Sending /\ m_write_idx' = m_write_idx /\ bytes_have_send' = bytes_have_send + n
      /\ received' = received \o SubSeq(Described, 1, n)
  BY DEF Writev, Sending
<1>2. bytes_have_send \in Nat /\ n \in Nat /\ n <= bytes_to_send /\ m_write_idx \in Nat /\ bytes_to_send \in Nat
  BY <1>1, WriteAssumption, DescribedLength DEF Shape, TypeOK
<1> DEFINE next == SubSeq(Described, 1, n)
<1>3. /\ Described \in Seq(ByteSet) /\ Len(Described) = bytes_to_send
      /\ \A i \in 1 .. bytes_to_send : Described[i] = ByteAt(bytes_have_send + i)
  BY <1>1, DescribedBytes, DescribedLength
<1>4. /\ next \in Seq(ByteSet) /\ Len(next) = n
      /\ \A i \in 1 .. n : next[i] = ByteAt(bytes_have_send + i)
  BY <1>2, <1>3
<1>5. \A i \in Int : ByteAt(i) \in ByteSet
  BY <1>2 DEF ByteAt, ByteSet
<1>6. /\ received \in Seq(ByteSet) /\ Len(received) = bytes_have_send
      /\ \A i \in 1 .. bytes_have_send : received[i] = ByteAt(i)
  BY <1>1, <1>2, <1>5 DEF Got
<1> HIDE DEF next
<1>7. received' = received \o next
  BY <1>1 DEF next
<1>8. /\ received' \in Seq(ByteSet) /\ Len(received') = bytes_have_send + n
      /\ \A i \in 1 .. bytes_have_send + n : received'[i] = ByteAt(i)
  <2>1. received' \in Seq(ByteSet) /\ Len(received') = bytes_have_send + n
    BY <1>2, <1>4, <1>6, <1>7, ConcatProperties
  <2>2. ASSUME NEW i \in 1 .. bytes_have_send + n
        PROVE  received'[i] = ByteAt(i)
    <3>1. CASE i <= bytes_have_send
      BY <1>2, <1>4, <1>6, <1>7, <3>1
    <3>2. CASE ~(i <= bytes_have_send)
      <4>1. received'[i] = next[i - bytes_have_send]
        BY <1>2, <1>4, <1>6, <1>7, <3>2
      <4>2. i - bytes_have_send \in 1 .. n /\ bytes_have_send + (i - bytes_have_send) = i
        BY <1>2, <3>2
      <4> QED
        BY <1>4, <4>1, <4>2
    <3> QED
      BY <3>1, <3>2
  <2> QED
    BY <2>1, <2>2
<1>9. \A i : ByteAt(i)' = ByteAt(i)
  BY <1>1 DEF ByteAt
<1>10. received' = [i \in 1 .. bytes_have_send + n |-> ByteAt(i)]
  BY <1>8
<1> QED
  BY <1>1, <1>9, <1>10 DEF Got

LEMMA GotStep ==
  ASSUME Shape, Got, [Next]_vars
  PROVE  Got'
<1>1. ASSUME NEW n \in 0 .. Len(Described), Writev(n) PROVE Got'
  BY <1>1, GotWritev
<1>2. CASE RespondFile \/ RespondError
  <2>1. bytes_have_send' = 0 /\ received' = <<>>
    BY <1>2 DEF RespondFile, RespondError, Arm, Shape, Begins
  <2> QED
    BY <2>1 DEF Got
<1>3. CASE UNCHANGED vars \/ Writable \/ Again
  BY <1>3 DEF vars, Writable, Again, sizes, Got, Sending, ByteAt
<1>4. CASE Accept \/ NoResponse \/ WriteFails \/ Sent \/ HangUp \/ Abort
  <2>1. ~Sending'
    BY <1>4 DEF Accept, NoResponse, WriteFails, Sent, HangUp, Abort, Sending
  <2> QED
    BY <2>1 DEF Got
<1> QED
  BY <1>1, <1>2, <1>3, <1>4 DEF Next, WriteLoop

LEMMA GotSentInOrder == Shape /\ Got => SentInOrder
<1> SUFFICES ASSUME Shape, Got, Sending
             PROVE  /\ Len(received) <= Len(Response)
                    /\ received = SubSeq(Response, 1, Len(received))
                    /\ bytes_to_send <= 0 => received = Response
  BY DEF SentInOrder
<1>1. bytes_have_send \in Nat /\ bytes_to_send \in Nat /\ m_write_idx \in Nat /\ FileSize \in Nat
      /\ bytes_have_send + bytes_to_send = m_write_idx + FileSize
  BY WriteAssumption, DescribedLength DEF Shape, TypeOK
<1> DEFINE h == Bytes("header", Iov(0, m_write_idx))  f == Bytes("file", Iov(0, FileSize))
<1>2. /\ h \in Seq(ByteSet) /\ Len(h) = m_write_idx
      /\ \A i \in 1 .. m_write_idx : h[i] = [from |-> "header", pos |-> i - 1]
  BY <1>1, WholeBytes
<1>3. /\ f \in Seq(ByteSet) /\ Len(f) = FileSize
      /\ \A i \in 1 .. FileSize : f[i] = [from |-> "file", pos |-> i - 1]
  BY <1>1, WholeBytes
<1>4. Response = h \o f
  BY DEF Response
<1> HIDE DEF h, f
<1>5. Response \in Seq(ByteSet) /\ Len(Response) = m_write_idx + FileSize
  BY <1>1, <1>2, <1>3, <1>4, ConcatProperties
<1>6. ASSUME NEW i \in 1 .. m_write_idx + FileSize PROVE Response[i] = ByteAt(i)
  <2>1. CASE i <= m_write_idx
    <3>1. Response[i] = h[i]
      BY <1>1, <1>2, <1>3, <1>4, <2>1
    <3> QED
      BY <1>1, <1>2, <2>1, <3>1 DEF ByteAt
  <2>2. CASE ~(i <= m_write_idx)
    <3>1. Response[i] = f[i - m_write_idx]
      BY <1>1, <1>2, <1>3, <1>4, <2>2
    <3> QED
      BY <1>1, <1>3, <2>2, <3>1 DEF ByteAt
  <2> QED
    BY <2>1, <2>2
<1>7. \A i \in Int : ByteAt(i) \in ByteSet
  BY <1>1 DEF ByteAt, ByteSet
<1>8. /\ received \in Seq(ByteSet) /\ Len(received) = bytes_have_send
      /\ \A i \in 1 .. bytes_have_send : received[i] = ByteAt(i)
  BY <1>1, <1>7 DEF Got
<1>9. Len(received) <= Len(Response)
  BY <1>1, <1>5, <1>8
<1>10. received = SubSeq(Response, 1, Len(received))
  <2> DEFINE first == SubSeq(Response, 1, bytes_have_send)
  <2>1. first \in Seq(ByteSet) /\ Len(first) = bytes_have_send
        /\ \A i \in 1 .. bytes_have_send : first[i] = ByteAt(i)
    BY <1>1, <1>5, <1>6
  <2> HIDE DEF first
  <2>2. received = first
    BY <1>1, <1>8, <2>1
  <2> QED
    BY <1>8, <2>2 DEF first
<1>11. bytes_to_send <= 0 => received = Response
  BY <1>1, <1>5, <1>6, <1>8
<1> QED
  BY <1>9, <1>10, <1>11

(* Whatever writev takes at a time, the client gets the header and the     *)
(* file, each byte once and in order, and all of it before the response    *)
(* counts as sent (http_conn.cpp:762-803).                                 *)
THEOREM ClientGetsResponse ==
  ASSUME CutsHeaderOnce
  PROVE  Spec => []SentInOrder
<1>1. Shape /\ Got /\ [Next]_vars => Got'
  BY GotStep
<1>2. Init => Got
  BY DEF Init, Got, Sending
<1> QED
  BY <1>1, <1>2, GotSentInOrder, ShapeAlways, PTL DEF Spec
=============================================================================
