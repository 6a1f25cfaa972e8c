----------------------------- MODULE HttpWrite -----------------------------
(***************************************************************************)
(* The response writer of http/http_conn.cpp: a worker's do_request maps   *)
(* the file, process_write puts the header into m_write_buf and describes  *)
(* header and file in two iovecs; the main thread's write sends what they  *)
(* describe, as much at a time as writev takes, and unmaps the file.  The  *)
(* slot, with its m_file_address and m_file_stat, serves one connection    *)
(* after another.                                                          *)
(*                                                                         *)
(* A byte of a response is where it was read from: the header or the file, *)
(* and how far into it.  Sizes are in bytes for the iovecs and in pages    *)
(* for the mappings, which comes to the same for the properties.           *)
(***************************************************************************)
EXTENDS Integers, Sequences, FiniteSets

CONSTANTS
  WRITE_BUFFER_SIZE,  \* the size of m_write_buf
  FileSizes,          \* the sizes of the files
  Addresses,          \* where mmap may put a file
  NULL, MAP_FAILED,   \* no mapping
  CutsHeaderOnce,     \* does writev end inside the header once at most?
  MaxAborts           \* bound: how many responses are broken off

ASSUME WriteAssumption ==
  /\ WRITE_BUFFER_SIZE \in Nat /\ WRITE_BUFFER_SIZE > 2
  /\ FileSizes \subseteq Nat
  /\ NULL \notin Addresses /\ MAP_FAILED \notin Addresses /\ NULL # MAP_FAILED
  /\ CutsHeaderOnce \in BOOLEAN
  /\ MaxAborts \in Nat

VARIABLES
  at,                  \* "closed", "in" armed or processed, "out" armed, "writev"
  m_write_idx, m_linger, bytes_to_send, bytes_have_send,
  m_iv, m_iv_count,    \* m_iv[0] and [1]: base, in m_write_buf or the file, and len
  m_file_address,
  st_size,             \* m_file_stat.st_size
  mapped,              \* the mappings of this slot's files, address and size
  received,            \* what the client has got of the response
  aborts               \* responses broken off by closing the connection

sizes == <<m_write_idx, m_linger, bytes_to_send, bytes_have_send>>
file  == <<m_file_address, st_size, mapped>>
vars  == <<at, sizes, m_iv, m_iv_count, file, received, aborts>>

Iov(base, len) == [base |-> base, len |-> len]

\* The slots are in pages fresh from the kernel: all zero.
Init ==
  /\ at = "closed"
  /\ m_write_idx = 0 /\ m_linger = FALSE /\ bytes_to_send = 0 /\ bytes_have_send = 0
  /\ m_iv = [k \in 0 .. 1 |-> Iov(0, 0)] /\ m_iv_count = 0
  /\ m_file_address = NULL /\ st_size = 0 /\ mapped = {}
  /\ received = <<>> /\ aborts = 0

Reset_KeepHave ==               \* bytes_have_send is not reset
  m_write_idx' = 0 /\ m_linger' = FALSE /\ bytes_to_send' = 0 /\ UNCHANGED bytes_have_send

\* init(): of the writer's fields, these.
Reset ==
  m_write_idx' = 0 /\ m_linger' = FALSE /\ bytes_to_send' = 0 /\ bytes_have_send' = 0

\* accept and init.
Accept ==
  /\ at = "closed"
  /\ Reset
  /\ at' = "in"
  /\ UNCHANGED <<m_iv, m_iv_count, file, received, aborts>>
-----------------------------------------------------------------------------
(* The worker: do_request and process_write.                               *)

\* do_request opens a file of the size, which stat has found, and maps it.  Open
\* may fail (the file is gone, no descriptor is left), mmap may fail, and mmap
\* of nothing does; neither result is looked at.
MapFile(size) ==
  /\ st_size' = size
  /\ \/ m_file_address' = MAP_FAILED /\ UNCHANGED mapped
     \/ \E a \in Addresses :
          /\ size # 0 /\ \A m \in mapped : m.address # a
          /\ m_file_address' = a
          /\ mapped' = mapped \cup {[address |-> a, size |-> size]}

\* The add_ functions: what they have put into m_write_buf never fills it.
AddResponse(linger) ==
  /\ m_write_idx' \in 1 .. WRITE_BUFFER_SIZE - 2
  /\ m_linger' = linger

\* The end of process, with modfd EPOLLOUT.
Arm ==
  /\ at' = "out"
  /\ received' = <<>>
  /\ UNCHANGED <<bytes_have_send, aborts>>

RespondFile_OnlyHeader ==       \* bytes_to_send is set as for one iovec
  /\ at = "in"
  /\ \E size \in FileSizes \ {0}, linger \in BOOLEAN :
       /\ MapFile(size)
       /\ AddResponse(linger)
       /\ m_iv' = [m_iv EXCEPT ![0] = Iov(0, m_write_idx'), ![1] = Iov(0, size)]
       /\ m_iv_count' = 2
       /\ bytes_to_send' = m_write_idx'
  /\ Arm

\* FILE_REQUEST, a file with something in it: header and file, whether it could
\* be mapped or not.
RespondFile ==
  /\ at = "in"
  /\ \E size \in FileSizes \ {0}, linger \in BOOLEAN :
       /\ MapFile(size)
       /\ AddResponse(linger)
       /\ m_iv' = [m_iv EXCEPT ![0] = Iov(0, m_write_idx'), ![1] = Iov(0, size)]
       /\ m_iv_count' = 2
       /\ bytes_to_send' = m_write_idx' + size
  /\ Arm

\* BAD_REQUEST and FORBIDDEN_REQUEST: header and message in m_write_buf.  For
\* a directory or a file that is not readable stat has set st_size.
RespondError ==
  /\ at = "in"
  /\ \E size \in FileSizes \cup {st_size}, linger \in BOOLEAN :
       /\ st_size' = size
       /\ AddResponse(linger)
  /\ m_iv' = [m_iv EXCEPT ![0] = Iov(0, m_write_idx')]
  /\ m_iv_count' = 1
  /\ bytes_to_send' = m_write_idx'
  /\ UNCHANGED <<m_file_address, mapped>>
  /\ Arm

\* process_write returns false and close_conn is called: NO_RESOURCE, which has
\* no response, or a file of size 0, whose response is built and not sent.
NoResponse ==
  /\ at = "in"
  /\ UNCHANGED file \/ (0 \in FileSizes /\ MapFile(0))
  /\ at' = "closed"
  /\ UNCHANGED <<sizes, m_iv, m_iv_count, received, aborts>>
-----------------------------------------------------------------------------
(* The main thread: write.                                                 *)

Unmap_Keep ==                   \* m_file_address is not cleared
  /\ mapped' = {m \in mapped : m.address = m_file_address => m.size > st_size}
  /\ UNCHANGED <<m_file_address, st_size>>

\* unmap(): munmap with the size stat has set last; too small a size leaves the
\* rest of the mapping behind.
Unmap ==
  /\ mapped' = {m \in mapped : m.address = m_file_address => m.size > st_size}
  /\ m_file_address' = NULL
  /\ UNCHANGED st_size

\* EPOLLOUT: write is called.  (Its first test, bytes_to_send == 0, is for a
\* descriptor armed without a response: see HandleOut of Server.)
Writable ==
  /\ at = "out"
  /\ at' = "writev"
  /\ UNCHANGED <<sizes, m_iv, m_iv_count, file, received, aborts>>

\* The bytes the iovecs describe, in the order writev sends them.
Bytes(from, iov) == [i \in 1 .. iov.len |-> [from |-> from, pos |-> iov.base + i - 1]]
Described == Bytes("header", m_iv[0]) \o (IF m_iv_count = 2 THEN Bytes("file", m_iv[1]) ELSE <<>>)

Advance_Early(have, left) ==    \* the test uses what was sent before
  m_iv' = IF bytes_have_send >= m_iv[0].len
          THEN [m_iv EXCEPT ![0].len = 0, ![1] = Iov(have - m_write_idx, left)]
          ELSE [m_iv EXCEPT ![0] = Iov(have, m_iv[0].len - have)]

Advance_Spin(have, left) ==     \* the second iovec is not moved on
  m_iv' = IF have >= m_iv[0].len
          THEN [m_iv EXCEPT ![0].len = 0, ![1].len = 0]
          ELSE [m_iv EXCEPT ![0] = Iov(have, m_iv[0].len - have)]

\* The iovecs after writev, when have bytes are sent in all and left are not.
Advance(have, left) ==
  m_iv' = IF have >= m_iv[0].len
          THEN [m_iv EXCEPT ![0].len = 0, ![1] = Iov(have - m_write_idx, left)]
          ELSE [m_iv EXCEPT ![0] = Iov(have, m_iv[0].len - have)]

\* How many of them writev can read: of a file that is not mapped none.
Readable == IF m_iv_count = 2 /\ m_file_address = MAP_FAILED THEN m_iv[0].len
                                                            ELSE Len(Described)

\* writev takes n bytes: at least one, unless nothing is described.
Writev(n) ==
  LET have == bytes_have_send + n
      left == bytes_to_send - n
  IN  /\ at = "writev" /\ bytes_to_send > 0
      /\ n <= Readable /\ (n = 0 => Described = <<>>)
      /\ CutsHeaderOnce /\ bytes_have_send > 0 => have >= m_write_idx
      /\ received' = received \o SubSeq(Described, 1, n)
      /\ bytes_have_send' = have /\ bytes_to_send' = left
      /\ Advance(have, left)
      /\ UNCHANGED <<at, m_write_idx, m_linger, m_iv_count, file, aborts>>

\* EAGAIN: armed for EPOLLOUT again.  (writev of nothing returns 0, no error.)
Again ==
  /\ at = "writev" /\ bytes_to_send > 0 /\ Described # <<>>
  /\ at' = "out"
  /\ UNCHANGED <<sizes, m_iv, m_iv_count, file, received, aborts>>

WriteFails_NoUnmap ==           \* return false alone
  /\ at = "writev" /\ bytes_to_send > 0 /\ Described # <<>>
  /\ at' = "closed"
  /\ UNCHANGED <<sizes, m_iv, m_iv_count, file, received, aborts>>

\* Another error, EFAULT for a file that is not mapped among them: unmap, return
\* false, and the main thread closes.
WriteFails ==
  /\ at = "writev" /\ bytes_to_send > 0 /\ Described # <<>>
  /\ Unmap
  /\ at' = "closed"
  /\ UNCHANGED <<sizes, m_iv, m_iv_count, received, aborts>>

\* Everything is sent: the next request with keep-alive, or close.
Sent ==
  /\ at = "writev" /\ bytes_to_send <= 0
  /\ Unmap
  /\ IF m_linger THEN at' = "in" /\ Reset ELSE at' = "closed" /\ UNCHANGED sizes
  /\ UNCHANGED <<m_iv, m_iv_count, received, aborts>>

\* cb_func between two requests ...
HangUp ==
  /\ at = "in"
  /\ at' = "closed"
  /\ UNCHANGED <<sizes, m_iv, m_iv_count, file, received, aborts>>

\* ... and in the middle of a response: the client hangs up or the timer
\* expires.  Nothing is unmapped.
Abort ==
  /\ at = "out"
  /\ aborts < MaxAborts
  /\ aborts' = aborts + 1
  /\ at' = "closed"
  /\ UNCHANGED <<sizes, m_iv, m_iv_count, file, received>>

WriteLoop ==
  \/ Again \/ WriteFails \/ Sent
  \/ \E n \in 0 .. Len(Described) : Writev(n)
-----------------------------------------------------------------------------
Next ==
  \/ Accept \/ RespondFile \/ RespondError \/ NoResponse
  \/ Writable \/ WriteLoop \/ HangUp \/ Abort

Spec == Init /\ [][Next]_vars

\* The main thread goes on with a write it has begun.
FairSpec == Spec /\ WF_vars(WriteLoop)
-----------------------------------------------------------------------------
TypeOK ==
  /\ at \in {"closed", "in", "out", "writev"}
  /\ m_write_idx \in 0 .. WRITE_BUFFER_SIZE - 2
  /\ m_linger \in BOOLEAN
  /\ bytes_to_send \in Nat /\ bytes_have_send \in Nat
  /\ m_iv \in [0 .. 1 -> [base : Int, len : Nat]]
  /\ m_iv_count \in 0 .. 2
  /\ m_file_address \in Addresses \cup {NULL, MAP_FAILED}
  /\ st_size \in FileSizes \cup {0}
  /\ mapped \subseteq [address : Addresses, size : FileSizes]
  /\ aborts \in 0 .. MaxAborts

Sending == at \in {"out", "writev"}
FileSize == IF m_iv_count = 2 THEN st_size ELSE 0

(* While a response is under way the two iovecs describe what has not been *)
(* sent, the rest of the header and the rest of the file, and the counters *)
(* agree with them (http_conn.cpp:776-788).                                *)
RestIsDescribed ==
  Sending =>
    /\ bytes_have_send + bytes_to_send = m_write_idx + FileSize
    /\ IF bytes_have_send < m_write_idx
         THEN /\ m_iv[0] = Iov(bytes_have_send, m_write_idx - bytes_have_send)
              /\ m_iv_count = 2 => m_iv[1] = Iov(0, FileSize)
         ELSE /\ m_iv[0].len = 0
              /\ m_iv_count = 2 => m_iv[1] = Iov(bytes_have_send - m_write_idx, bytes_to_send)

\* The response as it should go out.
Response == Bytes("header", Iov(0, m_write_idx)) \o Bytes("file", Iov(0, FileSize))

(* Whatever writev takes at a time, the client gets the header and the     *)
(* file, each byte once and in order, and all of it before the response    *)
(* counts as sent (http_conn.cpp:762-803).                                 *)
SentInOrder ==
  Sending =>
    /\ Len(received) <= Len(Response)
    /\ received = SubSeq(Response, 1, Len(received))
    /\ bytes_to_send <= 0 => received = Response

(* As long as no response was broken off on the slot, exactly the file that *)
(* is being sent is mapped, where unmap will release it and with the size  *)
(* it was mapped with, and otherwise no file is and unmap would release    *)
(* none, although the address and the size are fields that init() does not *)
(* reset, that every request may set, and that are set as well when open   *)
(* or mmap has failed (http_conn.cpp:595-602, 573, 585-586).               *)
UnmapsItsOwn ==
  aborts = 0 =>
    IF Sending /\ m_iv_count = 2 /\ m_file_address # MAP_FAILED
      THEN mapped = {[address |-> m_file_address, size |-> st_size]}
      ELSE mapped = {} /\ m_file_address \notin Addresses

(* No more files stay mapped behind the slot's back than responses were    *)
(* broken off: every other way out of a response, an error included, goes  *)
(* through unmap (http_conn.cpp:771, 791; cb_func does not).               *)
LeaksAreAborts ==
  Cardinality({m \in mapped : m.address # m_file_address}) <= aborts

(* write returns: the main thread, which serves all clients, does not stay *)
(* in its while(1) (http_conn.cpp:761-804).                                *)
WriteEnds == at = "writev" ~> at # "writev"
=============================================================================
