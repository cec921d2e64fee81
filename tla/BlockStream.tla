---------------------------- MODULE BlockStream ----------------------------
(***************************************************************************)
(* HashedBlockStream and HmacBlockStream: bytes cut into numbered, checked *)
(* blocks, an empty block at the end (streams/HashedBlockStream.cpp,       *)
(* streams/HmacBlockStream.cpp).  Both differ in how a block is checked,   *)
(* not in what the check finds: a block is accepted when it is as it was   *)
(* written and its number is the next one.                                 *)
(*                                                                         *)
(* The device may fail in any write, leaving nothing or a piece of the     *)
(* block, and may recover.  The file may be damaged before it is read.     *)
(*                                                                         *)
(* One stream is written.  After reset() the code could write a second one *)
(* to the same device, as TestHashedBlockStream does; the writers of files *)
(* never do, so here write() ends with the first reset.                    *)
(***************************************************************************)
EXTENDS Naturals, Sequences

CONSTANTS
  BlockSize,  \* m_blockSize
  Bytes,      \* bound: bytes written to the stream
  MaxCall,    \* bound: bytes of one call
  MaxFaults   \* bound: failures of the device

ASSUME SizeAssumption ==
  BlockSize \in Nat \ {0} /\ Bytes \in Nat /\ MaxCall \in Nat /\ MaxFaults \in Nat

VARIABLES
  phase,      \* "writing", "reset", or "closed" for the writer; then it is read
  offered,    \* bytes handed to write(); the n-th byte is n
  calling,    \* bytes the current write() has not copied yet
  buffer, index, error,             \* m_buffer, m_blockIndex, m_error of the writer
  told,       \* a write() or reset() reported a failure
  device,     \* the blocks in the file
  faults,     \* how often the device has failed
  damaged,    \* the file has been damaged
  unread, next, verdict,            \* the reader's buffer, m_blockIndex, m_eof and m_error
  wanted,     \* bytes the current read() still wants
  copied,     \* bytes the current read() has copied
  received    \* bytes that read() has returned

writer == <<phase, offered, calling, buffer, index, error, told, faults>>
reader == <<unread, next, verdict, wanted, copied, received>>
vars == <<writer, device, damaged, reader>>

Block == [index : Nat, data : Seq(1..Bytes), sound : BOOLEAN]

TypeOK ==
  /\ phase \in {"writing", "reset", "closed"}
  /\ offered \in 0..Bytes
  /\ calling \in 0..MaxCall /\ calling <= offered
  /\ buffer \in Seq(1..Bytes) /\ Len(buffer) <= BlockSize
  /\ Len(buffer) = BlockSize => error
  /\ index \in Nat
  /\ error \in BOOLEAN /\ told \in BOOLEAN /\ damaged \in BOOLEAN
  /\ device \in Seq(Block)
  /\ faults \in 0..MaxFaults
  /\ unread \in Seq(1..Bytes) /\ Len(unread) <= BlockSize
  /\ next \in Nat
  /\ verdict \in {"more", "end", "error"}
  /\ wanted \in 0..MaxCall
  /\ copied \in Seq(1..Bytes) /\ Len(copied) + wanted <= MaxCall
  /\ received \in Seq(1..Bytes)

Init ==
  /\ phase = "writing"
  /\ offered = 0 /\ calling = 0
  /\ buffer = <<>> /\ index = 0 /\ error = FALSE
  /\ told = FALSE
  /\ device = <<>>
  /\ faults = 0
  /\ damaged = FALSE
  /\ unread = <<>> /\ next = 0 /\ verdict = "more"
  /\ wanted = 0 /\ copied = <<>> /\ received = <<>>

Least(m, n) == IF m < n THEN m ELSE n
From(m, n) == [b \in 1..n |-> m + b]

----------------------------------------------------------------------------
(* The writer *)

\* writeHashedBlock as the outcomes it may have: what it adds to the file, and
\* whether it reports success.  A failed block keeps the buffer.
Outcomes(data, number) ==
  {[adds |-> <<[index |-> number, data |-> data, sound |-> TRUE]>>, ok |-> TRUE]}
  \cup {[adds |-> piece, ok |-> FALSE] :
          piece \in {p \in {<<>>, <<[index |-> number, data |-> data, sound |-> FALSE]>>} :
                       faults < MaxFaults}}

\* Seeded fault: blocks are not numbered.
AfterUnnumbered(number, outcome) == number

\* m_blockIndex after it.  What follows a piece of a block cannot be read, so
\* the number that HashedBlockStream may have used up for it does not matter.
After(number, outcome) == IF outcome.ok THEN number + 1 ELSE number

\* bytesToCopy in writeData
BytesToCopy == Least(calling, BlockSize - Len(buffer))

\* write(n).  After an error it takes nothing.
WriteCall(n) ==
  /\ phase = "writing" /\ calling = 0
  /\ offered + n <= Bytes
  /\ offered' = offered + n
  /\ IF error THEN told' = TRUE /\ UNCHANGED calling
              ELSE calling' = n /\ UNCHANGED told
  /\ UNCHANGED <<phase, buffer, index, error, faults, device, damaged, reader>>

\* One round of the loop in writeData.
WriteLoop ==
  /\ calling > 0
  /\ LET full == buffer \o From(offered - calling, BytesToCopy)
     IN IF Len(full) # BlockSize
        THEN /\ buffer' = full
             /\ calling' = calling - BytesToCopy
             /\ UNCHANGED <<index, error, told, device, faults>>
        ELSE \E outcome \in Outcomes(full, index) :
               /\ device' = device \o outcome.adds
               /\ index' = After(index, outcome)
               /\ IF outcome.ok
                  THEN /\ buffer' = <<>> /\ calling' = calling - BytesToCopy
                       /\ UNCHANGED <<error, told, faults>>
                  ELSE /\ buffer' = full /\ calling' = 0
                       /\ error' = TRUE /\ told' = TRUE /\ faults' = faults + 1
  /\ UNCHANGED <<phase, offered, damaged, reader>>

\* reset and close write final blocks unless they have been written.
NeedsFinal == buffer # <<>> \/ index # 0

\* reset: the rest of the buffer, the empty block, and back to the start.
Reset ==
  /\ phase \in {"writing", "reset"} /\ calling = 0
  /\ \/ /\ ~NeedsFinal
        /\ phase' = "reset" /\ error' = FALSE
        /\ UNCHANGED <<buffer, index, told, device, faults>>
     \/ /\ NeedsFinal
        /\ \E rest \in IF buffer = <<>> THEN {[adds |-> <<>>, ok |-> TRUE]}
                                        ELSE Outcomes(buffer, index) :
             LET number == IF buffer = <<>> THEN index ELSE After(index, rest)
             IN IF ~rest.ok
                THEN /\ device' = device \o rest.adds
                     /\ error' = TRUE /\ told' = TRUE /\ faults' = faults + 1
                     /\ UNCHANGED <<phase, buffer, index>>
                ELSE \E last \in Outcomes(<<>>, number) :
                       /\ device' = device \o rest.adds \o last.adds
                       /\ buffer' = <<>>
                       /\ IF last.ok
                          THEN /\ index' = 0 /\ error' = FALSE /\ phase' = "reset"
                               /\ UNCHANGED <<told, faults>>
                          ELSE /\ index' = number /\ error' = TRUE /\ told' = TRUE
                               /\ faults' = faults + 1
                               /\ UNCHANGED phase
  /\ UNCHANGED <<offered, calling, damaged, reader>>

\* close, also by the destructor.  Failures are not reported; a block that
\* failed is what the second call writes.
Close ==
  /\ phase # "closed" /\ calling = 0
  /\ phase' = "closed"
  /\ \/ ~NeedsFinal /\ UNCHANGED <<device, faults>>
     \/ /\ NeedsFinal
        /\ \E rest \in IF buffer = <<>> THEN {[adds |-> <<>>, ok |-> TRUE]}
                                        ELSE Outcomes(buffer, index) :
             LET number == IF buffer = <<>> THEN index ELSE After(index, rest)
                 data == IF rest.ok THEN <<>> ELSE buffer
             IN \E last \in Outcomes(data, number) :
                  /\ device' = device \o rest.adds \o last.adds
                  /\ faults' = IF rest.ok /\ last.ok THEN faults
                               ELSE Least(MaxFaults, faults + 1)
  /\ UNCHANGED <<offered, calling, buffer, index, error, told, damaged, reader>>

----------------------------------------------------------------------------
(* The file *)

Changed(n) == [device EXCEPT ![n].sound = FALSE]
Without(n) == SubSeq(device, 1, n - 1) \o SubSeq(device, n + 1, Len(device))
Twice(n) == SubSeq(device, 1, n) \o SubSeq(device, n, Len(device))
Swapped(m, n) == [device EXCEPT ![m] = device[n], ![n] = device[m]]

\* A block is changed, lost, doubled or exchanged with another one, or the end
\* is cut off.
Damage ==
  /\ phase = "closed" /\ ~damaged /\ next = 0 /\ verdict = "more" /\ wanted = 0
  /\ damaged' = TRUE
  /\ \E m, n \in 1..Len(device) :
       device' \in {Changed(n), Without(n), Twice(n), Swapped(m, n), SubSeq(device, 1, n - 1)}
  /\ UNCHANGED <<writer, reader>>

----------------------------------------------------------------------------
(* The reader *)

ReadCall(n) ==
  /\ phase = "closed" /\ verdict = "more" /\ wanted = 0
  /\ wanted' = n
  /\ copied' = <<>>
  /\ UNCHANGED <<writer, device, damaged, unread, next, verdict, received>>

\* Seeded fault: the number of a block is not checked.
AcceptsAnyNumber(block) == block.sound

\* The checks of readHashedBlock.
Accepts(block) == block.sound /\ block.index = next

\* Bytes of data are copied; read() returns when it has what it wants.
Copy(data) ==
  LET n == Least(wanted, Len(data))
      now == copied \o SubSeq(data, 1, n)
  IN /\ unread' = SubSeq(data, n + 1, Len(data))
     /\ wanted' = wanted - n
     /\ IF wanted = n THEN received' = received \o now /\ copied' = <<>>
                      ELSE copied' = now /\ UNCHANGED received

CopyUnread ==
  /\ wanted > 0 /\ unread # <<>>
  /\ Copy(unread)
  /\ UNCHANGED <<writer, device, damaged, next, verdict>>

CopyNextBlock ==
  /\ wanted > 0 /\ unread = <<>>
  /\ device # <<>>
  /\ Accepts(Head(device)) /\ Head(device).data # <<>>
  /\ Copy(Head(device).data)
  /\ device' = Tail(device)
  /\ next' = next + 1
  /\ UNCHANGED <<writer, damaged, verdict>>

\* The final block: read() returns what it has copied.
ReadEnd ==
  /\ wanted > 0 /\ unread = <<>>
  /\ device # <<>>
  /\ Accepts(Head(device)) /\ Head(device).data = <<>>
  /\ verdict' = "end"
  /\ received' = received \o copied
  /\ wanted' = 0 /\ copied' = <<>>
  /\ device' = Tail(device)
  /\ UNCHANGED <<writer, damaged, unread, next>>

\* An error: read() returns -1 and what it has copied is lost.
ReadError ==
  /\ wanted > 0 /\ unread = <<>>
  /\ device # <<>> => ~Accepts(Head(device))
  /\ verdict' = "error"
  /\ wanted' = 0 /\ copied' = <<>>
  /\ UNCHANGED <<writer, device, damaged, unread, next, received>>

Next ==
  \/ \E n \in 1..MaxCall : WriteCall(n) \/ ReadCall(n)
  \/ WriteLoop \/ Reset \/ Close \/ Damage
  \/ CopyUnread \/ CopyNextBlock \/ ReadEnd \/ ReadError

Spec == Init /\ [][Next]_vars

----------------------------------------------------------------------------
(* Properties *)

Channel == INSTANCE ByteChannel WITH sent <- offered

\* What is read is what was written, block by block, whatever the device and
\* the file went through; and the end is reported only after every byte, or
\* after the writer was told of a failure.  close() reports none, but then it
\* leaves no end either.
IsAChannel == Channel!Spec

\* An undamaged file that was written without failures is read without an
\* error, whatever the sizes of the calls.  An empty stream is the exception:
\* no block at all is written for it, so it has no end.
NoFalseAlarm ==
  verdict = "error" => damaged \/ faults > 0 \/ offered = 0

=============================================================================
