------------------------------- MODULE Periph --------------------------------
(* The simulated UART of module3 ex03: three registers, each a set of bits,  *)
(* written through |= and &= on a volatile word, which load it and store it  *)
(* back. The bank stands in for hardware, which may raise ERROR meanwhile.   *)
EXTENDS Naturals, Sequences

CONSTANTS DataByte,     \* what periph_send may be asked to send
          NoByte, NoWord

ASSUME PeriphAssumption == NoByte \notin DataByte

VARIABLES cr, sr, dr,   \* fake_peripheral
          sending,      \* the byte a periph_send still has to write, or NoByte
          edits,        \* the changes of SR the running call still has to make
          loaded,       \* SR as |= or &= has loaded it, or NoWord
          reported      \* history: ERROR raised between edits and not yet cleared

periphVars == <<cr, sr, dr, sending, edits, loaded, reported>>

BUSY == 0
TXREADY == 1
ERROR == 7
SrBits == {BUSY, TXREADY, ERROR}
SetBit(b)   == [bit |-> b, set |-> TRUE]
ClearBit(b) == [bit |-> b, set |-> FALSE]

PeriphIdle == sending = NoByte /\ edits = <<>>

PeriphInit == /\ cr = {} /\ sr = {TXREADY} /\ dr = 0
              /\ sending = NoByte /\ edits = <<>> /\ loaded = NoWord
              /\ reported = FALSE

\* ENABLE, TXEN and RXEN; nothing but this call touches CR.
periph_init == /\ PeriphIdle
               /\ cr' = cr \cup {0, 1, 2}
               /\ UNCHANGED <<sr, dr, sending, edits, loaded, reported>>

periph_send(b) == /\ PeriphIdle
                  /\ sending' = b
                  /\ UNCHANGED <<cr, sr, dr, edits, loaded, reported>>

\* Mutant: the wrong bit is cleared when the byte is out.
SendBodyClearsReady == /\ sending # NoByte /\ TXREADY \in sr
                       /\ dr' = sending
                       /\ sending' = NoByte
                       /\ edits' = <<SetBit(BUSY), ClearBit(TXREADY)>>
                       /\ UNCHANGED <<cr, sr, loaded, reported>>

\* The wait for TXREADY has ended; while it has not, the loop only re-reads SR.
SendBody == /\ sending # NoByte /\ TXREADY \in sr
            /\ dr' = sending
            /\ sending' = NoByte
            /\ edits' = <<SetBit(BUSY), ClearBit(BUSY)>>
            /\ UNCHANGED <<cr, sr, loaded, reported>>

EditLoad == /\ edits # <<>> /\ loaded = NoWord
            /\ loaded' = sr
            /\ UNCHANGED <<cr, sr, dr, sending, edits, reported>>

\* Mutant: the bit is shifted once too often.
EditedNext(word, e) == IF e.set THEN word \cup {e.bit + 1} ELSE word \ {e.bit + 1}
\* Mutant: a plain write of the bit instead of |=.
EditedAlone(word, e) == IF e.set THEN {e.bit} ELSE word \ {e.bit}
Edited(word, e) == IF e.set THEN word \cup {e.bit} ELSE word \ {e.bit}

EditStore == /\ loaded # NoWord
             /\ sr' = Edited(loaded, Head(edits))
             /\ reported' = (reported /\ Head(edits) # ClearBit(ERROR))
             /\ edits' = Tail(edits)
             /\ loaded' = NoWord
             /\ UNCHANGED <<cr, dr, sending>>

\* main's "simulate error", and its check before it clears.
SimulateError == /\ PeriphIdle
                 /\ edits' = <<SetBit(ERROR)>>
                 /\ UNCHANGED <<cr, sr, dr, sending, loaded, reported>>
CheckError == /\ PeriphIdle /\ ERROR \in sr
              /\ edits' = <<ClearBit(ERROR)>>
              /\ UNCHANGED <<cr, sr, dr, sending, loaded, reported>>

\* The hardware's error; between the load and the store of an edit it is lost.
RaiseError == /\ sr' = sr \cup {ERROR}
              /\ reported' = (reported \/ loaded = NoWord)
              /\ UNCHANGED <<cr, dr, sending, edits, loaded>>

PeriphCode == SendBody \/ EditLoad \/ EditStore
PeriphNext == \/ periph_init \/ PeriphCode \/ SimulateError \/ CheckError
              \/ \E b \in DataByte : periph_send(b)
              \/ RaiseError

PeriphFairness == WF_periphVars(PeriphCode)
PeriphSpec == PeriphInit /\ [][PeriphNext]_periphVars /\ PeriphFairness

------------------------------------------------------------------------------
\* Type invariant.
PeriphTypeOK == /\ cr \in SUBSET {0, 1, 2} /\ sr \in SUBSET SrBits
                /\ dr \in DataByte \cup {0} /\ sending \in DataByte \cup {NoByte}
                /\ loaded \in (SUBSET SrBits) \cup {NoWord}
                /\ reported \in BOOLEAN

\* Setting and clearing BUSY keeps the error flag: one raised outside the load
\* and store of an edit is there until main clears it.
ErrorFlagKept == reported => ERROR \in sr

\* The poll of TXREADY has no bound, and ends because no edit ever takes the bit
\* away: every call returns, with SR no longer busy.
CallsReturn == []<>(PeriphIdle /\ BUSY \notin sr)
==============================================================================
