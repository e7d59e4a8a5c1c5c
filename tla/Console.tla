------------------------------ MODULE Console ------------------------------
(***************************************************************************)
(* A board at the other end of a serial line: what arrives there, the line *)
(* input of snek-io.c, and the commands on its console that Snekde uses,   *)
(* eeprom.write(), eeprom.show(1) and reset().                             *)
(*                                                                         *)
(* Two kinds of board are modelled.  On "uart" boards the receive          *)
(* interrupt drops what its ring has no room for, and ^C empties the ring; *)
(* on "usb" boards the host has to wait for room.  A token stands for a    *)
(* control character or for a word of a line or program; "nl" ends a line. *)
(* Echo, backspacing and messages are left out.                            *)
(***************************************************************************)
EXTENDS Naturals, Sequences, SequencesExt

CONSTANTS
  Ring,       \* UART_RINGSIZE
  Fifo,       \* what a USB board holds
  RomSize     \* EEPROM_SIZE

ASSUME RingAssumption == Ring \in Nat \ {0} /\ Fifo \in Nat \ {0}
ASSUME RomAssumption == RomSize \in Nat \ {0}

VARIABLES
  kind,       \* "uart" or "usb"
  down,       \* bytes on their way to the board
  up,         \* bytes on their way to the host
  ring,       \* bytes received and not read
  abort,      \* snek_abort
  doing,      \* "read", "store", "burn", "show", "run" or "boot"
  typed,      \* buf: the line as far as it has been read
  kept,       \* what a line begun before ^C has left in buf
  rom, addr,  \* the eeprom, and the position in it
  lost        \* a byte other than ENQ has been dropped for want of room

console == <<up, ring, abort, doing, typed, kept, rom, addr>>
board   == <<kind, down, console, lost>>

ENQ == "^E"
ACK == "^F"
STX == "^B"
ETX == "^C"
FF  == "FF"                        \* 0xff ends the program
Controls == {"^N", "^O", "^C", "^D"}

\* The program in the eeprom
Program ==
  LET used == SelectInSeq(rom, LAMBDA byte : byte = FF)
  IN  IF used = 0 THEN rom ELSE SubSeq(rom, 1, used - 1)

\* An eeprom that holds a program
Rom(program) == [i \in 1..RomSize |-> IF i <= Len(program) THEN program[i] ELSE FF]

----------------------------------------------------------------------------
(***************************************************************************)
(* The receive interrupts                                                  *)
(***************************************************************************)
\* A board that waits for a byte takes it before the next one arrives.
Waits == doing \in {"read", "store"}

\* RX_vect: ^C empties the ring.
Receive ==
  /\ kind = "uart" /\ down # << >> /\ ~(Waits /\ ring # << >>)
  /\ down' = Tail(down)
  /\ IF Head(down) = "^C"
     THEN ring' = <<"^C">> /\ abort' = TRUE /\ UNCHANGED lost
     ELSE /\ ring' = IF Len(ring) < Ring THEN Append(ring, Head(down)) ELSE ring
          /\ lost' = (lost \/ (Len(ring) = Ring /\ Head(down) # ENQ))
          /\ UNCHANGED abort
  /\ UNCHANGED <<kind, up, doing, typed, kept, rom, addr>>

\* ao_usb_out_hook looks for ^C; the bytes stay where they are.
ReceiveUsb ==
  /\ kind = "usb" /\ down # << >> /\ Len(ring) < Fifo
  /\ down' = Tail(down)
  /\ ring' = Append(ring, Head(down))
  /\ abort' = (abort \/ Head(down) = "^C")
  /\ UNCHANGED <<kind, up, doing, typed, kept, rom, addr, lost>>

----------------------------------------------------------------------------
(***************************************************************************)
(* snek_raw_getc: ENQ is answered when it is read.                         *)
(***************************************************************************)
Answer ==
  /\ Waits /\ ring # << >> /\ Head(ring) = ENQ
  /\ ring' = Tail(ring) /\ up' = Append(up, ACK)
  /\ UNCHANGED <<kind, down, abort, doing, typed, kept, rom, addr, lost>>

Getc(byte) ==
  /\ ring # << >> /\ Head(ring) = byte /\ byte # ENQ
  /\ ring' = Tail(ring)
  /\ UNCHANGED <<kind, down, lost>>

----------------------------------------------------------------------------
(***************************************************************************)
(* snek_io_getc, and snek_parse around it                                  *)
(***************************************************************************)
ReadWord ==
  /\ doing = "read"
  /\ \E word \in ToSet(ring) \ (Controls \cup {"nl"}) :
       Getc(word) /\ typed' = Append(typed, word)
  /\ UNCHANGED <<up, abort, doing, kept, rom, addr>>

ReadControl ==
  /\ doing = "read"
  /\ \E c \in Controls \ {"^C"} : Getc(c)
  /\ UNCHANGED <<up, abort, doing, typed, kept, rom, addr>>

\* ^C returns with the typed part of the line still in buf, where the next
\* call finds it.
ReadIntr ==
  /\ doing = "read" /\ Getc("^C")
  /\ kept' = typed /\ typed' = << >> /\ abort' = FALSE
  /\ UNCHANGED <<up, doing, rom, addr>>

\* What a line makes the board do: nothing when a ^C behind it has been seen.
\* Words that run together are a name nobody
\* has defined, and end in an error.
Does(line) ==
  CASE line = <<"write">> -> "store"
    [] line = <<"show">>  -> "show"
    [] line = <<"reset">> -> "boot"
    [] line = <<"loop">>  -> "run"
    [] OTHER              -> "read"

ReadLine ==
  /\ doing = "read" /\ Getc("nl")
  /\ doing' = IF abort THEN "read" ELSE Does(kept \o typed)
  /\ typed' = << >> /\ kept' = << >> /\ addr' = 0
  /\ abort' = FALSE
  /\ UNCHANGED <<up, rom>>

----------------------------------------------------------------------------
(***************************************************************************)
(* The commands.  What ends returns to snek_parse, which clears snek_abort *)
(* and reads on.                                                           *)
(***************************************************************************)
Done == doing' = "read" /\ abort' = FALSE

\* snek_builtin_eeprom_write takes every byte, also ^C; ^D ends it.
Store ==
  /\ doing = "store"
  /\ \E byte \in ToSet(ring) :
       /\ Getc(byte)
       /\ rom' = [rom EXCEPT ![addr + 1] = IF byte = "^D" THEN FF ELSE byte]
  /\ addr' = addr + 1 /\ doing' = "burn"
  /\ UNCHANGED <<up, abort, typed, kept>>

Burn ==
  /\ doing = "burn"
  /\ IF addr = RomSize \/ rom[addr] = FF
     THEN Done
     ELSE doing' = "store" /\ UNCHANGED abort
  /\ UNCHANGED <<kind, down, up, ring, typed, kept, rom, addr, lost>>

\* snek_builtin_eeprom_show, all of it with one look at the eeprom: nothing
\* can change that in between.
Show ==
  /\ doing = "show"
  /\ IF addr = 0 THEN up' = Append(up, STX) /\ addr' = 1 /\ UNCHANGED <<doing, abort>>
     ELSE IF addr <= Len(Program)
     THEN up' = Append(up, rom[addr]) /\ addr' = addr + 1 /\ UNCHANGED <<doing, abort>>
     ELSE up' = Append(up, ETX) /\ UNCHANGED addr /\ Done
  /\ UNCHANGED <<kind, down, ring, typed, kept, rom, lost>>

\* snek_builtin_reset, and the program in the eeprom started.  A uart board is
\* reset by its watchdog; the others jump to where they started.
Boot ==
  /\ doing = "boot"
  /\ doing' = IF "loop" \in ToSet(Program) THEN "run" ELSE "read"
  /\ abort' = FALSE
  /\ ring' = IF kind = "uart" THEN << >> ELSE ring
  /\ UNCHANGED <<kind, down, up, typed, kept, rom, addr, lost>>

\* A program that runs for ever prints, and stops on ^C.
RunPrints ==
  /\ doing = "run" /\ up = << >>
  /\ up' = <<"out">>
  /\ UNCHANGED <<kind, down, ring, abort, doing, typed, kept, rom, addr, lost>>

RunStops ==
  /\ doing = "run" /\ abort
  /\ Done
  /\ UNCHANGED <<kind, down, up, ring, typed, kept, rom, addr, lost>>

Read == ReadWord \/ ReadControl \/ ReadIntr \/ ReadLine

Board ==
  \/ Receive \/ ReceiveUsb \/ Answer \/ Read
  \/ Store \/ Burn \/ Show \/ Boot \/ RunStops
=============================================================================
