------------------------------ MODULE Display ------------------------------
(***************************************************************************)
(* What the LCD driver promises its caller, with no hardware in it: a call *)
(* adds transfers to the panel's job only when the last call's are all     *)
(* done, and the panel gets exactly these transfers, each once, in order.  *)
(* A frame is the memory-write command 0x2C and then the two pixels, low   *)
(* half first, of each word of memory from the frame's address on.         *)
(***************************************************************************)
EXTENDS Naturals, Sequences

CONSTANTS
  Commands, Values,        \* halfwords written as commands and as data
  Frames, Lengths,         \* addresses and lengths (words) of frames
  DefaultLength            \* the length before any is set

VARIABLES
  todo,      \* transfers <<D/C, data lines>> the panel has still to get
  panel,     \* the last it got, and a bit that changes with every transfer
  length     \* words in a frame

displayVars == <<todo, panel, length>>

NoTransfer == <<1, <<"Z", 0>>, 0>>

Command(c) == <<0, <<"cpu", c>> >>
Value(v)   == <<1, <<"cpu", v>> >>
Pixel(half, address) == <<1, <<half, address>> >>

\* The pixels of the n words of memory from the address on.
Pixels(address, n) ==
  [i \in 1..(2 * n) |-> Pixel(IF i % 2 = 1 THEN "lo" ELSE "hi",
                              address + 4 * ((i - 1) \div 2))]

FrameTransfers(address, n) == <<Command(44)>> \o Pixels(address, n)

Shown(transfer) == <<transfer[1], transfer[2], 1 - panel[3]>>

DisplayInit ==
  /\ todo = << >>
  /\ panel = NoTransfer
  /\ length = DefaultLength

Call(transfers) ==
  /\ todo = << >>
  /\ todo' = transfers
  /\ UNCHANGED <<panel, length>>

SetLength(n) ==
  /\ todo = << >>
  /\ length' = n
  /\ UNCHANGED <<todo, panel>>

Show ==
  /\ todo # << >>
  /\ panel' = Shown(Head(todo))
  /\ todo' = Tail(todo)
  /\ UNCHANGED length

DisplayNext ==
  \/ \E c \in Commands : Call(<<Command(c)>>)
  \/ \E v \in Values : Call(<<Value(v)>>)
  \/ \E a \in Frames : Call(FrameTransfers(a, length))
  \/ \E n \in Lengths : SetLength(n)
  \/ Show

DisplaySafety == DisplayInit /\ [][DisplayNext]_displayVars

DisplaySpec == DisplaySafety /\ WF_displayVars(Show)

============================================================================
