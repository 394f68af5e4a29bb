------------------------------ MODULE ByteQueue ------------------------------
(***************************************************************************)
(* What a Buffer is to the code that uses it: a queue of bytes.  Each call *)
(* of the interface is a step here, with the bytes that go in or out.      *)
(***************************************************************************)
EXTENDS Naturals, Sequences

CONSTANT Byte

VARIABLES
  queue,     \* the bytes in the queue, oldest first
  input,     \* the bytes the last step put in
  output     \* the bytes the last step took out

vars == <<queue, input, output>>

Init == queue = <<>> /\ input = <<>> /\ output = <<>>

Put ==
  /\ input' \in Seq(Byte)
  /\ queue' = queue \o input'
  /\ output' = <<>>

Take ==
  /\ output' \in Seq(Byte)
  /\ queue = output' \o queue'
  /\ input' = <<>>

Spec == Init /\ [][Put \/ Take]_vars
==============================================================================
