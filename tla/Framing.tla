------------------------------ MODULE Framing ------------------------------
(***************************************************************************)
(* How JsonRPCProtocolBase.data_received (jsonrpc2/protocol.py) cuts the   *)
(* bytes it is given, in chunks of any size, into messages.                *)
(*                                                                         *)
(* The stream is a sequence of tokens: a token of kind "length" is the     *)
(* text of a Content-Length field, "field" that of any other one, "eol" a  *)
(* line break, and "byte" a byte of a body.  A token that has arrived in   *)
(* part is as good as one that has not: no match ends in its middle.       *)
(***************************************************************************)
EXTENDS Integers, Sequences, FiniteSetsExt, SequencesExt

CONSTANTS
  Bodies,       (* the bodies of messages, sequences of tokens             *)
  MaxMessages   (* bound: messages that are sent                           *)

Token == [kind : {"length", "field", "eol", "byte"}, n : Nat]

(* Clients of the language server write JSON without a line break.         *)
ASSUME FramingAssumption ==
  /\ \A b \in Bodies : b \in Seq(Token) /\ b # <<>>
  /\ \A b \in Bodies : \A i \in DOMAIN b : b[i].kind = "byte"
  /\ MaxMessages \in Nat

VARIABLES
  message_buf,  (* _message_buf                                            *)
  data,         (* what data_received has still to see of its argument     *)
  handled,      (* the bodies given to _handle_body                        *)
  written,      (* the bodies that were sent                               *)
  stream        (* what has not arrived                                    *)

frVars == <<message_buf, data, handled, written, stream>>

frInit == message_buf = <<>> /\ data = <<>> /\ handled = <<>> /\ written = <<>> /\ stream = <<>>

-----------------------------------------------------------------------------
(* A message as a client sends it: the length comes first, another field,  *)
(* which the server's own messages have, may follow.                       *)

Eol == [kind |-> "eol", n |-> 0]

Framed(body, field) ==
  << [kind |-> "length", n |-> Len(body)], Eol>>
    \o (IF field THEN << [kind |-> "field", n |-> 0], Eol>> ELSE <<>>)
    \o <<Eol>> \o body

send(body, field) ==
  /\ Len(written) < MaxMessages
  /\ written' = Append(written, body)
  /\ stream' = stream \o Framed(body, field)
  /\ UNCHANGED <<message_buf, data, handled>>

-----------------------------------------------------------------------------
(* MESSAGE_PATTERN.  The lines before the length are matched greedily, so  *)
(* the last length in the buffer that begins a line and is followed by an  *)
(* empty line is the one that is found.                                    *)

EmptyLines(buf, p) == {q \in p + 2 .. Len(buf) : buf[q] = Eol /\ buf[q - 1] = Eol}

Lengths(buf) ==
  {p \in DOMAIN buf : /\ buf[p].kind = "length"
                      /\ p = 1 \/ buf[p - 1] = Eol
                      /\ p < Len(buf) /\ buf[p + 1] = Eol
                      /\ EmptyLines(buf, p) # {}}

found(buf) == Lengths(buf) # {}
length(buf) == buf[Max(Lengths(buf))].n
rest(buf) == SubSeq(buf, Min(EmptyLines(buf, Max(Lengths(buf)))) + 1, Len(buf))

(* Is there a whole message in the buffer?                                 *)
complete(buf) == found(buf) /\ Len(rest(buf)) >= length(buf)

-----------------------------------------------------------------------------
(* data_received, one iteration of its loop after the other                *)

receive(k) ==
  /\ data = <<>>
  /\ data' = SubSeq(stream, 1, k)
  /\ stream' = SubSeq(stream, k + 1, Len(stream))
  /\ UNCHANGED <<message_buf, handled, written>>

(* What is left of a chunk after a message is what the next iteration sees.*)
DataAfter(buf) == SubSeq(rest(buf), length(buf) + 1, Len(rest(buf)))

(* Mutant: the buffer is not emptied.                                      *)
BufKept(buf) == buf
BufAfter(buf) == <<>>

take_message ==
  /\ data # <<>>
  /\ LET buf == message_buf \o data IN
     IF complete(buf)
     THEN /\ handled' = Append(handled, SubSeq(rest(buf), 1, length(buf)))
          /\ message_buf' = BufAfter(buf)
          /\ data' = DataAfter(buf)
     ELSE /\ message_buf' = buf
          /\ data' = <<>>
          /\ UNCHANGED handled
  /\ UNCHANGED <<written, stream>>

frNext ==
  \/ \E body \in Bodies, field \in BOOLEAN : send(body, field)
  \/ \E k \in 1 .. Len(stream) : receive(k)
  \/ take_message

frSpec == frInit /\ [][frNext]_frVars

-----------------------------------------------------------------------------
(* Properties                                                              *)

(* Whatever the chunks, messages are handled whole and in order, none is   *)
(* handled twice, and none that has arrived waits for the next one.        *)
HandledInOrder ==
  /\ IsPrefix(handled, written)
  /\ stream = <<>> /\ data = <<>> => handled = written
=============================================================================
