----------------------------- MODULE LabServer -----------------------------
(***************************************************************************)
(* The PUT of a colour or a digit to the board of lab 3 (coap_server.c).   *)
(* A payload is a sequence of characters: digits, and a comma.             *)
(***************************************************************************)
EXTENDS Naturals, FiniteSets, Sequences, SequencesExt

CONSTANTS
  Levels,                \* numbers a payload is made of, at most three digits
  MAX_PUT_PAYLOAD_LEN

VARIABLES
  led,   \* val[0] of the data written to the device
  last   \* the last request, and its answer

Comma == 10

Text(n) == IF n < 10 THEN <<n>>
           ELSE IF n < 100 THEN <<n \div 10, n % 10>>
           ELSE <<n \div 100, (n \div 10) % 10, n % 10>>

(* Numbers with commas between them; none make an empty payload.           *)
Joined(numbers) ==
  LET text == FoldLeft(LAMBDA t, n : t \o <<Comma>> \o Text(n), <<>>, numbers)
  IN SubSeq(text, 2, Len(text))

Requests ==
  {[numbers |-> numbers, left |-> left] :
     numbers \in UNION {[1 .. n -> Levels] : n \in 0 .. 4},
     left \in {<<>>, <<5>>, <<5, 5>>}}

Init == /\ led = 0
        /\ last = [numbers |-> <<>>, left |-> <<>>, states |-> <<>>, answer |-> "none"]

-----------------------------------------------------------------------------
(* The number at a place of the text, 0 if there is none.                  *)
atoi(text, i) ==
  LET end == Min({k \in i .. Len(text) : text[k] = Comma} \cup {Len(text) + 1})
  IN FoldLeft(LAMBDA n, digit : 10 * n + digit, 0, SubSeq(text, i, end - 1))

(* The length of "%d".                                                     *)
Size(n) == 1 + Cardinality({p \in {10, 100, 1000, 10000} : n >= p})

(* Places that leave the comma out.                                        *)
get_rgb_values_tight(text) ==
  LET r == atoi(text, 1)
      g == atoi(text, 1 + Size(r))
  IN <<r, g, atoi(text, 1 + Size(r) + Size(g))>>

(* Numbers are found by the size of those before them, and a comma.        *)
get_rgb_values(text) ==
  LET r == atoi(text, 1)
      r_size == Size(r) + 1
      g == atoi(text, 1 + r_size)
      g_size == Size(g) + 1
  IN <<r, g, atoi(text, 1 + r_size + g_size)>>

Answers(request, states, answer) ==
  last' = [numbers |-> request.numbers, left |-> request.left,
           states |-> states, answer |-> answer]

(* The text is not terminated: digits may follow that an earlier, longer   *)
(* payload left in the buffer.  Of the three states the first is written.  *)
(* A payload that overruns its copy may damage what the stack holds; then  *)
(* there is no answer.                                                     *)
_riot_board_handler(request) ==
  LET payload == Joined(request.numbers)
      rgb == get_rgb_values(payload \o request.left)
      legal == \A i \in 1 .. 3 : rgb[i] <= 255
  IN \/ /\ Len(payload) = 1
        /\ led' = payload[1] /\ Answers(request, <<led', 0, 0>>, "changed")
     \/ /\ Len(payload) >= 5 /\ Len(payload) # MAX_PUT_PAYLOAD_LEN /\ legal
        /\ led' = rgb[1] /\ Answers(request, rgb, "changed")
     \/ /\ \/ Len(payload) \in {0, 2, 3, 4, MAX_PUT_PAYLOAD_LEN}
           \/ Len(payload) >= 5 /\ ~legal
        /\ Answers(request, <<>>, "bad request") /\ UNCHANGED led
     \/ /\ Len(payload) > MAX_PUT_PAYLOAD_LEN
        /\ Answers(request, <<>>, "crashed") /\ UNCHANGED led

Next == \E request \in Requests : _riot_board_handler(request)

-----------------------------------------------------------------------------
IsColour == last.answer # "none" /\ Len(last.numbers) = 3

Followed(n, digits) == FoldLeft(LAMBDA k, digit : 10 * k + digit, n, digits)

(* The numbers of a colour "R,G,B" are found where they are, by the sizes  *)
(* of those before them: all three are what was sent, but that digits an   *)
(* earlier payload left behind are read as a part of the third; and a      *)
(* colour that is not of the longest form is taken exactly if they are     *)
(* then within 0 to 255 (coap_server.c:81-101, 224-257).                   *)
ColoursTaken ==
  LET read == [last.numbers EXCEPT ![3] = Followed(@, last.left)]
  IN IsColour =>
       /\ last.answer = "changed" => last.states = read /\ led = last.numbers[1]
       /\ Len(Joined(last.numbers)) < MAX_PUT_PAYLOAD_LEN =>
            (last.answer = "changed" <=> \A i \in 1 .. 3 : read[i] <= 255)

(* Colours go up to "255,255,255" (coap_server.c:76-79, 224): one whose    *)
(* numbers are within that is taken, if nothing was left behind.           *)
LongestColourTaken ==
  IsColour /\ last.left = <<>> /\ (\A i \in 1 .. 3 : last.numbers[i] <= 255)
    => last.answer = "changed"
=============================================================================
