------------------------------ MODULE Carrier ------------------------------
(***************************************************************************)
(* The header carrier of messaging/messaging.go: a list of headers that    *)
(* may come from elsewhere, with duplicates and with any capitalization.   *)
(***************************************************************************)
EXTENDS Integers, Sequences

CONSTANTS
  Keys,       \* the lower-case keys
  Values,     \* among them, perhaps, the empty one
  None,       \* the empty answer, which Get gives for want of a header
  Unset,      \* marks a key that was not set
  MaxHeaders  \* bound: headers received

\* Assumed of the constants.
Parameters == Unset \notin Values

\* A key is spelled in lower case or otherwise.
Header == [key : Keys, lower : BOOLEAN, value : Values]

VARIABLES
  received,  \* the headers given to NewCarrier
  headers,   \* the carrier
  written    \* history: what Set wrote last for each key

vars == <<received, headers, written>>

NewCarrier(given) ==
  /\ received = given
  /\ headers = given
  /\ written = [k \in Keys |-> Unset]

Init == \E n \in 0..MaxHeaders : \E given \in [1..n -> Header] : NewCarrier(given)

\* A loop over a list, that keeps what is in Wanted.
Filtered(list, Wanted) ==
  LET kept[n \in 0..Len(list)] ==
        IF n = 0 THEN <<>>
        ELSE IF list[n] \in Wanted THEN Append(kept[n - 1], list[n]) ELSE kept[n - 1]
  IN  kept[Len(list)]

\* The headers for key, in any spelling; those of other keys; those in lower case.
Of(key) == {h \in Header : h.key = key}
Others(key) == {h \in Header : h.key # key}
Lower == {h \in Header : h.lower}

Variants(list, key) == Filtered(list, Of(key))
FirstValue(list) == IF list = <<>> THEN None ELSE Head(list).value

\* A slip: only the lower-case header is replaced.
WithoutLower(key) == Filtered(headers, Others(key) \cup (Header \ Lower))

\* A slip: the order of appearance alone decides.
GetFirst(key) == FirstValue(Variants(headers, key))

(* The exact key first, then any capitalization of it.                     *)
Get(key) ==
  LET exact == Filtered(headers, Of(key) \cap Lower)
  IN IF exact # <<>> THEN FirstValue(exact) ELSE FirstValue(Variants(headers, key))

(* What Set keeps.                                                         *)
Without(key) == Filtered(headers, Others(key))

Set(key, value) ==
  /\ headers' = Append(Without(key), [key |-> key, lower |-> TRUE, value |-> value])
  /\ written' = [written EXCEPT ![key] = value]
  /\ UNCHANGED received

HeaderKeys(list) == [i \in DOMAIN list |-> <<list[i].key, list[i].lower>>]

Next == \E k \in Keys, v \in Values : Set(k, v)

Spec == Init /\ [][Next]_vars

-----------------------------------------------------------------------------

\* The carrier is a map to its propagator: a key reads as it was last set,
\* under the one lower-case name Keys lists for it, and an untouched key as it
\* was received, the lower-case header before the others; the headers of
\* untouched keys stay as they were, in their order.
ReadsAsWritten ==
  \A k \in Keys :
    LET mine == Variants(headers, k)
        theirs == Variants(received, k)
        exact == Filtered(theirs, Lower)
    IN IF written[k] # Unset
       THEN /\ Get(k) = written[k]
            /\ Filtered(HeaderKeys(headers), {k} \X BOOLEAN) = <<<<k, TRUE>>>>
       ELSE /\ mine = theirs
            /\ Get(k) = FirstValue(IF exact = <<>> THEN theirs ELSE exact)
=============================================================================
