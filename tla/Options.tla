-------------------------------- MODULE Options --------------------------------
(***************************************************************************)
(* CmdParse (src/property.cpp) and str_split (src/uitility.cpp): a line of *)
(* "key=value" pairs is parsed into a map, which the program reads and     *)
(* changes, and writes back as a line.  A string is a sequence of          *)
(* characters.  One CmdParse and one line that is given to it; copies of a *)
(* CmdParse share nothing, and are left out.                               *)
(***************************************************************************)
EXTENDS Naturals, Sequences, FiniteSets

CONSTANTS
  Line,  \* the lines that parse is given
  Word   \* keys that are looked up and values that are written, all plain

VARIABLES
  kvMap, \* *m_kvMap: the values by key
  line,  \* the line of this program
  read   \* kvMap was parsed from line and not changed since

optionVars == <<kvMap, line, read>>

Space == " "
Equals == "="
NoOptions == [k \in {} |-> <<>>]

ASSUME OptionAssumption ==
  Line \subseteq Seq(STRING) /\ Word \subseteq Seq(STRING \ {Space, Equals})

OptionInit ==
  /\ line \in Line
  /\ kvMap = NoOptions
  /\ read = FALSE

-----------------------------------------------------------------------------
(* The parts between the delimiters, the empty ones included. *)
str_split(in, delimiter) ==
  LET cut == {i \in DOMAIN in : in[i] = delimiter} \cup {0, Len(in) + 1}
      nth(k) == CHOOSE c \in cut : Cardinality({e \in cut : e < c}) = k
  IN  [k \in 1..(Cardinality(cut) - 1) |-> SubSeq(in, nth(k - 1) + 1, nth(k) - 1)]

(* The parts that are a key and a value, at the places where they stand.   *)
Pairs(str) ==
  LET parts == str_split(str, Space)
      halves(k) == str_split(parts[k], Equals)
      whole(h) == Len(h) = 2 /\ h[1] # <<>> /\ h[2] # <<>>
  IN  [k \in {i \in DOMAIN parts : whole(halves(i))} |-> halves(k)]

(* Mistake: the last value of a key is kept. *)
Parsed_LastWins(str) ==
  LET pairs == Pairs(str)
      last(k) == CHOOSE i \in DOMAIN pairs :
                   pairs[i][1] = k /\ \A j \in DOMAIN pairs : pairs[j][1] = k => j <= i
  IN  [k \in {pairs[i][1] : i \in DOMAIN pairs} |-> pairs[last(k)][2]]

(* insert keeps the value that a key has. *)
Parsed(str) ==
  LET pairs == Pairs(str)
      first(k) == CHOOSE i \in DOMAIN pairs :
                    pairs[i][1] = k /\ \A j \in DOMAIN pairs : pairs[j][1] = k => i <= j
  IN  [k \in {pairs[i][1] : i \in DOMAIN pairs} |-> pairs[first(k)][2]]

(* Where each of the pieces begins when one is written behind the other.   *)
Offset(pieces) ==
  LET begin[i \in 1..(Len(pieces) + 1)] ==
        IF i = 1 THEN 0 ELSE begin[i - 1] + Len(pieces[i - 1])
  IN  begin

(* Any order of the keys: that of the hash table. *)
Reversed(order, map) ==
  LET pieces == [i \in DOMAIN order |->
                   order[i] \o <<Equals>> \o map[order[i]] \o <<Space>>]
      begin == Offset(pieces)
      at(p) == CHOOSE i \in DOMAIN order : begin[i] < p /\ p <= begin[i + 1]
      text == [p \in 1..begin[Len(order) + 1] |-> pieces[at(p)][p - begin[at(p)]]]
  IN  SubSeq(text, 1, Len(text) - 1)

-----------------------------------------------------------------------------
parse ==
  /\ kvMap' = Parsed(line)
  /\ read' = TRUE
  /\ UNCHANGED line

(* operator[], whether const or not: a key that is missing gets a value.   *)
Lookup(key) ==
  /\ kvMap' = IF key \in DOMAIN kvMap THEN kvMap
                ELSE [k \in DOMAIN kvMap \cup {key} |->
                        IF k = key THEN <<>> ELSE kvMap[k]]
  /\ read' = (read /\ key \in DOMAIN kvMap)
  /\ UNCHANGED line

(* The value is written through the reference that operator[] returns. *)
SetValue(key, value) ==
  /\ kvMap' = [k \in DOMAIN kvMap \cup {key} |->
                 IF k = key THEN value ELSE kvMap[k]]
  /\ read' = FALSE
  /\ UNCHANGED line

OptionNext ==
  \/ parse
  \/ \E key \in Word : Lookup(key) \/ \E value \in Word : SetValue(key, value)

OptionSpec == OptionInit /\ [][OptionNext]_optionVars

-----------------------------------------------------------------------------
(***************************************************************************)
(* What must hold.                                                         *)
(***************************************************************************)
(* The type invariant. *)
OptionTypeOK ==
  /\ line \in Line /\ read \in BOOLEAN
  /\ \A k \in DOMAIN kvMap : {k, kvMap[k]} \subseteq Seq(STRING \ {Space, Equals})

Stands(str, key, value) ==
  LET pair == key \o <<Equals>> \o value IN
  {i \in 1..(Len(str) + 1 - Len(pair)) :
     /\ SubSeq(str, i, i + Len(pair) - 1) = pair
     /\ i = 1 \/ str[i - 1] = Space
     /\ i + Len(pair) = Len(str) + 1 \/ str[i + Len(pair)] = Space}

Unbroken(str) == str # <<>> /\ \A i \in DOMAIN str : str[i] \notin {Space, Equals}

(* The strings that a line holds. *)
Parts(str) == {SubSeq(str, i, j) : i, j \in 1..Len(str)}

(* An option is found with its own value: parse gives a key the value that *)
(* stands next to it, in the first pair of the line that has the key.      *)
FoundAsWritten ==
  LET plain == {p \in Parts(line) : Unbroken(p)}
      before(i, k) == \E v \in plain : \E j \in Stands(line, k, v) : j < i
  IN  \A k, v \in plain :
        k \in DOMAIN kvMap /\ kvMap[k] = v <=>
          \E i \in Stands(line, k, v) : ~before(i, k)

(* What the test program does: it looks keys up and then writes the map    *)
(* back.  Parsed again, the line has every option that has a value, in     *)
(* whatever order the map is walked; one that a lookup inserted is lost,   *)
(* and disturbs no other.                                                  *)
ReverseParses ==
  LET valued == {k \in DOMAIN kvMap : k # <<>> /\ kvMap[k] # <<>>}
      n == Cardinality(DOMAIN kvMap)
      orders == {o \in [1..n -> DOMAIN kvMap] : {o[i] : i \in 1..n} = DOMAIN kvMap}
  IN  \A o \in orders :
        Parsed(Reversed(o, kvMap)) = [k \in valued |-> kvMap[k]]

(* The options are kept from the line to the map and back. *)
OptionsKept == ReverseParses /\ (read => FoundAsWritten)
=============================================================================
