------------------------------ MODULE Extraction ------------------------------
(***************************************************************************)
(* parsing/extractors.py: identity fields from the text OCR gives.  A text  *)
(* is a record: pan, the PAN number as a sequence or <<>>; runs, the digit  *)
(* runs; lines, functions from the patterns that match in a line ("name:",  *)
(* "like", "parent", "dob") to what they capture; address; dob, a labelled  *)
(* date of birth or <<>>.  Dates are <<year, month, day>>.                  *)
(***************************************************************************)
EXTENDS EmailParser, Integers

VerhoeffP ==
    <<<<0, 1, 2, 3, 4, 5, 6, 7, 8, 9>>, <<1, 5, 7, 6, 2, 8, 3, 0, 9, 4>>,
      <<5, 8, 0, 3, 7, 9, 6, 1, 4, 2>>, <<8, 9, 1, 6, 0, 4, 3, 5, 2, 7>>,
      <<9, 4, 5, 3, 1, 2, 6, 8, 7, 0>>, <<4, 2, 8, 6, 5, 7, 3, 9, 0, 1>>,
      <<2, 7, 9, 3, 8, 0, 6, 4, 1, 5>>, <<7, 0, 4, 6, 9, 1, 3, 2, 5, 8>>>>

VerhoeffD ==
    <<<<0, 1, 2, 3, 4, 5, 6, 7, 8, 9>>, <<1, 2, 3, 4, 0, 6, 7, 8, 9, 5>>,
      <<2, 3, 4, 0, 1, 7, 8, 9, 5, 6>>, <<3, 4, 0, 1, 2, 8, 9, 5, 6, 7>>,
      <<4, 0, 1, 2, 3, 9, 5, 6, 7, 8>>, <<5, 9, 8, 7, 6, 0, 4, 3, 2, 1>>,
      <<6, 5, 9, 8, 7, 1, 0, 4, 3, 2>>, <<7, 6, 5, 9, 8, 2, 1, 0, 4, 3>>,
      <<8, 7, 6, 5, 9, 3, 2, 1, 0, 4>>, <<9, 8, 7, 6, 5, 4, 3, 2, 1, 0>>>>

(* One round of the checksum: digit number i from the right. *)
Round(c, i, digit) == VerhoeffD[c + 1][VerhoeffP[(i % 8) + 1][digit + 1] + 1]

VerhoeffValid(number) ==
    LET c[i \in 0..Len(number)] ==
            IF i = 0 THEN 0 ELSE Round(c[i - 1], i - 1, number[Len(number) + 1 - i])
    IN  Len(number) = 12 /\ c[Len(number)] = 0

(* Mutant: the last window of each run is not tried. *)
CandidatesShort(runs) ==
    {p \in (DOMAIN runs) \X (1..13) :
        /\ Len(runs[p[1]]) \in 12..24
        /\ p[2] + 11 < Len(runs[p[1]])
        /\ runs[p[1]][p[2]] \in 2..9}

(* Where a 12-digit window that may be an Aadhaar number starts. *)
Candidates(runs) ==
    {p \in (DOMAIN runs) \X (1..13) :
        /\ Len(runs[p[1]]) \in 12..24
        /\ p[2] + 11 <= Len(runs[p[1]])
        /\ runs[p[1]][p[2]] \in 2..9}

Window(runs, p) == SubSeq(runs[p[1]], p[2], p[2] + 11)

(* The first valid candidate, else the first; <<>> when there is none. *)
ExtractAadhaar(runs) ==
    LET valid == {p \in Candidates(runs) : VerhoeffValid(Window(runs, p))}
        best  == IF valid = {} THEN Candidates(runs) ELSE valid
    IN  IF best = {} THEN <<>>
        ELSE Window(runs, CHOOSE p \in best : \A q \in best :
                              p[1] < q[1] \/ (p[1] = q[1] /\ p[2] <= q[2]))

(* The nearest name-like line above a pattern's first line, if any. *)
NameAbove(lines, pattern) ==
    LET at   == {i \in DOMAIN lines : pattern \in DOMAIN lines[i]}
        like == {j \in DOMAIN lines : "like" \in DOMAIN lines[j] /\ at # {}
                                        /\ \A i \in at : j < i}
    IN  IF like = {} THEN Blank
        ELSE lines[CHOOSE j \in like : \A k \in like : k <= j]["like"]

(* A label, then the line above the parent's (PAN), then the line above the *)
(* date of birth (Aadhaar), then the first line that looks like a name.     *)
ExtractName(lines) ==
    Or(First(lines, "name:"),
       Or(NameAbove(lines, "parent"),
          Or(NameAbove(lines, "dob"), First(lines, "like"))))

(* Mutant: month and day compared one by one. *)
ComputeAgeApart(dob, day) ==
    day[1] - dob[1] - (IF day[2] < dob[2] \/ day[3] < dob[3] THEN 1 ELSE 0)

ComputeAge(dob, day) ==
    day[1] - dob[1]
        - (IF day[2] < dob[2] \/ (day[2] = dob[2] /\ day[3] < dob[3]) THEN 1 ELSE 0)

(* The fields that could be read, as a function from their names. *)
ExtractIdentityFields(text, day) ==
    LET number == IF text.pan # <<>> THEN text.pan ELSE ExtractAadhaar(text.runs)
        name   == ExtractName(text.lines)
        found  == (IF number # <<>> THEN {"document_number"} ELSE {})
                      \cup (IF Given(name) THEN {"name"} ELSE {})
                      \cup (IF Given(text.address) THEN {"address"} ELSE {})
                      \cup (IF text.dob # <<>> THEN {"dob", "age"} ELSE {})
    IN  [field \in found |->
            CASE field = "document_number" -> number
              [] field = "name" -> name
              [] field = "address" -> text.address
              [] field = "dob" -> text.dob
              [] field = "age" -> ComputeAge(text.dob, day)]

-----------------------------------------------------------------------------
(* What a card shows, for the properties.                                   *)

(* One day comes before another. *)
Before(d, e) ==
    \/ d[1] < e[1]
    \/ d[1] = e[1] /\ (d[2] < e[2] \/ (d[2] = e[2] /\ d[3] < e[3]))

(* The birthdays after the day of birth, up to a day. *)
Birthdays(dob, day) ==
    {year \in (dob[1] + 1)..day[1] : ~Before(day, <<year, dob[2], dob[3]>>)}

(* The 12-digit parts of digit runs that an Aadhaar number may be. *)
TwelveDigits(runs) ==
    UNION {{SubSeq(runs[i], k, k + 11) : k \in {k \in 1..(Len(runs[i]) - 11) : runs[i][k] >= 2}}
              : i \in {i \in DOMAIN runs : Len(runs[i]) <= 24}}

(* The valid numbers a card shows: its PAN, or what passes the checksum.    *)
NumbersOn(text) ==
    IF text.pan # <<>> THEN {text.pan} ELSE {n \in TwelveDigits(text.runs) : VerhoeffValid(n)}

(* All the digits that might be its number fail the checksum. *)
Misprinted(text) == NumbersOn(text) = {} /\ TwelveDigits(text.runs) # {}

(* The names a card may be said to show: no line from a parent's on, where  *)
(* one above it looks like a name and none is labelled.                     *)
NamesOn(lines) ==
    LET with(pattern) == {i \in DOMAIN lines : pattern \in DOMAIN lines[i]}
        above == {j \in with("like") : \A i \in with("parent") : j < i}
    IN  IF with("name:") = {} /\ with("parent") # {} /\ above # {}
        THEN {lines[j]["like"] : j \in above}
        ELSE {lines[j]["name:"] : j \in with("name:")} \cup {lines[j]["like"] : j \in with("like")}
=============================================================================
