-------------------------------- MODULE Ages --------------------------------
(***************************************************************************)
(* Personal identity codes and what is derived of them                     *)
(* (packages/db/src/lib/hetu-format.ts): the year and month of birth and   *)
(* whether the person is an adult, on any day.  The same arithmetic draws  *)
(* the codes of seeds (generateHetu), the births of the synthetic people   *)
(* (seed/population.ts) and those of the mock bank's personas whose age    *)
(* is the same whenever they log in (seed/personas.ts).                    *)
(*                                                                         *)
(* A code is its fields; a check character is its number, and a date one   *)
(* of UTC, as the code reads it.                                           *)
(***************************************************************************)
EXTENDS Integers

CONSTANTS None,
          Born,       \* the births, [year, month, day]
          Starts,     \* bound: the days a person looks for the first time
          MaxDays     \* bound: days from there

VARIABLES
  code,   \* the code at the bank
  at,     \* today
  days

vars == <<code, at, days>>

CENTURY_SIGNS == [A |-> 2000, F |-> 2000, minus |-> 1900, Y |-> 1900, plus |-> 1800]

daysInMonth(year, month) ==
  CASE month \in {4, 6, 9, 11} -> 30
    [] month = 2 -> IF year % 4 = 0 /\ (year % 100 # 0 \/ year % 400 = 0) THEN 29 ELSE 28
    [] OTHER -> 31

Date(year, month, day) == [year |-> year, month |-> month, day |-> day]

\* A day's place among the others; one past the end of its month is before the next.
Place(date) == (date.year * 12 + date.month) * 32 + date.day

NextDay(date) ==
  IF date.day < daysInMonth(date.year, date.month) THEN [date EXCEPT !.day = @ + 1]
  ELSE IF date.month < 12 THEN Date(date.year, date.month + 1, 1) ELSE Date(date.year + 1, 1, 1)

-----------------------------------------------------------------------------
(* The code                                                                *)

checkCharacter(dd, mm, yy, individual) == (((dd * 100 + mm) * 100 + yy) * 1000 + individual) % 31

CodeOf(born, sign, individual) ==
  [dd |-> born.day, mm |-> born.month, yy |-> born.year % 100, sign |-> sign,
   individual |-> individual,
   check |-> checkCharacter(born.day, born.month, born.year % 100, individual)]

parseHetu(h) ==
  LET year == CENTURY_SIGNS[h.sign] + h.yy IN
  IF /\ h.sign \in DOMAIN CENTURY_SIGNS
     /\ checkCharacter(h.dd, h.mm, h.yy, h.individual) = h.check
     /\ h.mm \in 1 .. 12 /\ h.dd \in 1 .. daysInMonth(year, h.mm)
     /\ h.individual >= 2
  THEN Date(year, h.mm, h.dd) ELSE None

ageFromYearMonth(year, month, date) ==
  date.year - year
    - IF Place(date) < Place(Date(date.year, month, daysInMonth(year, month))) THEN 1 ELSE 0

\* What the callback keeps: year, month and whether the person is of age.
deriveIdentity(h, date) ==
  LET born == parseHetu(h) IN
  IF born = None THEN None
  ELSE [birthYear |-> born.year, birthMonth |-> born.month,
        adult |-> ageFromYearMonth(born.year, born.month, date) >= 18]

-----------------------------------------------------------------------------
(* Births made to an age                                                   *)

\* Mutation: the year is taken from the age alone.
BornThatYear(age, month, epoch) == epoch.year - age

\* A month that has not ended makes the person a year younger, and the year moves back.
bornFor(age, month, epoch) ==
  LET year == epoch.year - age IN
  IF ageFromYearMonth(year, month, epoch) < age THEN year - 1 ELSE year

signsOf(year) == {s \in DOMAIN CENTURY_SIGNS : CENTURY_SIGNS[s] = (year \div 100) * 100}

generateHetu(age, month, individual, date) ==
  LET year == bornFor(age, month, date) IN
  {CodeOf(Date(year, month, day), sign, individual) :
     day \in {1, daysInMonth(year, month)}, sign \in signsOf(year)}

\* The mock bank's people: born on a fixed day, or so many years and months before the
\* month of the login.
Ago(years, months) == [yearsAgo |-> years, monthsAgo |-> months]
DemoPersona(born, individual, group) == [born |-> born, individual |-> individual, group |-> group]

DEMO_PERSONAS ==
  [aino   |-> DemoPersona(Date(1997, 3, 14), 901, "walkthrough"),
   mikael |-> DemoPersona(Date(1992, 8, 2), 902, "walkthrough"),
   sanna  |-> DemoPersona(Date(1989, 11, 23), 903, "history"),
   onni   |-> DemoPersona(Date(1995, 5, 30), 904, "history"),
   noa    |-> DemoPersona(Date(1999, 1, 9), 905, "history"),
   kerttu |-> DemoPersona(Date(1985, 6, 17), 906, "history"),
   tapio  |-> DemoPersona(Date(1978, 2, 5), 907, "history"),
   ilona  |-> DemoPersona(Date(1993, 9, 27), 908, "history"),
   eetu   |-> DemoPersona(Ago(18, 1), 909, "ages"),
   venla  |-> DemoPersona(Ago(18, 0), 910, "ages"),
   lauri  |-> DemoPersona(Ago(17, 1), 911, "ages"),
   helmi  |-> DemoPersona(Ago(99, 1), 912, "ages")]

hasFixedIdentity(persona) == "year" \in DOMAIN persona.born

\* Months are counted from year zero, so that January minus one is December of the year before.
personaBirth(persona, date) ==
  LET months == (date.year - persona.born.yearsAgo) * 12 + (date.month - 1) - persona.born.monthsAgo
  IN IF hasFixedIdentity(persona) THEN persona.born ELSE Date(months \div 12, (months % 12) + 1, 1)

\* None for a number the population register could give to a person.
personaHetu(persona, date) ==
  LET born == personaBirth(persona, date)
      sign == IF born.year < 1900 THEN "plus" ELSE IF born.year < 2000 THEN "minus" ELSE "A"
  IN IF persona.individual \in 900 .. 999 THEN CodeOf(born, sign, persona.individual) ELSE None

-----------------------------------------------------------------------------
Init ==
  /\ \E born \in Born, individual \in {2, 899} :
       \E sign \in signsOf(born.year) : code = CodeOf(born, sign, individual)
  /\ at \in Starts /\ days = 0

Midnight == days < MaxDays /\ days' = days + 1 /\ at' = NextDay(at) /\ UNCHANGED code

Next == Midnight

Spec == Init /\ [][Next]_vars

-----------------------------------------------------------------------------
TypeOK == at.day \in 1 .. daysInMonth(at.year, at.month) /\ parseHetu(code) \in Born

\* The age of somebody born on a day, counted in birthdays.
Birthdays(born, date) ==
  date.year - born.year
    - IF Place(date) < Place(Date(date.year, born.month, born.day)) THEN 1 ELSE 0

\* Nobody is older than they are, and by the end of the month nobody is younger
\* (hetu-format.ts: "never overstates"), the leap days and the turns of years included.
NeverOlder ==
  LET born == parseHetu(code)
      age == ageFromYearMonth(born.year, born.month, at)
      last == Date(born.year, born.month, daysInMonth(born.year, born.month))
  IN /\ age <= Birthdays(born, at) /\ age >= Birthdays(born, at) - 1
     /\ deriveIdentity(code, at).adult => Birthdays(last, at) >= 18
     /\ at.month # born.month => age = Birthdays(born, at)

\* Codes drawn to an age are of people of that age, and never younger: on the 28th of
\* February somebody of a leap February is a year too young and one of the year before a
\* year older than drawn.
DrawnToTheAge ==
  \A age \in {18, 30, 80}, month \in 1 .. 12 :
    LET drawn == ageFromYearMonth(bornFor(age, month, at), month, at)
        leap == month = 2 /\ at.month = 2 /\ at.day = 28
    IN /\ drawn \in age .. IF leap THEN age + 1 ELSE age
       /\ \A h \in generateHetu(age, month, 2, at) : deriveIdentity(h, at).adult

\* The bank's people are what their notes say on every day they log in: who just turned
\* 18 gets in, who turns 18 this month does not before its last day, who is 17 never
\* does.  No two are one person, and whoever has a history is the same person for ever.
PersonasAreOfAge ==
  LET bank(p) == personaHetu(DEMO_PERSONAS[p], at)
      adult(p) == deriveIdentity(bank(p), at).adult
  IN /\ \A p, q \in DOMAIN DEMO_PERSONAS : p # q => bank(p) # bank(q)
     /\ \A p \in DOMAIN DEMO_PERSONAS :
          /\ parseHetu(bank(p)) = personaBirth(DEMO_PERSONAS[p], at)
          /\ p \notin {"venla", "lauri"} => adult(p)
          /\ DEMO_PERSONAS[p].group = "history" =>
               bank(p) = personaHetu(DEMO_PERSONAS[p], NextDay(at))
     /\ ~adult("lauri")
     /\ LET born == parseHetu(bank("venla"))
        IN at.day < daysInMonth(born.year, born.month) => ~adult("venla")
     /\ LET born == parseHetu(bank("helmi")) IN ageFromYearMonth(born.year, born.month, at) = 99

\* A code with one digit mistyped is no code: the check character misses none.
Mistyped(n, place) == {n + (digit - ((n \div place) % 10)) * place : digit \in 0 .. 9} \ {n}

TyposAreRefused ==
  /\ \A place \in {1, 10, 100} : \A n \in Mistyped(code.individual, place) :
       parseHetu([code EXCEPT !.individual = n]) = None
  /\ \A place \in {1, 10}, field \in {"dd", "mm", "yy"} : \A n \in Mistyped(code[field], place) :
       parseHetu([code EXCEPT ![field] = n]) = None
=============================================================================
