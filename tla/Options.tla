-------------------------------- MODULE Options --------------------------------
(***************************************************************************)
(* The command line: GetOpt::parse for the kinds of option conjist has,    *)
(* switches and options with one value.  It lexes arguments from a stack,  *)
(* onto which it pushes back what follows "=" or a short name.             *)
(*                                                                         *)
(* An argument is a record [kind, name, more]:                             *)
(*   "long"   --name, or --name=... with more the argument after the "="   *)
(*   "short"  -n, or -n... with more the argument that follows             *)
(*   "text"   anything else: name is its text                              *)
(*   "end"    "--" alone                                                   *)
(***************************************************************************)
EXTENDS Integers, Sequences, SequencesExt

CONSTANTS None,
          Switches,     \* long names
          Valued,       \* long names of the options with a value
          Short,        \* short name |-> long name
          Arguments,    \* the arguments there may be, those pushed back among them
          Length(_)     \* of the text of an argument

VARIABLES args,         \* the command line
          stack,        \* what is left of it, its top first
          expecting,    \* ExpectingState: the option whose value comes next
          value,        \* value[o]: *stringValue or *boolValue of option o
          parsed        \* "no" while parse() runs, then "ok", "bad" or "exit"

optionVars == <<args, stack, expecting, value, parsed>>

Known == Switches \cup Valued

(* What is pushed back is shorter than what it is part of.  *)
ASSUME OptionsAssumption ==
    /\ Switches \cap Valued = {} /\ None \notin Known
    /\ \A n \in DOMAIN Short : Short[n] \in Known
    /\ \A a \in Arguments :
          /\ Length(a) \in Nat
          /\ a.more # None =>
                /\ a.kind \in {"long", "short"}
                /\ a.more \in Arguments /\ Length(a.more) < Length(a)

(* addOption and addSwitch set every variable to null or false. *)
InitOptions(line) ==
    /\ args = line /\ stack = line
    /\ expecting = None
    /\ value = [o \in Known |-> IF o \in Switches THEN FALSE ELSE None]
    /\ parsed = "no"

(* The option an argument names; None if GetOpt does not know it. *)
Named(a) ==
    CASE a.kind = "long" /\ a.name \in Known           -> a.name
      [] a.kind = "short" /\ a.name \in DOMAIN Short   -> Short[a.name]
      [] OTHER                                         -> None

Slip_Pushed(a) == IF a.more = None \/ a.kind = "short" THEN <<>> ELSE <<a.more>>
(* What follows "=" or the letter is pushed, to be lexed as an argument. *)
Pushed(a) == IF a.more = None THEN <<>> ELSE <<a.more>>

Rest(a) == Pushed(a) \o Tail(stack)

Fails(how) ==
    /\ parsed' = how
    /\ UNCHANGED <<args, stack, expecting, value>>

(* "--" exits the process; an unknown option, or an option where a value is   *)
(* expected, makes parse() fail.                                             *)
ParseFails ==
    /\ stack # <<>>
    /\ LET a == Head(stack) IN
       IF a.kind = "end" THEN Fails("exit")
       ELSE /\ a.kind # "text" /\ (Named(a) = None \/ expecting # None)
            /\ Fails("bad")

ParseSwitch ==
    /\ stack # <<>> /\ expecting = None
    /\ Named(Head(stack)) \in Switches
    /\ value' = [value EXCEPT ![Named(Head(stack))] = TRUE]
    /\ stack' = Rest(Head(stack))
    /\ UNCHANGED <<args, expecting, parsed>>

ParseOption ==
    /\ stack # <<>> /\ expecting = None
    /\ Named(Head(stack)) \in Valued
    /\ expecting' = Named(Head(stack))
    /\ stack' = Rest(Head(stack))
    /\ UNCHANGED <<args, value, parsed>>

(* A plain argument is the value expected; if none is it is ignored, as       *)
(* conjist registers no argument.                                            *)
ParseText ==
    /\ stack # <<>> /\ Head(stack).kind = "text"
    /\ value' = IF expecting = None THEN value
                ELSE [value EXCEPT ![expecting] = Head(stack).name]
    /\ expecting' = None
    /\ stack' = Tail(stack)
    /\ UNCHANGED <<args, parsed>>

ParseEnd ==
    /\ stack = <<>>
    /\ parsed' = IF expecting = None THEN "ok" ELSE "bad"
    /\ UNCHANGED <<args, stack, expecting, value>>

Parse == parsed = "no" /\ (ParseFails \/ ParseSwitch \/ ParseOption \/ ParseText \/ ParseEnd)

-----------------------------------------------------------------------------
(* What a command line means, said without a stack *)

(* Its arguments, each followed by those attached to it. *)
Spread[a \in Arguments] == IF a.more = None THEN <<a>> ELSE <<a>> \o Spread[a.more]
Flat(list) == FlattenSeq([i \in DOMAIN list |-> Spread[list[i]]])
Words == Flat(args)

Accepted(words) ==
    \A i \in DOMAIN words :
        /\ words[i].kind = "text" \/ Named(words[i]) # None
        /\ Named(words[i]) \in Valued => i < Len(words) /\ words[i + 1].kind = "text"

Meant(words, o) ==
    LET given == {i \in DOMAIN words : Named(words[i]) = o} IN
    IF o \in Switches THEN given # {}
    ELSE IF given = {} THEN None
    ELSE words[1 + CHOOSE i \in given : \A j \in given : j <= i].name

(* parse() accepts a command line if all options in it are registered and     *)
(* each that needs a value has one, and leaves every option the last value   *)
(* given.  What the usage text names may not be registered: UsageAccepted.   *)
OptionsMeant ==
    parsed # "no" =>
       LET words == Words IN
       IF parsed = "ok"
       THEN Accepted(words) /\ \A o \in Known : value[o] = Meant(words, o)
       ELSE ~Accepted(words)

=============================================================================
