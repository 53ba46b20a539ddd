----------------------------- MODULE DriverOps -----------------------------
(***************************************************************************)
(* The functions of a chip driver, written as programs of bus accesses.    *)
(*                                                                         *)
(* A driver function of this code is a list of register accesses, each     *)
(* followed by "if it failed, return the error", with a few decisions on   *)
(* the driver's own fields, on data read, and a few handlers of errors.    *)
(* A program is a sequence of instructions, one for each thing the bus or  *)
(* another thread can see.  Jumps and handlers are relative, so a program  *)
(* can be placed in another one: that is a call.  DriverMachine runs       *)
(* programs; nothing here has state.                                       *)
(***************************************************************************)
EXTENDS Integers, Sequences

LOCAL Do(op) == [op |-> op, dev |-> "", bank |-> 0, reg |-> 0, val |-> 0,
                 to |-> 1,      \* where a jump or a choice leads
                 fail |-> 0,    \* where a failure leads; 0 is out of the program
                 err |-> "OK",  \* the error returned
                 astray |-> FALSE]

---------------------------------------------------------------------------
(* Registers.  A comment above each access of the code names the bank the  *)
(* register is in; the bank register, 0x00, is written before.             *)

\* Registers that are the same in every bank.
AllBanks == -1

\* WriteOneRegister, WriteRegister (named by its first register), read-
\* modify-write (sony_i2c_SetRegisterBits), a read of something measured,
\* and a read of something set.
W(reg, val) == [Do("write") EXCEPT !.reg = reg, !.val = val]
R(reg)      == [Do("read")  EXCEPT !.reg = reg]
C(reg)      == [Do("probe") EXCEPT !.reg = reg]
\* SetAndSaveRegisterBits: the write goes to the configuration memory too
S(reg, val) == [Do("save")  EXCEPT !.reg = reg, !.val = val]
\* a write that resets the registers of some devices
Reset(reg, devices) == [Do("reset") EXCEPT !.reg = reg, !.val = devices]
\* loadConfigMemory and clearConfigMemory
Clear == <<Do("clear")>>
Load == <<Do("load")>>

\* An access whose comment names another bank than the one selected.
Astray(i) == [i EXCEPT !.astray = TRUE]

\* Accesses of a device in the bank their comment names, the bank being
\* selected by an earlier access, or right before them.
On(dev, bank, accesses) ==
  [n \in 1..Len(accesses) |-> IF accesses[n].op \in {"write", "read", "probe", "save", "reset"}
                              THEN [accesses[n] EXCEPT !.dev = dev, !.bank = bank]
                              ELSE accesses[n]]
Select(dev, bank) == <<[Do("select") EXCEPT !.dev = dev, !.bank = bank]>>
T(bank, accesses) == Select("T", bank) \o On("T", bank, accesses)
X(bank, accesses) == Select("X", bank) \o On("X", bank, accesses)

---------------------------------------------------------------------------
(* The driver's own fields, and its decisions on them.                     *)

Assign(field, val)   == <<[Do("assign") EXCEPT !.reg = field, !.val = val]>>
AssignArg(field)     == <<[Do("assignArg") EXCEPT !.reg = field]>>
\* if the field has none of the values, return the error
Need(field, vals, e) == <<[Do("need") EXCEPT !.reg = field, !.val = vals, !.err = e]>>
\* if something read is not what it should be, return the error
Check(e)             == <<[Do("check") EXCEPT !.err = e]>>
Fails(e)             == <<[Do("raise") EXCEPT !.err = e]>>

Jump(n) == <<[Do("jump") EXCEPT !.to = n]>>
If(field, vals, P, Q) ==
  <<[Do("branch") EXCEPT !.reg = field, !.val = vals, !.to = Len(P) + 2]>>
    \o P \o Jump(Len(Q) + 1) \o Q
When(field, vals, P) ==
  <<[Do("branch") EXCEPT !.reg = field, !.val = vals, !.to = Len(P) + 1]>> \o P
\* Decisions on data, of which the model keeps that either may come out.
Either(P, Q) == <<[Do("choose") EXCEPT !.to = Len(P) + 2]>> \o P \o Jump(Len(Q) + 1) \o Q
Maybe(P)     == <<[Do("choose") EXCEPT !.to = Len(P) + 1]>> \o P

---------------------------------------------------------------------------
(* Blocks, loops and error handlers.                                       *)

\* Leaves the block around it: an early return of success, or a break.
Leave == <<[Do("jump") EXCEPT !.to = 0]>>
Block(P) ==
  [n \in 1..Len(P) |-> IF P[n].op = "jump" /\ P[n].to = 0
                       THEN [P[n] EXCEPT !.to = Len(P) + 1 - n] ELSE P[n]]
Repeat(P) == Block(P \o Jump(-Len(P)))

\* P, whose failures go to what follows it.
LOCAL Guarded(P) ==
  [n \in 1..Len(P) |-> IF P[n].fail = 0 THEN [P[n] EXCEPT !.fail = Len(P) + 1 - n] ELSE P[n]]

\* a function that is called from outside: an error ends it
Function(P) == Guarded(P) \o <<Do("return")>>
Functions(P) == [f \in DOMAIN P |-> Function(P[f])]

\* if P returns one of the errors, go on with H
Try(P, errors, H) ==
  Guarded(P) \o <<[Do("catch") EXCEPT !.val = errors, !.to = Len(H) + 1]>> \o H
\* the result of P is not looked at
Ignore(P) == Guarded(P) \o <<Do("forget")>>
\* C comes after P whatever P returned, and P's result is returned;
\* C runs with the error put aside, and its own is not looked at
Finally(P, F) == Guarded(P) \o <<Do("aside")>> \o Ignore(F) \o <<Do("again")>>

\* if P returns an error, F, whose result is not looked at, and P's error;
\* else F and its result
Closing(P, F) ==
  LET H == <<Do("aside")>> \o Ignore(F) \o <<Do("again")>>
  IN Guarded(P) \o <<[Do("unless") EXCEPT !.to = Len(H) + 1]>> \o H \o F
\* if P returns an error, H, which cannot fail, and the same error
OnError(P, H) ==
  Guarded(P) \o <<[Do("unless") EXCEPT !.to = Len(H) + 2]>> \o H \o <<Do("rethrow")>>

\* SLVT_UnFreezeReg, which returns nothing
Thaw == <<Do("thaw")>>
\* P, and SLVT_UnFreezeReg on its way out, with or without an error
Thawing(P) == Guarded(P) \o Thaw \o <<Do("rethrow")>>
\* SLVT_FreezeReg (its failure is returned at once), P, SLVT_UnFreezeReg
Freeze == <<Do("freeze")>>
Frozen(P) == Freeze \o Thawing(P)

\* a register of the device at which all that is measured is latched
Latching(dev, bank, on) ==
  <<[Do(IF on THEN "freeze" ELSE "thaw") EXCEPT !.dev = dev, !.bank = bank]>>

---------------------------------------------------------------------------
(* Waiting and cancelling.                                                 *)

\* a millisecond or more passes
Tick == <<Do("tick")>>
\* sony_stopwatch_elapsed: after the time allowed, return the error
Timeout(e) == <<[Do("timeout") EXCEPT !.err = e]>>
StartWatch == <<Do("watch")>>
ClearCancel == <<Do("clearCancel")>>
TestCancel(e) == <<[Do("testCancel") EXCEPT !.err = e]>>
\* a measurement of its own begins
Sample == <<Do("sample")>>
=============================================================================
