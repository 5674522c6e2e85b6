-------------------------------- MODULE Fusc --------------------------------
(***************************************************************************)
(* fusc (main/fusc.c): compile every file of the command line, then write  *)
(* the C program, `fusc -a`.  CompileDefs compiles, Emit writes; an error  *)
(* of the first leaves nothing written.                                    *)
(***************************************************************************)
EXTENDS CompileDefs

VARIABLES section, at, typedefs, constants, complete, macros, protos, table, bodies,
          faults

Out == INSTANCE Emit

\* No def has the name of a macro's body that is none.
ASSUME NamesAssumption == Def \cap {Out!NoMacro, Out!NoCleanup} = {}

outVars ==
  <<section, at, typedefs, constants, complete, macros, protos, table, bodies, faults>>
fuscVars == <<cvars, outVars>>

FuscInit == Init /\ Out!OutInit

Compiling == Step /\ UNCHANGED outVars

Compiled == phase = "done" /\ Len(defs) = Len(Order)

Writing ==
  /\ Compiled
  /\ Out!Write
  /\ UNCHANGED cvars

Exited ==
  /\ phase \in {"refused", "crashed"} \/ section = "end"
  /\ UNCHANGED fuscVars

FuscNext == Compiling \/ Writing \/ Exited

FuscSpec == FuscInit /\ [][FuscNext]_fuscVars /\ WF_fuscVars(Compiling \/ Writing)
-----------------------------------------------------------------------------
(***************************************************************************)
(* The C compiler only ever complains of a field of incomplete type: every *)
(* typedef is known when it is used, and every cleanup function that is    *)
(* called or put in the table has been declared, through however many      *)
(* aliases and their macros it is named.                                   *)
(***************************************************************************)
NamesDeclared == \A f \in faults : f[1] = "incomplete type"

(***************************************************************************)
(* The output links: a function is written once for every one that was     *)
(* declared, and for no other, although the prototypes of cleanups go by   *)
(* what a type is an alias of (type_has_cleanup) and bodies by its own     *)
(* tag; and types[TYPE_d] is d's entry in the table.                       *)
(***************************************************************************)
Links ==
  section = "end" =>
    /\ ToSet(bodies) = protos
    /\ IsInjective(bodies)
    /\ table = constants

NoTypedefs == \A d \in Def : types[d].tag \notin {"alias", "func"}

(***************************************************************************)
(* Without aliases and funcs the second sort has nothing to do and does    *)
(* nothing: then every struct is complete when it is held by value.        *)
(***************************************************************************)
CompleteWithoutTypedefs == NoTypedefs => faults = {}

(***************************************************************************)
(* Whatever fusc accepts, a C compiler accepts: "Resolves C struct/union/  *)
(* typedef dependency ordering".                                           *)
(***************************************************************************)
OutputCompiles == faults = {}

(***************************************************************************)
(* fusc exits: with an error and nothing written, or with all of it.       *)
(***************************************************************************)
Exits == <>[](\/ phase \in {"refused", "crashed"} /\ section = "typedefs" /\ at = 1
              \/ section = "end")
=============================================================================
