---------------------------- MODULE ConfigLoad ----------------------------
(***************************************************************************)
(* How a thread follows its config files: GlobalConfig::GetThreadInstance  *)
(* and the getters load a file again when FileLoader finds it modified.    *)
(* One file stands for those of a topic (topic, consumer, store,           *)
(* scheduler and lock config are handled alike); the global one lists it.  *)
(* Every thread has instances of its own, so one thread is enough.  The    *)
(* clock is in seconds, as mtimes are.                                     *)
(***************************************************************************)
EXTENDS Naturals, FiniteSets, FiniteSetsExt

CONSTANTS
    CheckInterval, RefreshDelay,   \* check_interval_s, refresh_delay_s
    MaxWrites                      \* bound of the model

ConfigFile == {"global", "topic"}

VARIABLES
    file,      \* per file: [value (the number of its last write), lists (the
               \* topic), state ("good", "bad", "gone"), mtime, ino]
    fileAge,   \* per file, seconds since its mtime
    loader,    \* per file, its config object: [made, value, lists, mtime (0 for
               \* none), ino, idle (seconds since last_check_time), hasty (what
               \* was loaded was written in the same second)]
    build,     \* build_ of the global config
    doing,     \* "free", or the LoadIfModified under way: "global", "topic", or
               \* "new", the first one of a topic config
    stated,    \* the mtime that stat returned, 0 before, and the age
    inUse,     \* per file, the value that Rebuild last worked on
    writes

configVars == <<file, fileAge, loader, build, doing, stated, inUse, writes>>

NoLoader == [made |-> FALSE, value |-> 0, lists |-> FALSE, mtime |-> 0, ino |-> 0,
             idle |-> CheckInterval + 1, hasty |-> FALSE]
NewLoader == [NoLoader EXCEPT !.made = TRUE]
NoStated == [mtime |-> 0, age |-> 0]

ConfigTypeOK ==
    /\ \A f \in ConfigFile :
         /\ file[f].value \in 0..MaxWrites /\ file[f].state \in {"good", "bad", "gone"}
         /\ loader[f].value \in 0..MaxWrites /\ loader[f].mtime \in 0..MaxWrites
         /\ loader[f].idle \in 0..(CheckInterval + 1)
         /\ fileAge[f] \in 0..(RefreshDelay + 1)
         /\ inUse[f] \in 0..MaxWrites
    /\ doing \in {"free", "global", "new", "topic"}
    /\ stated.mtime = 0 \/ doing # "free"

\* The first call of GetThreadInstance: NewGlobalConfig.
ConfigInit ==
    /\ file = [f \in ConfigFile |->
                 [value |-> 1, lists |-> f = "global", state |-> "good", mtime |-> 1, ino |-> 1]]
    /\ fileAge = [f \in ConfigFile |-> RefreshDelay + 1]
    /\ loader = [f \in ConfigFile |-> IF f = "global" THEN NewLoader ELSE NoLoader]
    /\ build = FALSE /\ doing = "free" /\ stated = NoStated
    /\ inUse = [f \in ConfigFile |-> 0]
    /\ writes = 1

-----------------------------------------------------------------------------
\* A file gets another content.  Written in place, its mtime is new unless it
\* was written in the same second before; moved into place, it has an inode of
\* its own and any mtime.
WriteFile(f, state, lists, moved, fresh) ==
    /\ writes < MaxWrites /\ writes' = writes + 1
    /\ state = "gone" => file[f].state # "gone" /\ ~moved
    /\ ~moved => fresh = (fileAge[f] > 0)
    /\ file' = [file EXCEPT ![f] =
          [value |-> writes + 1, lists |-> lists, state |-> state,
           mtime |-> IF fresh THEN writes + 1 ELSE @.mtime,
           ino |-> IF moved THEN writes + 1 ELSE @.ino]]
    /\ \/ fresh /\ fileAge' = [fileAge EXCEPT ![f] = 0]
       \/ fresh /\ moved /\ fileAge' = [fileAge EXCEPT ![f] = RefreshDelay + 1]
       \/ ~fresh /\ UNCHANGED fileAge
    /\ UNCHANGED <<loader, build, doing, stated, inUse>>

ConfigTick ==
    /\ fileAge' = [f \in ConfigFile |-> Min({fileAge[f] + 1, RefreshDelay + 1})]
    /\ loader' = [f \in ConfigFile |-> [loader[f] EXCEPT !.idle = Min({@ + 1, CheckInterval + 1})]]
    /\ UNCHANGED <<file, build, doing, stated, inUse, writes>>

-----------------------------------------------------------------------------
FileOf(step) == IF step = "global" THEN "global" ELSE "topic"

\* Load of the global config: after a change, or when build_ is cleared, every
\* topic config is made anew.  A topic that is not listed asks for a rebuild
\* once more, every ten seconds at most.
AfterGlobal(ld, modified) ==
    IF modified \/ ~build
    THEN /\ inUse' = [global |-> ld.value, topic |-> 0]
         /\ loader' = [global |-> ld, topic |-> IF ld.lists THEN NewLoader ELSE NoLoader]
         /\ doing' = IF ld.lists THEN "new" ELSE "free"
         /\ build' \in {TRUE, ld.lists}
    ELSE /\ loader' = [loader EXCEPT !["global"] = ld]
         /\ doing' = IF loader["topic"].made THEN "topic" ELSE "free"
         /\ build' \in {TRUE, loader["topic"].made}
         /\ UNCHANGED inUse

\* Load of the topic config, made or rebuilt.
AfterTopic(ld, modified) ==
    /\ loader' = [loader EXCEPT !["topic"] = ld]
    /\ inUse' = [inUse EXCEPT !["topic"] = IF modified \/ doing = "new" THEN ld.value ELSE @]
    /\ doing' = "free"
    /\ UNCHANGED build

\* The end of LoadIfModified, and what Load does after it.
Finished(ld, modified) ==
    /\ stated' = NoStated
    /\ IF doing = "global" THEN AfterGlobal(ld, modified) ELSE AfterTopic(ld, modified)

\* A call of GetThreadInstance and of a getter begins.
UseConfig ==
    /\ doing = "free" /\ doing' = "global"
    /\ UNCHANGED <<file, fileAge, loader, build, stated, inUse, writes>>

\* ResetTimeByInode.
ResetTimeByInode(ld, f) ==
    IF ld.ino # file[f].ino THEN [ld EXCEPT !.ino = file[f].ino, !.mtime = 0] ELSE ld

\* Mutant: no refresh delay.
AnyAge(f) == TRUE

OldEnough(f) == fileAge[f] > RefreshDelay

\* LoadIfModified up to stat: not due, gone, not modified, or to be loaded.
StatFile ==
    /\ doing # "free" /\ stated.mtime = 0
    /\ LET f == FileOf(doing)
           ld == ResetTimeByInode(loader[f], f)
       IN  IF loader[f].idle <= CheckInterval THEN Finished(loader[f], FALSE)
           ELSE IF file[f].state = "gone" THEN Finished([loader[f] EXCEPT !.idle = 0], FALSE)
           ELSE IF ld.mtime = 0 \/ (ld.mtime # file[f].mtime /\ OldEnough(f))
           THEN /\ stated' = [mtime |-> file[f].mtime, age |-> fileAge[f]]
                /\ loader' = [loader EXCEPT ![f] = ld]
                /\ UNCHANGED <<build, doing, inUse>>
           ELSE Finished([ld EXCEPT !.idle = 0], FALSE)
    /\ UNCHANGED <<file, fileAge, writes>>

\* LoadFile reads what the file holds by now; a failed load counts as modified.
LoadFile ==
    /\ stated.mtime # 0
    /\ LET f == FileOf(doing)
           ld == [loader[f] EXCEPT !.idle = 0]
       IN  IF file[f].state = "good"
           THEN Finished([ld EXCEPT !.value = file[f].value, !.lists = file[f].lists,
                                    !.mtime = stated.mtime,
                                    !.hasty = (ld.mtime = 0 /\ stated.age = 0)], TRUE)
           ELSE Finished(ld, TRUE)
    /\ UNCHANGED <<file, fileAge, writes>>

ConfigStep == UseConfig \/ StatFile \/ LoadFile

ConfigNext ==
    \/ ConfigStep \/ ConfigTick
    \/ \E f \in ConfigFile, state \in {"good", "bad", "gone"}, moved, fresh \in BOOLEAN :
         \E lists \in IF f = "global" THEN BOOLEAN ELSE {FALSE} :
             WriteFile(f, state, lists, moved, fresh)

-----------------------------------------------------------------------------
\* The file is fit to be loaded, and the global config leads to it.
Loadable(f) ==
    /\ file["global"].state = "good" /\ file[f].state = "good"
    /\ f = "topic" => file["global"].lists

UpToDate(f) == inUse[f] = file[f].value \/ \E g \in {"global", f} : loader[g].hasty

\* A thread ends up with the content that a file keeps, although files are
\* read while they are written, moved into place or missing for a while: only
\* a first load within the second of a write can miss another write of that
\* second (LoadIfModified, GlobalConfig::Rebuild).
ConfigCatchesUp == \A f \in ConfigFile : <>[]Loadable(f) => <>[]UpToDate(f)
=============================================================================
