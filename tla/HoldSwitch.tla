------------------------------ MODULE HoldSwitch ------------------------------
(***************************************************************************)
(* The lab-wide hold switch of src/arail/scheduler.py: a flag in the       *)
(* portal's memory, loaded once per process from <DATA_DIR>/halt.json and   *)
(* written back, best effort and in place, by every hold and resume.        *)
(*                                                                         *)
(* Every public function takes _halt_lock, so the memory part of a command *)
(* is one step. The file part is not: write_text truncates the file before *)
(* it writes it, and the process may die, or the write may raise OSError,   *)
(* in between. `busy' says which command holds the lock and how far it is;  *)
(* nothing else can run meanwhile.                                          *)
(***************************************************************************)
EXTENDS Naturals, Portal

CONSTANTS MaxCommands,  \* hold and resume commands issued in a behaviour
          MaxCrashes,   \* times the portal process dies
          MaxFaults     \* OSErrors the file system answers with

ASSUME BoundsAssumption ==
    MaxCommands \in Nat /\ MaxCrashes \in Nat /\ MaxFaults \in Nat

VARIABLES halted,      \* _halted
          haltLoaded,  \* _halt_loaded
          loadFailed,  \* _halt_load_failed
          disk,        \* halt.json: absent, a hold record, or unparseable
          busy,        \* the command inside _halt_lock, "none" when it is free
          wantHeld,    \* history: a hold returned and no resume was issued since
          released,    \* history: a resume returned and no hold was issued since
          unsaved,     \* history: the last command to return could not write
          unseen,      \* history: this process could not even look for the file
          commands, crashes, faults   \* what the bounds count

mem == <<halted, haltLoaded, loadFailed>>
history == <<wantHeld, released, unsaved, unseen>>
counters == <<commands, crashes, faults>>
switchVars == <<up, mem, disk, busy, history, counters>>

StateOK ==
    /\ up \in BOOLEAN
    /\ halted \in BOOLEAN /\ haltLoaded \in BOOLEAN /\ loadFailed \in BOOLEAN
    /\ disk \in {"absent", "held", "damaged"}
    /\ busy \in {"none", "hold", "writing", "resume"}
    /\ wantHeld \in BOOLEAN /\ released \in BOOLEAN /\ unsaved \in BOOLEAN
    /\ unseen \in BOOLEAN

CountersOK ==
    /\ commands \in 0..MaxCommands /\ crashes \in 0..MaxCrashes /\ faults \in 0..MaxFaults

SwitchTypeOK == StateOK /\ CountersOK

SwitchInit ==
    /\ up = TRUE /\ disk = "absent" /\ busy = "none"
    /\ halted = FALSE /\ haltLoaded = FALSE /\ loadFailed = FALSE
    /\ wantHeld = FALSE /\ released = FALSE /\ unsaved = FALSE /\ unseen = FALSE
    /\ commands = 0 /\ crashes = 0 /\ faults = 0

-----------------------------------------------------------------------------
(* _load_halt_locked: the first reader of a process reads the file, once. A  *)
(* file that is there but is not a record loads as "not held", remembered as *)
(* a failed load.                                                            *)

LoadedFailedForgets == haltLoaded /\ loadFailed  \* mutant: the except only returns

LoadedHalted == IF haltLoaded THEN halted ELSE disk = "held"
LoadedFailed == IF haltLoaded THEN loadFailed ELSE disk = "damaged"

\* Any thread asks jobs_halted() or halt_load_failed().
Read ==
    /\ up /\ busy = "none"
    /\ haltLoaded' = TRUE
    /\ halted' = LoadedHalted
    /\ loadFailed' = LoadedFailed
    /\ UNCHANGED <<up, disk, busy, history, counters>>

\* _halt_loaded is set before path.exists(), which stands outside the try. When the
\* stat raises (a directory without permission, an I/O error), the caller gets the
\* OSError, a hold or resume command included, but every later call of the process
\* finds the flag loaded: not held, and no failed load to ask about.
StatFails ==
    /\ up /\ busy = "none" /\ ~haltLoaded
    /\ faults < MaxFaults
    /\ haltLoaded' = TRUE
    /\ unseen' = TRUE
    /\ faults' = faults + 1
    /\ UNCHANGED <<up, halted, loadFailed, disk, busy, wantHeld, released, unsaved,
                   commands, crashes>>

\* The stat answers, but reading the file raises OSError.
ReadFails ==
    /\ up /\ busy = "none" /\ ~haltLoaded /\ disk # "absent"
    /\ faults < MaxFaults
    /\ haltLoaded' = TRUE
    /\ loadFailed' = TRUE
    /\ faults' = faults + 1
    /\ UNCHANGED <<up, halted, disk, busy, history, commands, crashes>>

-----------------------------------------------------------------------------
(* halt_all_jobs, resume_all_jobs and _persist_halt_locked *)

Issue(c) ==
    /\ up /\ busy = "none" /\ commands < MaxCommands
    /\ haltLoaded' = TRUE
    /\ halted' = (c = "hold")
    /\ loadFailed' = LoadedFailed
    /\ busy' = c
    /\ wantHeld' = (wantHeld /\ c = "hold")
    /\ released' = (released /\ c = "resume")
    /\ unseen' = FALSE
    /\ commands' = commands + 1
    /\ UNCHANGED <<up, disk, unsaved, crashes, faults>>

Hold == Issue("hold")
Resume == Issue("resume")

\* The call returns to its caller; `bad' tells that the write raised OSError.
Return(holding, bad) ==
    /\ busy' = "none"
    /\ wantHeld' = holding
    /\ released' = ~holding
    /\ unsaved' = bad

\* write_text opens the file for writing, which empties it first.
Truncate ==
    /\ up /\ busy = "hold"
    /\ disk' = "damaged"
    /\ busy' = "writing"
    /\ UNCHANGED <<up, mem, history, counters>>

WriteRecord ==
    /\ up /\ busy = "writing"
    /\ disk' = "held"
    /\ loadFailed' = FALSE
    /\ Return(TRUE, FALSE)
    /\ UNCHANGED <<up, halted, haltLoaded, unseen, counters>>

\* Mutant: a resume that only sets the memory.
UnlinkForgotten ==
    /\ up /\ busy = "resume"
    /\ loadFailed' = FALSE
    /\ Return(FALSE, FALSE)
    /\ UNCHANGED <<up, disk, halted, haltLoaded, unseen, counters>>

Unlink ==
    /\ up /\ busy = "resume"
    /\ disk' = "absent"
    /\ loadFailed' = FALSE
    /\ Return(FALSE, FALSE)
    /\ UNCHANGED <<up, halted, haltLoaded, unseen, counters>>

\* mkdir, open, write or unlink raised OSError; it is swallowed and the
\* command returns with the memory it set.
PersistFails ==
    /\ up /\ busy # "none" /\ faults < MaxFaults
    /\ Return(busy # "resume", TRUE)
    /\ faults' = faults + 1
    /\ UNCHANGED <<up, mem, disk, unseen, commands, crashes>>

-----------------------------------------------------------------------------
(* The process *)

SwitchCrash ==
    /\ up /\ crashes < MaxCrashes
    /\ up' = FALSE /\ busy' = "none"
    /\ halted' = FALSE /\ haltLoaded' = FALSE /\ loadFailed' = FALSE
    /\ unseen' = FALSE
    /\ crashes' = crashes + 1
    /\ UNCHANGED <<disk, wantHeld, released, unsaved, commands, faults>>

SwitchRestart ==
    /\ ~up
    /\ up' = TRUE
    /\ UNCHANGED <<mem, disk, busy, history, counters>>

SwitchNext ==
    \/ Read \/ StatFails \/ ReadFails
    \/ Hold \/ Resume \/ Truncate \/ WriteRecord \/ Unlink \/ PersistFails
    \/ SwitchCrash \/ SwitchRestart

SwitchSpec == SwitchInit /\ [][SwitchNext]_switchVars

-----------------------------------------------------------------------------
(* What the callers see *)

JobsHalted == halted              \* scheduler.jobs_halted, the agents' gate
EdgeHeld == halted \/ loadFailed   \* host_edge_routes._hold_view
Settled == up /\ haltLoaded /\ busy = "none"

-----------------------------------------------------------------------------
(* Properties *)

\* The comment above the flag: a hold stays until an explicit resume, across
\* crashes and restarts. The code does not keep it (see the README).
HoldSurvivesRestart == Settled /\ wantHeld => JobsHalted

\* What does hold: as long as the last command reached the disk, the Buddy
\* edge keeps refusing while a hold stands, through any crash, a torn
\* halt.json and a failing read included, because it asks halt_load_failed().
\* The one exception is a process whose first stat of the file failed: until
\* its next command it takes the missed hold for none, at the edge too.
EdgeKeepsTheHold == Settled /\ wantHeld /\ ~unsaved /\ ~unseen => EdgeHeld

\* A resume that reached the disk is final: no later process, whatever
\* crashed, comes up held or refusing at the edge because of an older record.
ResumeIsFinal == Settled /\ released /\ ~unsaved => ~EdgeHeld

\* A process that thinks its file is good while the file is torn has just
\* swallowed a write error, or could not stat the file when it came up:
\* halt_load_failed() clears only with a good file.
TornFileIsKnown == Settled /\ disk = "damaged" => loadFailed \/ unsaved \/ unseen

\* In a living process only a resume turns the hold off.
OnlyResumeReleases ==
    [][halted /\ ~halted' /\ up' => busy' = "resume"]_switchVars
=============================================================================
