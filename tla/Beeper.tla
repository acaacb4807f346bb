------------------------------- MODULE Beeper -------------------------------
(***************************************************************************)
(* The beeper and the three kinds of threads that drive it: buzzer         *)
(* (pthread_buzzer.c) starts and cancels songs, a song (pthread_music.c)   *)
(* is a thread of its own that closes buzzer's file when it is over, and   *)
(* dh_mon (pthread_dh_mon.c) cancels a song and sounds the alarm through   *)
(* its own file.  They share id_music, music_flag and the one bit of the   *)
(* timer that makes the beeper sound (drivers/fsbeeper/fspwmbeeper.c), and *)
(* no mutex protects any of them: buzzer and dh_mon hold different ones.   *)
(*                                                                         *)
(* Cancelling or joining a thread that was joined before, or never         *)
(* created, is undefined; with the C library of the board it returns an    *)
(* error or ends the process.                                              *)
(***************************************************************************)
EXTENDS Naturals, FiniteSets

CONSTANT Songs      \* the thread descriptors music threads can have

ASSUME SongsAssumption == 0 \notin Songs /\ IsFiniteSet(Songs)

Caller == {"buzzer", "dh_mon"}

VARIABLES
  song,         \* [Songs -> where that music thread is]
  cancelled,    \* music threads with a cancellation pending
  id_music,     \* the music thread created last, 0 before the first
  music_flag,
  beep_fd,      \* is buzzer's file open?
  sounding,     \* bit 0 of the timer's control register
  pc,           \* [Caller -> the step it is at]
  joining,      \* [Caller -> the music thread it waits for, or 0]
  alive,        \* the process runs
  late          \* it sounds since a song started that was being cancelled

vars == <<song, cancelled, id_music, music_flag, beep_fd, sounding, pc, joining,
          alive, late>>

(* "free": never created or joined; "done": terminated, waiting to be joined *)
SongSteps == {"free", "on", "flag", "play", "over", "close", "done"}
CallerSteps == {"wait", "off", "cancel", "join", "joining", "clear", "on", "sleep"}

Init ==
  /\ song = [i \in Songs |-> "free"]
  /\ cancelled = {}
  /\ id_music = 0
  /\ music_flag = 0
  /\ beep_fd = TRUE
  /\ sounding = FALSE
  /\ pc = [c \in Caller |-> "wait"]
  /\ joining = [c \in Caller |-> 0]
  /\ alive = TRUE
  /\ late = FALSE

(* The driver's beeper_off. *)
Silence == sounding' = FALSE /\ late' = FALSE

Goto(c, step) == pc' = [pc EXCEPT ![c] = step]

-----------------------------------------------------------------------------
(* A music thread.                                                         *)

SongGoes(i, from, to) == alive /\ song[i] = from /\ song' = [song EXCEPT ![i] = to]

(* Its cancellation is pending, or comes without a BEEP_OFF in between. *)
Doomed(i) == i \in cancelled \/ (id_music = i /\ pc["buzzer"] = "cancel")

(* On a closed file the ioctl fails. *)
BeepOn(i) ==
  /\ SongGoes(i, "on", "flag")
  /\ sounding' = (sounding \/ beep_fd)
  /\ late' = (late \/ (beep_fd /\ Doomed(i)))
  /\ UNCHANGED <<cancelled, id_music, music_flag, beep_fd, pc, joining, alive>>

Flag(i) ==
  /\ SongGoes(i, "flag", "play")
  /\ music_flag' = 1
  /\ UNCHANGED <<cancelled, id_music, beep_fd, sounding, pc, joining, alive, late>>

(* Mutant: the loop starts again. *)
SongOver_Loops(i) ==
  /\ SongGoes(i, "play", "flag")
  /\ UNCHANGED <<cancelled, id_music, music_flag, beep_fd, sounding, pc, joining,
                 alive, late>>

(* The last note: 250 notes of up to five seconds. *)
SongOver(i) ==
  /\ SongGoes(i, "play", "over")
  /\ UNCHANGED <<cancelled, id_music, music_flag, beep_fd, sounding, pc, joining,
                 alive, late>>

Over(i) ==
  /\ SongGoes(i, "over", "close")
  /\ music_flag' = 0
  /\ UNCHANGED <<cancelled, id_music, beep_fd, sounding, pc, joining, alive, late>>

(* close(buzzer_fd); the driver switches the beeper off on release. *)
Close(i) ==
  /\ SongGoes(i, "close", "done")
  /\ beep_fd' = FALSE
  /\ IF beep_fd THEN Silence ELSE UNCHANGED <<sounding, late>>
  /\ UNCHANGED <<cancelled, id_music, music_flag, pc, joining, alive>>

(* A pending cancellation takes effect in usleep and close, and may in printf. *)
CancelAt(i) ==
  /\ i \in cancelled
  /\ \E from \in {"on", "play", "over", "close"} : SongGoes(i, from, "done")
  /\ UNCHANGED <<cancelled, id_music, music_flag, beep_fd, sounding, pc, joining,
                 alive, late>>

-----------------------------------------------------------------------------
(* pthread_cancel and pthread_join of id_music, by either caller.          *)

(* The process ends and its files are released, which silences the beeper. *)
Crash ==
  /\ alive' = FALSE
  /\ beep_fd' = FALSE
  /\ Silence
  /\ UNCHANGED <<song, cancelled, id_music, music_flag, pc, joining>>

(* Music threads that were created and not joined yet. *)
Joinable == {i \in Songs : song[i] # "free"}

(* Mutant: does nothing. *)
Cancel_Dropped(c) ==
  /\ alive /\ pc[c] = "cancel"
  /\ Goto(c, "join")
  /\ UNCHANGED <<song, cancelled, id_music, music_flag, beep_fd, sounding,
                 joining, alive, late>>

Cancel(c) ==
  /\ alive /\ pc[c] = "cancel"
  /\ \/ /\ id_music # 0
        /\ Goto(c, "join")
        /\ cancelled' = cancelled \cup ({id_music} \cap Joinable)
        /\ UNCHANGED <<song, id_music, music_flag, beep_fd, sounding, joining,
                       alive, late>>
     \/ /\ id_music \notin Joinable
        /\ Crash

(* Mutant: the wrong way round. *)
AfterJoin_Swapped(c) == IF c = "buzzer" THEN "on" ELSE "clear"

AfterJoin(c) == IF c = "buzzer" THEN "clear" ELSE "on"
Joined == {joining[c] : c \in Caller}

(* The argument is read; a thread somebody joins already is an error. *)
JoinStart(c) ==
  /\ alive /\ pc[c] = "join"
  /\ \/ /\ id_music \in Joinable \ Joined
        /\ Goto(c, "joining")
        /\ joining' = [joining EXCEPT ![c] = id_music]
        /\ UNCHANGED <<song, cancelled, id_music, music_flag, beep_fd, sounding,
                       alive, late>>
     \/ /\ id_music \notin Joinable \ Joined
        /\ Goto(c, AfterJoin(c))
        /\ UNCHANGED <<song, cancelled, id_music, music_flag, beep_fd, sounding,
                       joining, alive, late>>
     \/ /\ id_music \notin Joinable
        /\ Crash

JoinEnd(c) ==
  /\ alive /\ pc[c] = "joining"
  /\ song[joining[c]] = "done"
  /\ song' = [song EXCEPT ![joining[c]] = "free"]
  /\ cancelled' = cancelled \ {joining[c]}
  /\ joining' = [joining EXCEPT ![c] = 0]
  /\ Goto(c, AfterJoin(c))
  /\ UNCHANGED <<id_music, music_flag, beep_fd, sounding, alive, late>>

-----------------------------------------------------------------------------
(* buzzer.                                                                 *)

(* buzzer_cmd is 0x51: a music thread is created, unless the system has no *)
(* room for one (the result is not looked at).                             *)
StartSong ==
  /\ alive /\ pc["buzzer"] = "wait"
  /\ \E i \in Songs : /\ song[i] = "free"
                      /\ song' = [song EXCEPT ![i] = "on"]
                      /\ id_music' = i
  /\ UNCHANGED <<cancelled, music_flag, beep_fd, sounding, pc, joining, alive, late>>

(* buzzer_cmd is 0x50. *)
StopSong ==
  /\ alive /\ pc["buzzer"] = "wait"
  /\ Goto("buzzer", "off")
  /\ UNCHANGED <<song, cancelled, id_music, music_flag, beep_fd, sounding,
                 joining, alive, late>>

BeepOff ==
  /\ alive /\ pc["buzzer"] = "off"
  /\ Goto("buzzer", "cancel")
  /\ IF beep_fd THEN Silence ELSE UNCHANGED <<sounding, late>>
  /\ UNCHANGED <<song, cancelled, id_music, music_flag, beep_fd, joining, alive>>

ClearFlag ==
  /\ alive /\ pc["buzzer"] = "clear"
  /\ Goto("buzzer", "wait")
  /\ music_flag' = 0
  /\ UNCHANGED <<song, cancelled, id_music, beep_fd, sounding, joining, alive, late>>

-----------------------------------------------------------------------------
(* dh_mon.                                                                 *)

(* It wakes and finds a reading out of range. *)
OutOfRange ==
  /\ alive /\ pc["dh_mon"] = "wait"
  /\ Goto("dh_mon", IF music_flag = 1 THEN "cancel" ELSE "on")
  /\ UNCHANGED <<song, cancelled, id_music, music_flag, beep_fd, sounding,
                 joining, alive, late>>

AlarmOn ==
  /\ alive /\ pc["dh_mon"] = "on"
  /\ Goto("dh_mon", "sleep")
  /\ sounding' = TRUE
  /\ UNCHANGED <<song, cancelled, id_music, music_flag, beep_fd, joining, alive, late>>

(* Mutant: the alarm is never switched off. *)
AlarmOff_Missing ==
  /\ alive /\ pc["dh_mon"] = "sleep"
  /\ Goto("dh_mon", "wait")
  /\ UNCHANGED <<song, cancelled, id_music, music_flag, beep_fd, sounding,
                 joining, alive, late>>

(* After sleep(3). *)
AlarmOff ==
  /\ alive /\ pc["dh_mon"] = "sleep"
  /\ Goto("dh_mon", "wait")
  /\ Silence
  /\ UNCHANGED <<song, cancelled, id_music, music_flag, beep_fd, joining, alive>>

-----------------------------------------------------------------------------
Music(i) == BeepOn(i) \/ Flag(i) \/ Over(i) \/ Close(i)

Buzzer == \/ Cancel("buzzer") \/ JoinStart("buzzer") \/ JoinEnd("buzzer")
          \/ BeepOff \/ ClearFlag

Monitor == \/ Cancel("dh_mon") \/ JoinStart("dh_mon") \/ JoinEnd("dh_mon")
           \/ AlarmOn \/ AlarmOff

Next ==
  \/ \E i \in Songs : Music(i) \/ SongOver(i) \/ CancelAt(i)
  \/ StartSong \/ StopSong \/ OutOfRange
  \/ Buzzer \/ Monitor

Spec == Init /\ [][Next]_vars

(* Threads run; how long a song lasts is left open.                        *)
FairSpec ==
  /\ Spec
  /\ \A i \in Songs : WF_vars(Music(i)) /\ WF_vars(CancelAt(i))
  /\ WF_vars(Buzzer) /\ WF_vars(Monitor)

-----------------------------------------------------------------------------
(* Every variable stays in its range, and a caller waits for one thread     *)
(* exactly while it is in pthread_join.                                     *)
TypeOK ==
  /\ song \in [Songs -> SongSteps]
  /\ cancelled \subseteq Songs
  /\ id_music \in Songs \cup {0}
  /\ music_flag \in {0, 1}
  /\ beep_fd \in BOOLEAN /\ sounding \in BOOLEAN
  /\ alive \in BOOLEAN /\ late \in BOOLEAN
  /\ pc \in [Caller -> CallerSteps]
  /\ pc["buzzer"] \notin {"on", "sleep"} /\ pc["dh_mon"] \notin {"off", "clear"}
  /\ joining \in [Caller -> Songs \cup {0}]
  /\ \A c \in Caller : pc[c] = "joining" <=> joining[c] # 0

(* However songs, cancellations and alarms interleave, when no song is left *)
(* and both threads are idle the beeper is silent: it is never forgotten,   *)
(* except by a song that starts while it is being cancelled.                *)
AtRest == /\ \A i \in Songs : song[i] \in {"free", "done"}
          /\ \A c \in Caller : pc[c] = "wait"
SilentAtRest == AtRest /\ sounding => late

(* Stopping a song does not depend on the song's length: buzzer gets back   *)
(* to its condition variable (so that its mutex, for which client_request   *)
(* waits, is released) although songs may go on for ever.                   *)
StopReturns == pc["buzzer"] = "off" ~> pc["buzzer"] = "wait" \/ ~alive

(* An alarm that has to cancel a song first is sounded in the end, even if  *)
(* a new song takes id_music between the cancellation and the join: then it *)
(* waits for that whole song, hence the premise that songs are finite.      *)
AlarmSounds ==
  (\A i \in Songs : WF_vars(SongOver(i)))
    => (pc["dh_mon"] = "cancel" ~> pc["dh_mon"] = "sleep" \/ ~alive)
=============================================================================
