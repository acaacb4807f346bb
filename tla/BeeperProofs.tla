----------------------------- MODULE BeeperProofs -----------------------------
(***************************************************************************)
(* Proofs about Beeper for any set of thread descriptors, so for any       *)
(* number of songs at a time.  Who is responsible for a sound is the       *)
(* invariant: either dh_mon has yet to switch its alarm off, or some song  *)
(* that nobody is cancelling will close buzzer's file, which is still open.*)
(***************************************************************************)
EXTENDS Beeper, TLAPS

(* The song has sounded, it will reach its close(buzzer_fd), and nothing is *)
(* on its way to end it before (pthread_music.c:53-70).                     *)
WillClose(i) == song[i] \in {"flag", "play", "over", "close"} /\ ~Doomed(i)

(* A sound has somebody who will end it, unless a song started while it was *)
(* being cancelled.                                                         *)
SilenceInv ==
  sounding /\ ~late => \/ pc["dh_mon"] # "wait"
                       \/ beep_fd /\ \E i \in Songs : WillClose(i)

IInv == TypeOK /\ SilenceInv

-----------------------------------------------------------------------------
(* The threads start idle and the beeper silent.                            *)
LEMMA InitIInv == Init => IInv
BY SongsAssumption DEF Init, IInv, TypeOK, SilenceInv, SongSteps, CallerSteps, Caller, SongsAssumption

(* Every step of a song, of buzzer and of dh_mon, undefined ones included,  *)
(* keeps the state well typed.                                              *)
LEMMA TypeStep == TypeOK /\ [Next]_vars => TypeOK'
<1> SUFFICES ASSUME TypeOK, [Next]_vars PROVE TypeOK'
  OBVIOUS
<1> USE DEF Caller
<1>1. ASSUME NEW i \in Songs, Music(i) \/ SongOver(i) PROVE TypeOK'
  <2>1. \E to \in SongSteps : song' = [song EXCEPT ![i] = to]
    BY <1>1 DEF Music, BeepOn, Flag, Over, Close, SongOver, SongGoes, SongSteps
  <2>2. sounding' \in BOOLEAN /\ late' \in BOOLEAN /\ beep_fd' \in BOOLEAN
    BY <1>1 DEF Music, BeepOn, Flag, Over, Close, SongOver, SongGoes, Silence, TypeOK
  <2>3. music_flag' \in {0, 1} /\ UNCHANGED <<cancelled, id_music, pc, joining, alive>>
    BY <1>1 DEF Music, BeepOn, Flag, Over, Close, SongOver, SongGoes, TypeOK
  <2> QED
    BY <2>1, <2>2, <2>3 DEF TypeOK
<1>2. ASSUME NEW i \in Songs, CancelAt(i) PROVE TypeOK'
  BY <1>2 DEF CancelAt, SongGoes, TypeOK, SongSteps
<1>3. CASE StartSong \/ StopSong \/ OutOfRange \/ BeepOff \/ ClearFlag \/ AlarmOn \/ AlarmOff
  <2>1. CASE StartSong
    BY <2>1 DEF StartSong, TypeOK, SongSteps
  <2>2. CASE StopSong \/ OutOfRange \/ ClearFlag
    <3>1. CASE StopSong
      BY <3>1 DEF StopSong, Goto, TypeOK, CallerSteps
    <3>2. CASE OutOfRange
      BY <3>2 DEF OutOfRange, Goto, TypeOK, CallerSteps
    <3>3. CASE ClearFlag
      BY <3>3 DEF ClearFlag, Goto, TypeOK, CallerSteps
    <3> QED
      BY <2>2, <3>1, <3>2, <3>3
  <2>3. CASE BeepOff \/ AlarmOn \/ AlarmOff
    BY <2>3, ZenonT(30) DEF BeepOff, AlarmOn, AlarmOff, Goto, Silence, TypeOK, CallerSteps
  <2> QED
    BY <1>3, <2>1, <2>2, <2>3
<1>4. ASSUME NEW c \in Caller, Cancel(c) PROVE TypeOK'
  <2>1. CASE Crash
    BY <2>1 DEF Crash, Silence, TypeOK
  <2>2. CASE ~Crash
    BY <1>4, <2>2, ZenonT(30) DEF Cancel, Goto, Joinable, TypeOK, CallerSteps
  <2> QED
    BY <2>1, <2>2
<1>5. ASSUME NEW c \in Caller, JoinStart(c) PROVE TypeOK'
  <2>1. CASE Crash
    BY <2>1 DEF Crash, Silence, TypeOK
  <2>2. CASE pc[c] = "join" /\ Goto(c, AfterJoin(c)) /\ UNCHANGED joining
    BY <1>5, <2>2 DEF JoinStart, AfterJoin, Goto, Crash, Silence, TypeOK, CallerSteps
  <2>3. CASE Goto(c, "joining") /\ id_music \in Joinable /\ joining' = [joining EXCEPT ![c] = id_music]
    BY <1>5, <2>3, SongsAssumption DEF JoinStart, Goto, Crash, Silence, Joinable, TypeOK, CallerSteps, SongsAssumption
  <2> QED
    BY <1>5, <2>1, <2>2, <2>3 DEF JoinStart
<1>6. ASSUME NEW c \in Caller, JoinEnd(c) PROVE TypeOK'
  BY <1>6 DEF JoinEnd, AfterJoin, Goto, TypeOK, CallerSteps, SongSteps
<1>7. CASE UNCHANGED vars
  BY <1>7 DEF vars, TypeOK
<1> QED
  BY <1>1, <1>2, <1>3, <1>4, <1>5, <1>6, <1>7 DEF Next, Buzzer, Monitor

(* A song that will close buzzer's file goes on to do so, unless the step   *)
(* is its cancellation.                                                     *)
LEMMA StillCloses ==
  ASSUME TypeOK, SilenceInv, sounding' => sounding, late => late',
         pc["dh_mon"] # "wait" => pc'["dh_mon"] # "wait", beep_fd' = beep_fd,
         \A i \in Songs : WillClose(i) => WillClose(i)'
  PROVE  SilenceInv'
BY DEF SilenceInv

(* No step leaves a sound that nobody will end: the closing song silences   *)
(* it, a cancelled one was not counted on, and a cancellation that buzzer   *)
(* has decided on came with a BEEP_OFF.                                     *)
LEMMA SilenceStep ==
  ASSUME TypeOK, SilenceInv, [Next]_vars
  PROVE  SilenceInv'
<1> USE DEF Caller
<1>1. ASSUME NEW i \in Songs, BeepOn(i) PROVE SilenceInv'
  <2>1. \A j \in Songs : WillClose(j) => WillClose(j)'
    BY <1>1 DEF BeepOn, SongGoes, WillClose, Doomed, TypeOK
  <2>2. beep_fd /\ ~Doomed(i) => WillClose(i)'
    BY <1>1 DEF BeepOn, SongGoes, WillClose, Doomed, TypeOK
  <2> QED
    BY <1>1, <2>1, <2>2 DEF BeepOn, SilenceInv, TypeOK
<1>2. ASSUME NEW i \in Songs, Flag(i) \/ Over(i) \/ SongOver(i) \/ CancelAt(i) PROVE SilenceInv'
  <2>1. \A j \in Songs : WillClose(j) => WillClose(j)'
    BY <1>2 DEF Flag, Over, SongOver, CancelAt, SongGoes, WillClose, Doomed, TypeOK
  <2> QED
    BY <1>2, <2>1, StillCloses DEF Flag, Over, SongOver, CancelAt
<1>3. ASSUME NEW i \in Songs, Close(i) PROVE SilenceInv'
  BY <1>3 DEF Close, Silence, SilenceInv
<1>4. CASE StartSong
  <2>1. \A j \in Songs : WillClose(j) => WillClose(j)'
    BY <1>4 DEF StartSong, WillClose, Doomed, TypeOK
  <2> QED
    BY <1>4, <2>1, StillCloses DEF StartSong
<1>5. CASE StopSong \/ ClearFlag
  <2>1. /\ \A j \in Songs : WillClose(j) => WillClose(j)'
        /\ pc'["dh_mon"] = pc["dh_mon"]
    BY <1>5 DEF StopSong, ClearFlag, Goto, WillClose, Doomed, TypeOK
  <2> QED
    BY <1>5, <2>1, StillCloses DEF StopSong, ClearFlag
<1>6. CASE BeepOff
  BY <1>6 DEF BeepOff, Goto, Silence, SilenceInv, TypeOK
<1>7. CASE OutOfRange \/ AlarmOn \/ AlarmOff
  BY <1>7 DEF OutOfRange, AlarmOn, AlarmOff, Goto, Silence, SilenceInv, TypeOK
<1>8. CASE Cancel("dh_mon") \/ JoinStart("dh_mon") \/ JoinEnd("dh_mon")
  BY <1>8 DEF Cancel, JoinStart, JoinEnd, AfterJoin, Goto, Crash, Silence, SilenceInv, TypeOK
<1>9. CASE Cancel("buzzer")
  <2>1. CASE Crash
    BY <2>1 DEF Crash, Silence, SilenceInv
  <2>2. CASE ~Crash
    <3>1. \A j \in Songs : WillClose(j) => WillClose(j)'
      <4>1. /\ pc["buzzer"] = "cancel" /\ song' = song /\ id_music' = id_music
            /\ cancelled' \subseteq cancelled \cup {id_music}
        BY <1>9, <2>2 DEF Cancel
      <4> QED
        BY <4>1 DEF WillClose, Doomed
    <3>2. pc'["dh_mon"] = pc["dh_mon"] /\ UNCHANGED <<beep_fd, sounding, late>>
      BY <1>9, <2>2 DEF Cancel, Goto, TypeOK
    <3> QED
      BY <3>1, <3>2, StillCloses
  <2> QED
    BY <2>1, <2>2
<1>10. CASE JoinStart("buzzer") \/ JoinEnd("buzzer")
  <2>1. CASE Crash
    BY <2>1 DEF Crash, Silence, SilenceInv
  <2>2. CASE ~Crash
    <3>1. \A j \in Songs : WillClose(j) => WillClose(j)'
      BY <1>10, <2>2 DEF JoinStart, JoinEnd, AfterJoin, Goto, WillClose, Doomed, TypeOK
    <3> QED
      BY <1>10, <2>2, <3>1, StillCloses DEF JoinStart, JoinEnd, Goto, TypeOK
  <2> QED
    BY <2>1, <2>2
<1>11. CASE UNCHANGED vars
  BY <1>11, StillCloses DEF vars, WillClose, Doomed
<1> QED
  BY <1>1, <1>2, <1>3, <1>4, <1>5, <1>6, <1>7, <1>8, <1>9, <1>10, <1>11
     DEF Next, Music, Buzzer, Monitor

(* Both invariants hold in every state of the program.                      *)
LEMMA Invariants == Spec => []IInv
<1>1. IInv /\ [Next]_vars => IInv'
  BY TypeStep, SilenceStep DEF IInv
<1> QED
  BY InitIInv, <1>1, PTL DEF Spec

(* The types of the threads' states; a caller waits for a music thread just *)
(* while it is in pthread_join (pthread_buzzer.c, pthread_dh_mon.c).        *)
THEOREM TypeCorrect == Spec => []TypeOK
<1>1. IInv => TypeOK
  BY DEF IInv
<1> QED
  BY Invariants, <1>1, PTL

(* When no song is left and buzzer and dh_mon wait, the beeper is silent    *)
(* unless a song started while it was being cancelled (pthread_music.c,     *)
(* pthread_buzzer.c:45-57, pthread_dh_mon.c:39-57).                         *)
THEOREM SilenceCorrect == Spec => []SilentAtRest
<1>1. IInv => SilentAtRest
  BY DEF IInv, TypeOK, SilenceInv, WillClose, SilentAtRest, AtRest, Caller
<1> QED
  BY Invariants, <1>1, PTL

=============================================================================
