------------------------- MODULE HostSessionProofs -------------------------
(***************************************************************************)
(* Proofs about HostSession, for any players, bounds and faults: the type  *)
(* of the session, what the host owes to every player of its roster, and   *)
(* that it evicts none that sends input.                                   *)
(* The argument follows a frame through its stages: each stage, as an      *)
(* operator on the state of the host, keeps that state sound.              *)
(***************************************************************************)
EXTENDS HostSession, TLAPS

(* The state of the host is sound: typed, every player of the roster can   *)
(* be found silent, and has a character or waits for one.                  *)
Sound(h) ==
    /\ h \in HostState
    /\ \A p \in Members(h.roster) : h.age[p] # Never
    /\ Members(h.roster) \subseteq Alive(h) \cup h.timers

(* Characters have, and will be given back, the index of their player.     *)
SlotsSound(h) ==
    /\ \A p \in Alive(h) : h.chars[p] = p
    /\ \A p \in h.timers : h.slots[p] = p

-----------------------------------------------------------------------------
(* A player is not taken for nobody, an address not for the lack of one.   *)
LEMMA Ranges ==
    /\ Player \subseteq Seat /\ Seat \subseteq Index /\ Index \subseteq Nat
    /\ \A x \in Index : x # Nobody
    /\ \A x \in Never..Timeout + 1 : x \in Int
  BY PlayerAssumption DEF Seat, Index, Nobody, Never, Timeout

(* _check_for_rejoining_players keeps the state of the host sound: whoever *)
(* it puts in the roster gets a character and a clock.                     *)
LEMMA ReadmitSound ==
    ASSUME NEW h, Sound(h), NEW entries \in Roster
    PROVE  Sound(Readmit(h, entries)) /\ (SlotsSound(h) => SlotsSound(Readmit(h, entries)))
  <1> DEFINE k == Readmit(h, entries)
             B == Back(h, entries)
             C == Bodies(h, entries)
  <1>1. /\ h \in HostState /\ B \subseteq Player /\ C \subseteq B /\ C \subseteq Seat
    BY Ranges DEF Sound, Back, Bodies, Members
  <1>2. /\ k.roster = Change(h.roster, [p \in B |-> entries[p]])
        /\ k.chars = Change(h.chars, [p \in C |-> p])
        /\ k.saved = h.saved \ B
        /\ k.age = Change(h.age, [p \in B |-> 0])
        /\ k.timers = h.timers /\ k.slots = h.slots /\ k.heard = h.heard
    BY <1>1 DEF Readmit, HostState
  <1>3. /\ k.roster \in Roster
        /\ \A p \in Player : k.roster[p] = IF p \in B THEN entries[p] ELSE h.roster[p]
    <2>1. h.roster \in [Player -> Address \cup {Absent}]
          /\ [p \in B |-> entries[p]] \in [B -> Address \cup {Absent}]
      BY <1>1 DEF HostState, Roster
    <2> QED  BY <2>1, <1>1, <1>2 DEF Change, Roster
  <1>4. /\ k.chars \in [Seat -> Index \cup {Nobody}]
        /\ \A p \in Seat : k.chars[p] = IF p \in C THEN p ELSE h.chars[p]
    <2>1. h.chars \in [Seat -> Index \cup {Nobody}]
          /\ [p \in C |-> p] \in [C -> Index \cup {Nobody}]
      BY <1>1, Ranges DEF HostState
    <2> QED  BY <2>1, <1>1, <1>2 DEF Change
  <1>5. /\ k.age \in [Player -> Never..Timeout + 1]
        /\ \A p \in Player : k.age[p] = IF p \in B THEN 0 ELSE h.age[p]
    <2>1. h.age \in [Player -> Never..Timeout + 1]
          /\ [p \in B |-> 0] \in [B -> Never..Timeout + 1]
      BY <1>1 DEF HostState, Never, Timeout
    <2> QED  BY <2>1, <1>1, <1>2 DEF Change
  <1>6. k \in HostState
    BY <1>1, <1>2, <1>3, <1>4, <1>5 DEF HostState, Readmit
  <1>7. \A p \in Members(k.roster) : k.age[p] # Never
    BY <1>3, <1>5 DEF Sound, Members, Never
  <1>8. Members(k.roster) \subseteq Alive(k) \cup k.timers
    BY <1>1, <1>2, <1>3, <1>4, Ranges DEF Sound, Members, Alive, Bodies
  <1>9. SlotsSound(h) => SlotsSound(k)
    BY <1>2, <1>4, Ranges DEF SlotsSound, Alive
  <1> QED  BY <1>6, <1>7, <1>8, <1>9 DEF Sound

(* _evict_player, of any set of players, keeps it sound.                   *)
LEMMA EvictSound ==
    ASSUME NEW h, Sound(h), NEW S \in SUBSET Player
    PROVE  /\ Sound(Evict(h, S))
           /\ \A p \in Player : Evict(h, S).age[p] = IF p \in S THEN Never ELSE h.age[p]
           /\ SlotsSound(h) => SlotsSound(Evict(h, S))
  <1> DEFINE k == Evict(h, S)
  <1>1. h \in HostState /\ S \subseteq Seat
    BY Ranges DEF Sound
  <1>2. /\ k.roster = Change(h.roster, [p \in S |-> Absent])
        /\ k.chars = Change(h.chars, [p \in S |-> Nobody])
        /\ k.saved = h.saved \cup (S \cap Members(h.roster) \cap Alive(h))
        /\ k.heard = Change(h.heard, [p \in S |-> Never])
        /\ k.age = Change(h.age, [p \in S |-> Never])
        /\ k.timers = h.timers /\ k.slots = h.slots
    BY <1>1 DEF Evict, HostState
  <1>3. /\ k.roster \in Roster
        /\ \A p \in Player : k.roster[p] = IF p \in S THEN Absent ELSE h.roster[p]
    <2>1. h.roster \in [Player -> Address \cup {Absent}]
          /\ [p \in S |-> Absent] \in [S -> Address \cup {Absent}]
      BY <1>1 DEF HostState, Roster
    <2> QED  BY <2>1, <1>2 DEF Change, Roster
  <1>4. /\ k.chars \in [Seat -> Index \cup {Nobody}]
        /\ \A p \in Seat : k.chars[p] = IF p \in S THEN Nobody ELSE h.chars[p]
    <2>1. h.chars \in [Seat -> Index \cup {Nobody}]
          /\ [p \in S |-> Nobody] \in [S -> Index \cup {Nobody}]
      BY <1>1 DEF HostState
    <2> QED  BY <2>1, <1>1, <1>2 DEF Change
  <1>5. /\ k.age \in [Player -> Never..Timeout + 1]
        /\ \A p \in Player : k.age[p] = IF p \in S THEN Never ELSE h.age[p]
    <2>1. h.age \in [Player -> Never..Timeout + 1]
          /\ [p \in S |-> Never] \in [S -> Never..Timeout + 1]
      BY <1>1 DEF HostState, Never, Timeout
    <2> QED  BY <2>1, <1>2 DEF Change
  <1>6. k.heard \in [Player -> Never..MaxSeq]
    <2>1. h.heard \in [Player -> Never..MaxSeq]
          /\ [p \in S |-> Never] \in [S -> Never..MaxSeq]
      BY <1>1, BoundAssumption DEF HostState, Never
    <2> QED  BY <2>1, <1>2 DEF Change
  <1>7. k \in HostState
    BY <1>1, <1>2, <1>3, <1>4, <1>5, <1>6 DEF HostState, Members, Evict
  <1>8. \A p \in Members(k.roster) : k.age[p] # Never
    BY <1>3, <1>5 DEF Sound, Members
  <1>9. Members(k.roster) \subseteq Alive(k) \cup k.timers
    BY <1>2, <1>3, <1>4, Ranges DEF Sound, Members, Alive
  <1>10. SlotsSound(h) => SlotsSound(k)
    BY <1>2, <1>4, Ranges DEF SlotsSound, Alive
  <1> QED  BY <1>5, <1>7, <1>8, <1>9, <1>10 DEF Sound

(* _drain_remote_input_packets keeps it sound.                             *)
LEMMA HearSound ==
    ASSUME NEW h, Sound(h), packet \in [Player -> 0..MaxSeq]
    PROVE  /\ Sound(Hear(h))
           /\ \A p \in Player : Hear(h).age[p] \in {0, h.age[p]}
           /\ SlotsSound(h) => SlotsSound(Hear(h))
  <1> DEFINE k == Hear(h)
             F == Fresh(h)
  <1>1. h \in HostState /\ F \subseteq Player
    BY DEF Sound, Fresh
  <1>2. /\ k.heard = Change(h.heard, [p \in F |-> packet[p]])
        /\ k.age = Change(h.age, [p \in F |-> 0])
        /\ k.roster = h.roster /\ k.chars = h.chars /\ k.timers = h.timers
        /\ k.slots = h.slots /\ k.saved = h.saved
    BY <1>1 DEF Hear, HostState
  <1>3. k.heard \in [Player -> Never..MaxSeq]
    <2>1. h.heard \in [Player -> Never..MaxSeq]
          /\ [p \in F |-> packet[p]] \in [F -> Never..MaxSeq]
      BY <1>1, BoundAssumption DEF HostState, Never
    <2> QED  BY <2>1, <1>1, <1>2 DEF Change
  <1>4. /\ k.age \in [Player -> Never..Timeout + 1]
        /\ \A p \in Player : k.age[p] = IF p \in F THEN 0 ELSE h.age[p]
    <2>1. h.age \in [Player -> Never..Timeout + 1]
          /\ [p \in F |-> 0] \in [F -> Never..Timeout + 1]
      BY <1>1 DEF HostState, Never, Timeout
    <2> QED  BY <2>1, <1>1, <1>2 DEF Change
  <1>5. k \in HostState
    BY <1>1, <1>2, <1>3, <1>4 DEF HostState, Hear
  <1>6. /\ \A p \in Members(k.roster) : k.age[p] # Never
        /\ Members(k.roster) \subseteq Alive(k) \cup k.timers
        /\ SlotsSound(h) => SlotsSound(k)
    BY <1>2, <1>4 DEF Sound, Members, Never, SlotsSound, Alive
  <1> QED  BY <1>4, <1>5, <1>6 DEF Sound

(* _queue_player_death keeps it sound: the dead wait for a respawn.        *)
LEMMA DieSound ==
    ASSUME NEW h, Sound(h), NEW D \in SUBSET Alive(h)
    PROVE  /\ Sound(Die(h, D)) /\ Die(h, D).age = h.age
           /\ SlotsSound(h) => SlotsSound(Die(h, D))
  <1> DEFINE k == Die(h, D)
  <1>1. h \in HostState /\ D \subseteq Seat
    BY DEF Sound, Alive
  <1>2. /\ k.slots = Change(h.slots, [p \in D |-> h.chars[p]])
        /\ k.chars = Change(h.chars, [p \in D |-> Nobody])
        /\ k.timers = h.timers \cup D
        /\ k.roster = h.roster /\ k.saved = h.saved
        /\ k.heard = h.heard /\ k.age = h.age
    BY <1>1 DEF Die, HostState
  <1>3. /\ k.slots \in [Seat -> Index \cup {Nobody}]
        /\ \A p \in Seat : k.slots[p] = IF p \in D THEN h.chars[p] ELSE h.slots[p]
    <2>1. h.slots \in [Seat -> Index \cup {Nobody}]
          /\ [p \in D |-> h.chars[p]] \in [D -> Index \cup {Nobody}]
      BY <1>1 DEF HostState
    <2> QED  BY <2>1, <1>1, <1>2 DEF Change
  <1>4. /\ k.chars \in [Seat -> Index \cup {Nobody}]
        /\ \A p \in Seat : k.chars[p] = IF p \in D THEN Nobody ELSE h.chars[p]
    <2>1. h.chars \in [Seat -> Index \cup {Nobody}]
          /\ [p \in D |-> Nobody] \in [D -> Index \cup {Nobody}]
      BY <1>1 DEF HostState
    <2> QED  BY <2>1, <1>1, <1>2 DEF Change
  <1>5. k \in HostState
    BY <1>1, <1>2, <1>3, <1>4 DEF HostState, Die
  <1>6. /\ \A p \in Members(k.roster) : k.age[p] # Never
        /\ Members(k.roster) \subseteq Alive(k) \cup k.timers
    BY <1>2, <1>4, Ranges DEF Sound, Members, Alive
  <1>7. SlotsSound(h) => SlotsSound(k)
    BY <1>1, <1>2, <1>3, <1>4 DEF SlotsSound, Alive, HostState
  <1> QED  BY <1>2, <1>5, <1>6, <1>7 DEF Sound

(* _process_respawns keeps it sound: who is not left waiting has a         *)
(* character.                                                              *)
LEMMA RespawnSound ==
    ASSUME NEW h, Sound(h), NEW R \in SUBSET h.timers
    PROVE  /\ Sound(Respawn(h, R)) /\ Respawn(h, R).age = h.age
           /\ SlotsSound(h) => SlotsSound(Respawn(h, R))
  <1> DEFINE k == Respawn(h, R)
  <1>1. h \in HostState /\ R \subseteq Seat
    BY DEF Sound, HostState
  <1>2. /\ k.chars = Change(h.chars, [p \in R |-> Slot(h, p)])
        /\ k.slots = Change(h.slots, [p \in R |-> Nobody])
        /\ k.timers = h.timers \ R
        /\ k.roster = h.roster /\ k.saved = h.saved
        /\ k.heard = h.heard /\ k.age = h.age
    BY <1>1 DEF Respawn, HostState
  <1>3. \A p \in Seat : Slot(h, p) \in Index
    BY <1>1 DEF Slot, HostState, Index
  <1>4. /\ k.chars \in [Seat -> Index \cup {Nobody}]
        /\ \A p \in Seat : k.chars[p] = IF p \in R THEN Slot(h, p) ELSE h.chars[p]
    <2>1. h.chars \in [Seat -> Index \cup {Nobody}]
          /\ [p \in R |-> Slot(h, p)] \in [R -> Index \cup {Nobody}]
      BY <1>1, <1>3 DEF HostState
    <2> QED  BY <2>1, <1>1, <1>2 DEF Change
  <1>5. /\ k.slots \in [Seat -> Index \cup {Nobody}]
        /\ \A p \in Seat : k.slots[p] = IF p \in R THEN Nobody ELSE h.slots[p]
    <2>1. h.slots \in [Seat -> Index \cup {Nobody}]
          /\ [p \in R |-> Nobody] \in [R -> Index \cup {Nobody}]
      BY <1>1 DEF HostState
    <2> QED  BY <2>1, <1>1, <1>2 DEF Change
  <1>6. k \in HostState
    BY <1>1, <1>2, <1>4, <1>5 DEF HostState, Respawn
  <1>7. /\ \A p \in Members(k.roster) : k.age[p] # Never
        /\ Members(k.roster) \subseteq Alive(k) \cup k.timers
    BY <1>2, <1>3, <1>4, Ranges DEF Sound, Members, Alive
  <1>8. SlotsSound(h) => SlotsSound(k)
    BY <1>1, <1>2, <1>4, <1>5, Ranges DEF SlotsSound, Alive, Slot, HostState
  <1> QED  BY <1>2, <1>6, <1>7, <1>8 DEF Sound

-----------------------------------------------------------------------------
(* The inductive invariant.  Who was silent for the timeout is evicted by  *)
(* the frame that broadcasts, so that no clock runs past it.               *)
SessionInv ==
    /\ SessionTypeOK
    /\ Sound(host)
    /\ published => \A p \in Player : host.age[p] <= Timeout

LEMMA InitSession == Init => SessionInv /\ (Dying = {} => SlotsSound(host))
  <1> SUFFICES ASSUME Init PROVE SessionInv /\ (Dying = {} => SlotsSound(host))
    OBVIOUS
  <1>1. Entered \in Roster /\ Members(Entered) = Present
    <2>1. \A p \in Player : Entered[p] = IF p \in Present THEN 1 ELSE 0
      BY DEF Entered, Absent
    <2>2. Entered \in Roster
      BY DEF Entered, Roster, Address, Absent
    <2>3. \A p \in Player : Entered[p] # Absent <=> p \in Present
      <3> TAKE p \in Player
      <3>1. CASE p \in Present  BY <2>1, <3>1 DEF Absent
      <3>2. CASE p \notin Present  BY <2>1, <3>2 DEF Absent
      <3> QED  BY <3>1, <3>2
    <2>4. Members(Entered) = {p \in Player : p \in Present}
      BY <2>3 DEF Members
    <2> QED  BY <2>2, <2>4, PlayerAssumption
  <1>2. host \in HostState
    BY <1>1, Ranges, PlayerAssumption, DyingAssumption, BoundAssumption
       DEF Init, HostState, Seat, Nobody, Never, Timeout
  <1>3. Sound(host) /\ (Dying = {} => SlotsSound(host))
    <2>1. /\ host.roster = Entered /\ host.timers = Dying
          /\ \A p \in Player : host.age[p] = IF p \in Present THEN 0 ELSE Never
          /\ \A p \in Seat : host.chars[p] = IF p \in (Present \cup {Self}) \ Dying
                                            THEN p ELSE Nobody
      BY DEF Init
    <2>2. Members(host.roster) = Present
      BY <1>1, <2>1
    <2>3. Present \subseteq Alive(host) \cup host.timers
      BY <2>1, Ranges, PlayerAssumption DEF Alive
    <2>4. \A p \in Members(host.roster) : host.age[p] # Never
      <3>1. \A p \in Present : p \in Player /\ host.age[p] = 0
        BY <2>1, PlayerAssumption
      <3> QED  BY <2>2, <3>1 DEF Never
    <2>5. Dying = {} => SlotsSound(host)
      BY <2>1 DEF SlotsSound, Alive
    <2> QED  BY <1>2, <2>2, <2>3, <2>4, <2>5 DEF Sound
  <1>4. SessionTypeOK
    <2>1. sockets \subseteq Player \X Address
      BY PlayerAssumption DEF Init, Address
    <2>2. view \in [Player -> Roster] /\ lobby \in Roster /\ address \in Roster
      BY <1>1 DEF Init, Roster, Absent
    <2>3. seq \in [Player -> 0..MaxSeq] /\ packet \in [Player -> 0..MaxSeq]
      BY BoundAssumption DEF Init
    <2>4. updates \in Seq(Roster) /\ events \in [Player -> Seq(Event)]
      BY DEF Init
    <2>5. stalled \in [Player -> 0..MaxStalls]
      BY BoundAssumption DEF Init
    <2> QED  BY <1>2, <2>1, <2>2, <2>3, <2>4, <2>5, PlayerAssumption DEF Init, SessionTypeOK
  <1> QED  BY <1>3, <1>4 DEF SessionInv, Init

(* The budgets stay counters.                                              *)
Uses == [crashes: Nat, joins: Nat, deaths: Nat]
LEMMA UsesGrow ==
    ASSUME NEW u \in Uses
    PROVE  /\ [u EXCEPT !.crashes = @ + 1] \in Uses
           /\ [u EXCEPT !.joins = @ + 1] \in Uses
           /\ [u EXCEPT !.deaths = @ + 1] \in Uses
  <1>1. \A n \in Nat : n + 1 \in Nat  OBVIOUS
  <1> QED  BY <1>1 DEF Uses

(* What a frame tells is a sequence of events.                             *)
LEMMA ToldType ==
    ASSUME NEW lost \in SUBSET Player, NEW entries \in Roster, NEW broadcast \in BOOLEAN
    PROVE  Told(lost, entries, broadcast) \in Seq(Event)
  <1>1. [type |-> "left", who |-> lost] \in Event
        /\ [type |-> "roster", entries |-> entries] \in Event
    BY DEF Event
  <1> QED  BY <1>1 DEF Told

(* A frame of the host keeps the invariant.                                *)
LEMMA FrameKeeps ==
    ASSUME SessionInv, NEW D \in SUBSET Seat, NEW R \in SUBSET host.timers,
           NEW broadcast \in BOOLEAN, Frame(D, R, broadcast)
    PROVE  SessionInv' /\ (SlotsSound(host) => SlotsSound(host)')
  <1> DEFINE entered == IF updates = <<>> THEN host ELSE Readmit(host, Head(updates))
             lost    == Lost(entered)
             evicted == Evict(entered, lost)
             played  == Hear(evicted)
             died    == Die(played, D)
             ticked  == Respawn(died, R)
  <1>1. Sound(entered) /\ entered.timers = host.timers
        /\ (SlotsSound(host) => SlotsSound(entered))
    <2>1. CASE updates = <<>>  BY <2>1 DEF SessionInv
    <2>2. CASE updates # <<>>
      <3>1. Head(updates) \in Roster  BY <2>2 DEF SessionInv, SessionTypeOK
      <3>2. Readmit(host, Head(updates)).timers = host.timers
        BY DEF Readmit, SessionInv, SessionTypeOK, HostState
      <3> QED  BY <2>2, <3>1, <3>2, ReadmitSound DEF SessionInv
    <2> QED  BY <2>1, <2>2
  <1>2. lost \subseteq Player /\ entered \in HostState
    BY <1>1 DEF Lost, SessionInv, SessionTypeOK, Sound
  <1>3. /\ Sound(evicted) /\ evicted.timers = host.timers
        /\ (SlotsSound(host) => SlotsSound(evicted))
        /\ \A p \in Player : evicted.age[p] <= Timeout
    <2> HIDE DEF entered
    <2>1. evicted.timers = entered.timers
      BY <1>2 DEF Evict, HostState
    <2>2. \A p \in Player : entered.age[p] \in Int
      BY <1>2, Ranges DEF HostState
    <2>3. \A p \in Player : evicted.age[p] <= Timeout
      BY <1>1, <1>2, <2>2, EvictSound DEF Lost, Never, Timeout
    <2> QED  BY <1>1, <1>2, <2>1, <2>3, EvictSound
  <1>4. /\ Sound(played) /\ played.timers = host.timers
        /\ (SlotsSound(host) => SlotsSound(played))
        /\ \A p \in Player : played.age[p] <= Timeout
    <2> HIDE DEF evicted
    <2>1. played.timers = evicted.timers
      BY <1>3 DEF Hear, Sound, HostState
    <2>2. packet \in [Player -> 0..MaxSeq]
      BY DEF SessionInv, SessionTypeOK
    <2>3. \A p \in Player : played.age[p] \in {0, evicted.age[p]}
      BY <1>3, <2>2, HearSound
    <2> QED  BY <1>3, <2>1, <2>2, <2>3, HearSound DEF Timeout
  <1>5. /\ D \subseteq Alive(played) /\ host' = ticked
        /\ packet' = [p \in Player |-> 0] /\ gone' = {}
    BY DEF Frame
  <1>6. /\ Sound(died) /\ R \subseteq died.timers /\ died.age = played.age
        /\ (SlotsSound(host) => SlotsSound(died))
    <2> HIDE DEF played
    <2>1. died.timers = played.timers \cup D
      BY <1>4 DEF Die, Sound, HostState
    <2> QED  BY <1>4, <1>5, <2>1, DieSound
  <1>7. /\ Sound(ticked) /\ ticked.age = played.age
        /\ (SlotsSound(host) => SlotsSound(ticked))
    <2> HIDE DEF died
    <2> QED  BY <1>6, RespawnSound
  <1>8. SessionTypeOK'
    <2> HIDE DEF ticked, lost
    <2>1. ticked \in HostState /\ ticked.roster \in Roster
      BY <1>7 DEF Sound, HostState
    <2>2. events' \in [Player -> Seq(Event)]
      <3>1. Told(lost, ticked.roster, broadcast) \in Seq(Event)
        BY <1>2, <2>1, ToldType
      <3>2. events' = [p \in Player |-> IF p \in up
                         THEN events[p] \o Told(lost, ticked.roster, broadcast)
                         ELSE <<>>]
        BY DEF Frame, lost, ticked
      <3> QED  BY <3>1, <3>2 DEF SessionInv, SessionTypeOK
    <2>3. updates' \in Seq(Roster)
      BY DEF Frame, SessionInv, SessionTypeOK
    <2>4. packet' \in [Player -> 0..MaxSeq]
      BY <1>5, BoundAssumption
    <2>5. published' \in BOOLEAN
      BY DEF Frame, SessionInv, SessionTypeOK
    <2>6. used' \in Uses
      BY UsesGrow DEF Frame, SessionInv, SessionTypeOK, Uses
    <2> QED
      BY <1>5, <2>1, <2>2, <2>3, <2>4, <2>5, <2>6
         DEF Frame, SessionInv, SessionTypeOK, players, service, Uses
  <1>9. Sound(host)' /\ \A p \in Player : host'.age[p] <= Timeout
    <2> HIDE DEF ticked, played
    <2> QED  BY <1>4, <1>5, <1>7 DEF Sound, Members, Alive
  <1>10. SlotsSound(host) => SlotsSound(host)'
    <2> HIDE DEF ticked
    <2> QED  BY <1>5, <1>7 DEF SlotsSound, Alive
  <1> QED  BY <1>8, <1>9, <1>10 DEF SessionInv

(* A unit of time keeps it: every clock was within the timeout.            *)
LEMMA TickKeeps ==
    ASSUME SessionInv, Tick
    PROVE  SessionInv' /\ (SlotsSound(host) => SlotsSound(host)')
  <1> DEFINE older == [p \in Player |-> IF host.age[p] = Never THEN Never
                                        ELSE host.age[p] + 1]
  <1>1. host \in HostState /\ host' = [host EXCEPT !.age = older]
    BY DEF SessionInv, Sound, Tick
  <1>2. older \in [Player -> Never..Timeout + 1]
    <2>1. \A p \in Player : host.age[p] \in Never..Timeout + 1 /\ host.age[p] <= Timeout
      BY <1>1 DEF HostState, Tick, SessionInv
    <2> QED  BY <2>1 DEF Never, Timeout
  <1>3. /\ host' \in HostState /\ host'.age = older
        /\ host'.roster = host.roster /\ host'.chars = host.chars
        /\ host'.timers = host.timers /\ host'.slots = host.slots
    <2> HIDE DEF older
    <2> QED  BY <1>1, <1>2 DEF HostState
  <1>4. \A p \in Player : host.age[p] # Never => older[p] # Never
    <2>1. \A p \in Player : host.age[p] \in Never..Timeout + 1  BY <1>1 DEF HostState
    <2> QED  BY <2>1 DEF Never, Timeout
  <1>5. Sound(host)' /\ (SlotsSound(host) => SlotsSound(host)')
    <2> HIDE DEF older
    <2> QED  BY <1>3, <1>4 DEF Sound, SessionInv, SlotsSound, Members, Alive
  <1>6. SessionTypeOK'
    <2>1. host' \in HostState  BY <1>3
    <2> QED  BY <2>1 DEF Tick, SessionInv, SessionTypeOK, service
  <1> QED  BY <1>5, <1>6 DEF SessionInv, Tick

(* Nothing outside the host's process touches its state.                   *)
LEMMA OthersKeepHost ==
    ASSUME SessionInv, UNCHANGED <<host, published>>, SessionTypeOK'
    PROVE  SessionInv' /\ (SlotsSound(host) => SlotsSound(host)')
  BY DEF SessionInv, Sound, SlotsSound, Members, Alive

(* The steps of a process of a player, and of the servers.                 *)
LEMMA ProcessKeeps ==
    ASSUME SessionInv, NEW p \in Player,
           Input(p) \/ Stall(p) \/ Read(p) \/ Crash(p) \/ Join(p)
    PROVE  UNCHANGED <<host, published>> /\ SessionTypeOK'
  <1> SUFFICES SessionTypeOK'
    BY DEF Input, Stall, Read, Crash, Join
  <1> USE DEF players, service
  <1>1. SessionTypeOK /\ used \in Uses
    BY DEF SessionInv, SessionTypeOK, Uses
  <1>2. CASE Input(p)
    <2>1. seq' \in [Player -> 0..MaxSeq] /\ packet' \in [Player -> 0..MaxSeq]
      BY <1>1, <1>2, BoundAssumption DEF Input, SessionTypeOK
    <2>2. stalled' \in [Player -> 0..MaxStalls]
      BY <1>1, <1>2, BoundAssumption DEF Input, SessionTypeOK
    <2> QED  BY <1>1, <1>2, <2>1, <2>2 DEF Input, SessionTypeOK
  <1>3. CASE Stall(p)
    <2>1. stalled' \in [Player -> 0..MaxStalls]
      <3>1. stalled[p] + 1 \in 0..MaxStalls
        BY <1>1, <1>3, BoundAssumption DEF Stall, SessionTypeOK
      <3> QED  BY <1>1, <1>3, <3>1 DEF Stall, SessionTypeOK
    <2> QED  BY <1>1, <1>3, <2>1 DEF Stall, SessionTypeOK
  <1>4. CASE Read(p)
    <2> DEFINE msg == Head(events[p])
    <2>1. msg \in Event /\ Tail(events[p]) \in Seq(Event)
      BY <1>1, <1>4 DEF Read, SessionTypeOK
    <2>2. Change(view[p], [q \in msg.who \ {p} |-> Absent]) \in Roster
      BY <1>1 DEF SessionTypeOK, Roster, Change, Absent
    <2>3. msg.type # "left" =>
            Change(view[p], [q \in Unknown(p, msg.entries) |-> msg.entries[q]]) \in Roster
      <3> SUFFICES ASSUME msg.type # "left"
                   PROVE  Change(view[p], [q \in Unknown(p, msg.entries) |->
                                           msg.entries[q]]) \in Roster
        OBVIOUS
      <3>1. msg.entries \in Roster /\ view[p] \in Roster
        BY <1>1, <2>1 DEF Event, SessionTypeOK
      <3>2. Unknown(p, msg.entries) \subseteq Player
        BY DEF Unknown, Members
      <3> QED  BY <3>1, <3>2 DEF Roster, Change
    <2>4. view' \in [Player -> Roster]
      BY <1>1, <1>4, <2>2, <2>3 DEF Read, SessionTypeOK
    <2>5. events' \in [Player -> Seq(Event)]
      BY <1>1, <1>4, <2>1 DEF Read, SessionTypeOK
    <2> QED  BY <1>1, <1>4, <2>4, <2>5 DEF Read, SessionTypeOK
  <1>5. CASE Crash(p)
    <2>1. used' \in Uses  BY <1>1, <1>5, UsesGrow DEF Crash
    <2>2. events' \in [Player -> Seq(Event)]
      BY <1>1, <1>5 DEF Crash, SessionTypeOK
    <2> QED  BY <1>1, <1>5, <2>1, <2>2 DEF Crash, SessionTypeOK, Uses
  <1>6. CASE Join(p)
    <2>1. used' \in Uses  BY <1>1, <1>6, UsesGrow DEF Join
    <2>2. events' \in [Player -> Seq(Event)]
      BY <1>1, <1>6 DEF Join, SessionTypeOK
    <2>3. address' \in Roster /\ lobby' \in Roster
      BY <1>1, <1>6 DEF Join, SessionTypeOK, Roster, Address
    <2>4. view' \in [Player -> Roster] /\ updates' \in Seq(Roster)
      BY <1>1, <1>6, <2>3 DEF Join, SessionTypeOK
    <2>5. seq' \in [Player -> 0..MaxSeq] /\ packet' \in [Player -> 0..MaxSeq]
      BY <1>1, <1>6, BoundAssumption DEF Join, SessionTypeOK
    <2>6. sockets' \subseteq Player \X Address
      BY <1>1, <1>6 DEF Join, SessionTypeOK, Address
    <2>7. up' \subseteq Player /\ silent' \subseteq Player
      BY <1>1, <1>6 DEF Join, SessionTypeOK
    <2>8. stalled' \in [Player -> 0..MaxStalls]
      BY <1>1, <1>6, BoundAssumption DEF Join, SessionTypeOK
    <2> QED
      BY <1>1, <1>6, <2>1, <2>2, <2>3, <2>4, <2>5, <2>6, <2>7, <2>8
         DEF Join, SessionTypeOK, Uses
  <1> QED  BY <1>2, <1>3, <1>4, <1>5, <1>6

LEMMA NoticeKeeps ==
    ASSUME SessionInv, NEW socket \in sockets, Notice(socket)
    PROVE  UNCHANGED <<host, published>> /\ SessionTypeOK'
  <1>1. socket \in Player \X Address  BY DEF SessionInv, SessionTypeOK
  <1> QED  BY <1>1 DEF Notice, SessionInv, SessionTypeOK, players

-----------------------------------------------------------------------------
(* Every step keeps the invariant, and the join indices with it.           *)
THEOREM SessionStep ==
    SessionInv /\ [Next]_vars =>
        SessionInv' /\ (SlotsSound(host) => SlotsSound(host)')
  <1> SUFFICES ASSUME SessionInv, [Next]_vars
               PROVE  SessionInv' /\ (SlotsSound(host) => SlotsSound(host)')
    OBVIOUS
  <1>1. ASSUME NEW D \in SUBSET Seat, NEW R \in SUBSET host.timers,
               NEW broadcast \in BOOLEAN, Frame(D, R, broadcast)
        PROVE  SessionInv' /\ (SlotsSound(host) => SlotsSound(host)')
    BY <1>1, FrameKeeps
  <1>2. ASSUME NEW p \in Player,
               Input(p) \/ Stall(p) \/ Read(p) \/ Crash(p) \/ Join(p)
        PROVE  SessionInv' /\ (SlotsSound(host) => SlotsSound(host)')
    BY <1>2, ProcessKeeps, OthersKeepHost
  <1>3. ASSUME NEW socket \in sockets, Notice(socket)
        PROVE  SessionInv' /\ (SlotsSound(host) => SlotsSound(host)')
    BY <1>3, NoticeKeeps, OthersKeepHost
  <1>4. CASE Tick  BY <1>4, TickKeeps
  <1>5. CASE UNCHANGED vars
    <2>1. SessionTypeOK'
      BY <1>5 DEF SessionInv, SessionTypeOK, vars, players, service
    <2> QED  BY <1>5, <2>1, OthersKeepHost DEF vars
  <1> QED  BY <1>1, <1>2, <1>3, <1>4, <1>5 DEF Next

THEOREM SessionInvariance == Spec => []SessionInv
  <1>1. SessionInv /\ [Next]_vars => SessionInv'  BY SessionStep
  <1>2. QED  BY InitSession, <1>1, PTL DEF Spec

(* Every variable keeps its type; that no clock of a player runs past the  *)
(* timeout is the eviction of the frame (_check_player_disconnections).    *)
THEOREM SessionTypes == Spec => []SessionTypeOK
  <1>1. SessionInv => SessionTypeOK  BY DEF SessionInv
  <1>2. QED  BY <1>1, SessionInvariance, PTL

(* Every player of the roster can be found silent                          *)
(* (_check_for_rejoining_players, _evict_player).                          *)
THEOREM EveryoneWatched == Spec => []Watched
  <1>1. SessionInv => Watched  BY DEF SessionInv, Sound, Watched
  <1>2. QED  BY <1>1, SessionInvariance, PTL

(* A player of the roster has a character or waits for one                 *)
(* (_check_for_rejoining_players, _queue_player_death, _process_respawns). *)
THEOREM EveryoneHasBody == Spec => []HasBody
  <1>1. SessionInv => HasBody  BY DEF SessionInv, Sound, HasBody
  <1>2. QED  BY <1>1, SessionInvariance, PTL

(* Unless the host begins from a snapshot in which somebody was dead, a    *)
(* character keeps the join index of its player through deaths, evictions  *)
(* and rejoins (_queue_player_death, _process_respawns).                   *)
THEOREM SlotsKept == ASSUME Dying = {} PROVE Spec => []KeepsSlot
  <1>1. Init => SessionInv /\ SlotsSound(host)
    BY InitSession
  <1>2. (SessionInv /\ SlotsSound(host)) /\ [Next]_vars
          => (SessionInv /\ SlotsSound(host))'
    BY SessionStep
  <1>3. SessionInv /\ SlotsSound(host) => KeepsSlot
    BY DEF SlotsSound, KeepsSlot
  <1>4. QED  BY <1>1, <1>2, <1>3, PTL DEF Spec

-----------------------------------------------------------------------------
(* Who sends input is spared.  The fields that the stages change.          *)

LEMMA ReadmitFields ==
    ASSUME NEW h \in HostState, NEW entries, NEW p \in Player
    PROVE  LET k == Readmit(h, entries) IN
           /\ p \in Back(h, entries) => k.age[p] = 0
           /\ p \notin Back(h, entries) => k.age[p] = h.age[p] /\ k.roster[p] = h.roster[p]
           /\ k.heard = h.heard
  <1> DEFINE k == Readmit(h, entries)
             B == Back(h, entries)
  <1>1. /\ k.roster = Change(h.roster, [q \in B |-> entries[q]])
        /\ k.age = Change(h.age, [q \in B |-> 0])
        /\ k.heard = h.heard
    BY DEF Readmit, HostState
  <1>2. h.roster \in [Player -> Address \cup {Absent}] /\ h.age \in [Player -> Never..Timeout + 1]
    BY DEF HostState, Roster
  <1> QED  BY <1>1, <1>2 DEF Change

LEMMA EvictFields ==
    ASSUME NEW h \in HostState, NEW S \in SUBSET Player, NEW p \in Player
    PROVE  LET k == Evict(h, S) IN
           /\ p \in S => k.roster[p] = Absent /\ k.age[p] = Never /\ k.heard[p] = Never
           /\ p \notin S => /\ k.roster[p] = h.roster[p]
                            /\ k.age[p] = h.age[p] /\ k.heard[p] = h.heard[p]
  <1> DEFINE k == Evict(h, S)
  <1>1. /\ k.roster = Change(h.roster, [q \in S |-> Absent])
        /\ k.heard = Change(h.heard, [q \in S |-> Never])
        /\ k.age = Change(h.age, [q \in S |-> Never])
    BY DEF Evict, HostState
  <1>2. /\ h.roster \in [Player -> Address \cup {Absent}]
        /\ h.age \in [Player -> Never..Timeout + 1] /\ h.heard \in [Player -> Never..MaxSeq]
    BY DEF HostState, Roster
  <1> QED  BY <1>1, <1>2 DEF Change

LEMMA HearFields ==
    ASSUME NEW h \in HostState, NEW p \in Player
    PROVE  LET k == Hear(h) IN
           /\ k.roster = h.roster
           /\ p \in Fresh(h) => k.age[p] = 0 /\ k.heard[p] = packet[p]
           /\ p \notin Fresh(h) => k.age[p] = h.age[p] /\ k.heard[p] = h.heard[p]
  <1> DEFINE k == Hear(h)
             F == Fresh(h)
  <1>1. /\ k.heard = Change(h.heard, [q \in F |-> packet[q]])
        /\ k.age = Change(h.age, [q \in F |-> 0])
        /\ k.roster = h.roster
    BY DEF Hear, HostState
  <1>2. h.age \in [Player -> Never..Timeout + 1] /\ h.heard \in [Player -> Never..MaxSeq]
    BY DEF HostState
  <1> QED  BY <1>1, <1>2 DEF Change

(* Deaths and respawns touch neither the roster nor the clocks.            *)
LEMMA TickFields ==
    ASSUME NEW h \in HostState, NEW D, NEW R
    PROVE  LET k == Respawn(Die(h, D), R) IN
           k.roster = h.roster /\ k.age = h.age /\ k.heard = h.heard
  BY DEF Respawn, Die, HostState

-----------------------------------------------------------------------------
(* The numbers of a process only grow, and whoever the host has no clock   *)
(* for it has no number of either.                                         *)
Numbered ==
    \A p \in Player :
        /\ packet[p] <= seq[p] /\ host.heard[p] <= seq[p]
        /\ packet[p] # 0 => packet[p] > host.heard[p] \/ packet[p] = MaxSeq
        /\ host.age[p] = Never => host.heard[p] = Never

(* Nothing of a former process is left to be reported of one that runs.    *)
Unreported ==
    \A p \in up :
        /\ address[p] # Absent /\ p \notin gone
        /\ \A socket \in sockets : socket[1] = p => socket[2] = address[p]

(* The clock of a process counts the units in which it has been silent,    *)
(* and the present one.                                                    *)
Heeded ==
    \A p \in up : host.roster[p] = address[p] =>
        /\ host.age[p] <= MaxStalls + 1
        /\ p \in silent => host.age[p] <= stalled[p] + 1
        /\ p \notin silent /\ packet[p] = 0 => host.age[p] <= stalled[p]

LivingInv == Numbered /\ Unreported /\ Heeded

LEMMA Clocks ==
    ASSUME SessionTypeOK, NEW p \in Player
    PROVE  /\ host \in HostState
           /\ host.age[p] \in Int /\ host.heard[p] \in Int /\ seq[p] \in Nat /\ packet[p] \in Nat
           /\ packet[p] <= MaxSeq /\ seq[p] <= MaxSeq
           /\ stalled[p] \in Nat /\ stalled[p] <= MaxStalls
           /\ MaxStalls \in Nat /\ MaxSeq \in Nat /\ MaxSeq > 0
           /\ Never = -1 /\ Absent = 0 /\ Timeout = 2
  <1>1. /\ host.age \in [Player -> Never..Timeout + 1] /\ host.heard \in [Player -> Never..MaxSeq]
        /\ host \in HostState
    BY DEF SessionTypeOK, HostState
  <1>2. MaxStalls \in Nat /\ MaxSeq \in Nat /\ MaxSeq > 0 /\ Never = -1 /\ Absent = 0 /\ Timeout = 2
    BY BoundAssumption DEF Never, Absent, Timeout
  <1>3. host.age[p] \in Never..Timeout + 1 /\ host.heard[p] \in Never..MaxSeq
    BY <1>1
  <1>4. seq[p] \in 0..MaxSeq /\ packet[p] \in 0..MaxSeq /\ stalled[p] \in 0..MaxStalls
    BY DEF SessionTypeOK
  <1> QED  BY <1>1, <1>2, <1>3, <1>4

LEMMA StartsHeeded == Init => LivingInv
  <1> SUFFICES ASSUME Init
               PROVE  LivingInv
    OBVIOUS
  <1>1. /\ host.roster = Entered /\ host.heard = [p \in Player |-> Never]
        /\ \A p \in Player : host.age[p] = IF p \in Present THEN 0 ELSE Never
        /\ up = Present /\ address = Entered /\ gone = {}
        /\ seq = [p \in Player |-> 0] /\ packet = [p \in Player |-> 0]
        /\ stalled = [p \in Player |-> 0]
        /\ sockets \subseteq Present \X {1}
    BY DEF Init
  <1>2. Numbered
    BY <1>1, BoundAssumption DEF Numbered, Never
  <1>3. \A p \in Present : p \in Player /\ address[p] = 1
    BY <1>1, PlayerAssumption DEF Entered
  <1>4. Unreported
    BY <1>1, <1>3 DEF Unreported, Absent
  <1>5. Heeded
    BY <1>1, <1>3, BoundAssumption DEF Heeded
  <1> QED  BY <1>2, <1>4, <1>5 DEF LivingInv

(* A frame evicts nobody whose clock is within the timeout, and each       *)
(* packet of a process of the roster sets its clock back.                  *)
LEMMA FrameHeeds ==
    ASSUME SessionInv, LivingInv, MaxStalls < Timeout,
           NEW D \in SUBSET Seat, NEW R \in SUBSET host.timers,
           NEW broadcast \in BOOLEAN, Frame(D, R, broadcast)
    PROVE  /\ LivingInv'
           /\ \A p \in up : host.roster[p] = address[p] => host'.roster[p] # Absent
  <1> USE DEF LivingInv, SessionInv
  <1> DEFINE entered == IF updates = <<>> THEN host ELSE Readmit(host, Head(updates))
             lost    == Lost(entered)
             evicted == Evict(entered, lost)
             played  == Hear(evicted)
             ticked  == Respawn(Die(played, D), R)
             back    == IF updates = <<>> THEN {} ELSE Back(host, Head(updates))
  <1>1. /\ host' = ticked /\ packet' = [p \in Player |-> 0] /\ gone' = {}
        /\ UNCHANGED <<up, address, seq, silent, stalled, sockets>>
    BY DEF Frame, players, service
  <1>2. /\ entered \in HostState /\ entered.heard = host.heard
        /\ \A p \in Player : /\ p \in back => entered.age[p] = 0
                             /\ p \notin back => /\ entered.age[p] = host.age[p]
                                                 /\ entered.roster[p] = host.roster[p]
    <2>1. CASE updates = <<>>
      BY <2>1 DEF SessionTypeOK
    <2>2. CASE updates # <<>>
      <3>1. Head(updates) \in Roster /\ host \in HostState
        BY <2>2 DEF SessionTypeOK
      <3>2. Readmit(host, Head(updates)) \in HostState
        BY <3>1, ReadmitSound DEF Sound
      <3>3. Readmit(host, Head(updates)).heard = host.heard
        BY <3>1 DEF Readmit, HostState
      <3> QED  BY <2>2, <3>1, <3>2, <3>3, ReadmitFields
    <2> QED  BY <2>1, <2>2
  <1> HIDE DEF entered, back
  <1>3. lost \in SUBSET Player
    BY DEF Lost, SessionTypeOK
  <1>4. Sound(evicted) /\ evicted \in HostState
    <2>1. Sound(entered)
      <3>1. CASE updates = <<>>
        BY <3>1 DEF entered
      <3>2. CASE updates # <<>>
        <4>1. Head(updates) \in Roster
          BY <3>2 DEF SessionTypeOK
        <4> QED  BY <3>2, <4>1, ReadmitSound DEF entered
      <3> QED  BY <3>1, <3>2
    <2> QED  BY <1>3, <2>1, EvictSound DEF Sound
  <1>5. played \in HostState
    <2>1. packet \in [Player -> 0..MaxSeq]
      BY DEF SessionTypeOK
    <2> HIDE DEF evicted
    <2> QED  BY <1>4, <2>1, HearSound DEF Sound
  <1>6. /\ host'.roster = played.roster /\ host'.age = played.age /\ host'.heard = played.heard
    <2> HIDE DEF played
    <2> QED  BY <1>1, <1>5, TickFields
  <1>7. ASSUME NEW p \in Player
        PROVE  /\ p \in lost => evicted.roster[p] = Absent /\ evicted.age[p] = Never
                                /\ evicted.heard[p] = Never
               /\ p \notin lost => /\ evicted.roster[p] = entered.roster[p]
                                   /\ evicted.age[p] = entered.age[p]
                                   /\ evicted.heard[p] = host.heard[p]
    <2> HIDE DEF lost
    <2> QED  BY <1>2, <1>3, EvictFields
  <1> HIDE DEF lost
  <1>8. ASSUME NEW p \in Player
        PROVE  /\ host'.roster[p] = evicted.roster[p]
               /\ p \in Fresh(evicted) => host'.age[p] = 0 /\ host'.heard[p] = packet[p]
               /\ p \notin Fresh(evicted) => /\ host'.age[p] = evicted.age[p]
                                             /\ host'.heard[p] = evicted.heard[p]
    <2> HIDE DEF evicted
    <2> QED  BY <1>4, <1>6, HearFields
  <1> HIDE DEF evicted
  <1>9. ASSUME NEW p \in up
        PROVE  p \in Player /\ address[p] # Absent /\ p \notin gone
    BY DEF Unreported, SessionTypeOK
  <1>10. ASSUME NEW p \in up, host.roster[p] = address[p]
         PROVE  p \notin lost
    <2>1. host.age[p] \in Int /\ host.age[p] <= Timeout
      BY <1>9, <1>10, Clocks DEF Heeded
    <2>2. entered.age[p] \in Int /\ entered.age[p] <= Timeout
      BY <1>2, <1>9, <2>1 DEF Timeout
    <2> QED  BY <1>9, <2>2 DEF Lost, lost, Timeout
  <1>11. Numbered'
    <2> SUFFICES ASSUME NEW p \in Player
                 PROVE  /\ host'.heard[p] <= seq[p]
                        /\ host'.age[p] = Never => host'.heard[p] = Never
      BY <1>1, Clocks DEF Numbered
    <2>1. /\ packet[p] <= seq[p] /\ host.heard[p] <= seq[p]
          /\ host.age[p] = Never => host.heard[p] = Never
      BY DEF Numbered
    <2>2. p \in lost => evicted.heard[p] <= seq[p]
      BY <1>7, Clocks
    <2>3. host'.heard[p] <= seq[p]
      BY <1>7, <1>8, <2>1, <2>2
    <2>4. 0 # Never
      BY DEF Never
    <2>5. entered.age[p] = Never => host.heard[p] = Never
      BY <1>2, <2>1, <2>4
    <2> QED  BY <1>7, <1>8, <2>3, <2>4, <2>5
  <1>12. Unreported'
    BY <1>1 DEF Unreported
  <1>13. ASSUME NEW p \in up, host'.roster[p] = address[p]
         PROVE  /\ p \notin lost
                /\ host.roster[p] = address[p] \/ p \in back
    BY <1>2, <1>7, <1>8, <1>9, <1>13
  <1>14. ASSUME NEW p \in up, host'.roster[p] = address[p]
         PROVE  /\ host'.age[p] <= MaxStalls + 1
                /\ p \in silent => host'.age[p] <= stalled[p] + 1
                /\ p \notin silent => host'.age[p] <= stalled[p]
    <2>1. p \in Player /\ p \notin lost
      BY <1>9, <1>13, <1>14
    <2>2. /\ MaxStalls \in Nat /\ stalled[p] \in Nat /\ host.age[p] \in Int
          /\ packet[p] \in Nat
      BY <2>1, Clocks
    <2>3. CASE p \in back \/ p \in Fresh(evicted)
      <3>1. host'.age[p] = 0
        BY <1>2, <1>7, <1>8, <2>1, <2>3
      <3> QED  BY <2>2, <3>1
    <2>4. CASE p \notin back /\ p \notin Fresh(evicted)
      <3>1. host'.age[p] = host.age[p] /\ host.roster[p] = address[p]
            /\ evicted.heard[p] = host.heard[p]
        BY <1>2, <1>7, <1>8, <1>13, <1>14, <2>1, <2>4
      <3>2. packet[p] = 0
        BY <2>1, <2>4, <3>1 DEF Fresh, Numbered
      <3> QED  BY <3>1, <3>2 DEF Heeded
    <2> QED  BY <2>3, <2>4
  <1>15. Heeded'
    BY <1>1, <1>14 DEF Heeded
  <1>16. ASSUME NEW p \in up, host.roster[p] = address[p]
         PROVE  host'.roster[p] # Absent
    <2>1. p \in Player /\ p \notin lost /\ address[p] # Absent
      BY <1>9, <1>10, <1>16
    <2>2. host'.roster[p] = entered.roster[p]
      BY <1>7, <1>8, <2>1
    <2>3. entered.roster[p] # Absent
      <3>1. CASE p \notin back
        BY <1>2, <1>16, <2>1, <3>1
      <3>2. CASE p \in back
        <4>1. updates # <<>> /\ p \in Members(Head(updates)) /\ p \in Back(host, Head(updates))
          BY <3>2 DEF back, Back
        <4>2. entered.roster[p] = Head(updates)[p]
          <5>1. entered.roster = Change(host.roster, [q \in Back(host, Head(updates)) |->
                                                       Head(updates)[q]])
            BY <4>1, Clocks, <2>1 DEF entered, Readmit, HostState
          <5>2. host.roster \in [Player -> Address \cup {Absent}]
            BY Clocks, <2>1 DEF HostState, Roster
          <5> QED  BY <2>1, <4>1, <5>1, <5>2 DEF Change
        <4> QED  BY <4>1, <4>2 DEF Members
      <3> QED  BY <3>1, <3>2
    <2> QED  BY <2>2, <2>3
  <1> QED  BY <1>11, <1>12, <1>15, <1>16

(* The other steps: a process is only silent again when the frame has      *)
(* heard what it sent.                                                     *)
LEMMA ProcessHeeds ==
    ASSUME SessionInv, LivingInv, ~QuickRejoin, NEW p \in Player,
           Input(p) \/ Stall(p) \/ Read(p) \/ Crash(p) \/ Join(p)
    PROVE  LivingInv'
  <1> USE DEF LivingInv, SessionInv, players, service
  <1>1. SessionTypeOK /\ host' = host
    BY DEF Input, Stall, Read, Crash, Join
  <1>2. CASE Input(p)
    <2>1. /\ p \in silent /\ silent' = silent \ {p} /\ UNCHANGED <<up, address, gone, sockets>>
          /\ \A q \in Player \ {p} : seq'[q] = seq[q] /\ packet'[q] = packet[q]
                                     /\ stalled'[q] = stalled[q]
          /\ seq'[p] = (IF seq[p] < MaxSeq THEN seq[p] + 1 ELSE MaxSeq) /\ packet'[p] = seq'[p]
      BY <1>1, <1>2 DEF Input, SessionTypeOK
    <2>2. seq'[p] >= seq[p] /\ seq'[p] # 0 /\ (seq'[p] > seq[p] \/ seq'[p] = MaxSeq)
          /\ seq'[p] \in Nat
      BY <1>1, <2>1, Clocks
    <2>3. ASSUME NEW q \in Player
          PROVE  /\ packet'[q] <= seq'[q] /\ host.heard[q] <= seq'[q]
                 /\ packet'[q] # 0 => packet'[q] > host.heard[q] \/ packet'[q] = MaxSeq
      <3>1. CASE q = p
        <4>1. host.heard[p] <= seq[p] /\ host.heard[p] \in Int /\ seq[p] \in Nat
          BY <1>1, Clocks DEF Numbered
        <4> QED  BY <2>1, <2>2, <3>1, <4>1
      <3>2. CASE q # p
        BY <2>1, <3>2 DEF Numbered
      <3> QED  BY <3>1, <3>2
    <2>4. Numbered'
      BY <1>1, <2>3 DEF Numbered
    <2>5. Unreported'
      BY <2>1 DEF Unreported
    <2>6. Heeded'
      <3> SUFFICES ASSUME NEW q \in up, host.roster[q] = address[q]
                   PROVE  /\ host.age[q] <= MaxStalls + 1
                          /\ q \in silent' => host.age[q] <= stalled'[q] + 1
                          /\ q \notin silent' /\ packet'[q] = 0 => host.age[q] <= stalled'[q]
        BY <1>1, <2>1 DEF Heeded
      <3>1. CASE q = p
        BY <2>1, <2>2, <3>1 DEF Heeded
      <3>2. CASE q # p
        <4>1. q \in Player
          BY <1>1 DEF SessionTypeOK
        <4> QED  BY <2>1, <3>2, <4>1 DEF Heeded
      <3> QED  BY <3>1, <3>2
    <2> QED  BY <2>4, <2>5, <2>6
  <1>3. CASE Stall(p)
    <2>1. /\ p \in silent /\ silent' = silent \ {p}
          /\ UNCHANGED <<up, address, gone, sockets, seq, packet>>
          /\ \A q \in Player \ {p} : stalled'[q] = stalled[q]
          /\ stalled'[p] = stalled[p] + 1
      BY <1>1, <1>3 DEF Stall, SessionTypeOK
    <2>2. Numbered' /\ Unreported'
      BY <1>1, <2>1 DEF Numbered, Unreported
    <2>3. Heeded'
      <3> SUFFICES ASSUME NEW q \in up, host.roster[q] = address[q]
                   PROVE  /\ host.age[q] <= MaxStalls + 1
                          /\ q \in silent' => host.age[q] <= stalled'[q] + 1
                          /\ q \notin silent' /\ packet[q] = 0 => host.age[q] <= stalled'[q]
        BY <1>1, <2>1 DEF Heeded
      <3>1. CASE q = p
        BY <2>1, <3>1 DEF Heeded
      <3>2. CASE q # p
        <4>1. q \in Player
          BY <1>1 DEF SessionTypeOK
        <4> QED  BY <2>1, <3>2, <4>1 DEF Heeded
      <3> QED  BY <3>1, <3>2
    <2> QED  BY <2>2, <2>3
  <1>4. CASE Read(p)
    BY <1>1, <1>4 DEF Read, Numbered, Unreported, Heeded
  <1>5. CASE Crash(p)
    <2>1. /\ up' = up \ {p} /\ silent' = silent \ {p}
          /\ UNCHANGED <<address, gone, sockets, seq, packet, stalled>>
      BY <1>5 DEF Crash
    <2> QED  BY <1>1, <2>1 DEF Numbered, Unreported, Heeded
  <1>6. CASE Join(p)
    <2>1. /\ up' = up \cup {p} /\ silent' = silent \cup {p} /\ UNCHANGED gone
          /\ address' = [address EXCEPT ![p] = 2] /\ sockets' = sockets \cup {<<p, 2>>}
          /\ seq' = [seq EXCEPT ![p] = 0] /\ packet' = [packet EXCEPT ![p] = 0]
          /\ stalled' = [stalled EXCEPT ![p] = 0]
          /\ Forgotten(p) /\ p \notin up
      BY <1>6 DEF Join
    <2>2. /\ address'[p] = 2 /\ seq'[p] = 0 /\ packet'[p] = 0
          /\ \A q \in Player \ {p} : /\ address'[q] = address[q] /\ seq'[q] = seq[q]
                                     /\ packet'[q] = packet[q] /\ stalled'[q] = stalled[q]
      BY <1>1, <2>1 DEF SessionTypeOK, Roster
    <2>3. Numbered'
      <3> SUFFICES ASSUME NEW q \in Player
                   PROVE  /\ packet'[q] <= seq'[q] /\ host.heard[q] <= seq'[q]
                          /\ packet'[q] # 0 => packet'[q] > host.heard[q] \/ packet'[q] = MaxSeq
                          /\ host.age[q] = Never => host.heard[q] = Never
        BY <1>1 DEF Numbered
      <3>1. CASE q = p
        <4>1. host.heard[p] = Never
          BY <2>1 DEF Forgotten, Numbered
        <4> QED  BY <2>2, <3>1, <4>1 DEF Never
      <3>2. CASE q # p
        BY <2>2, <3>2 DEF Numbered
      <3> QED  BY <3>1, <3>2
    <2>4. Unreported'
      <3> SUFFICES ASSUME NEW q \in up'
                   PROVE  /\ address'[q] # Absent /\ q \notin gone
                          /\ \A socket \in sockets' : socket[1] = q => socket[2] = address'[q]
        BY <2>1 DEF Unreported
      <3>1. CASE q = p
        <4>1. p \notin gone /\ \A socket \in sockets : socket[1] # p
          BY <2>1 DEF Forgotten
        <4> QED  BY <2>1, <2>2, <3>1, <4>1 DEF Absent
      <3>2. CASE q # p
        <4>1. q \in up /\ q \in Player
          BY <1>1, <2>1, <3>2 DEF SessionTypeOK
        <4> QED  BY <2>1, <2>2, <3>2, <4>1 DEF Unreported
      <3> QED  BY <3>1, <3>2
    <2>5. Heeded'
      <3> SUFFICES ASSUME NEW q \in up', host.roster[q] = address'[q]
                   PROVE  /\ host.age[q] <= MaxStalls + 1
                          /\ q \in silent' => host.age[q] <= stalled'[q] + 1
                          /\ q \notin silent' /\ packet'[q] = 0 => host.age[q] <= stalled'[q]
        BY <1>1, <2>1 DEF Heeded
      <3>1. q # p
        BY <2>1, <2>2 DEF Forgotten, Absent
      <3>2. q \in up /\ q \in Player
        BY <1>1, <2>1, <3>1 DEF SessionTypeOK
      <3> QED  BY <2>1, <2>2, <3>1, <3>2 DEF Heeded
    <2> QED  BY <2>3, <2>4, <2>5
  <1> QED  BY <1>2, <1>3, <1>4, <1>5, <1>6

LEMMA NoticeHeeds ==
    ASSUME SessionInv, LivingInv, NEW socket \in sockets, Notice(socket)
    PROVE  LivingInv'
  <1> USE DEF LivingInv, SessionInv
  <1>1. /\ sockets' = sockets \ {socket} /\ gone' = gone \cup {socket[1]}
        /\ socket \notin Running
        /\ UNCHANGED <<host, up, address, seq, silent, stalled, packet>>
    BY DEF Notice, players
  <1>2. socket = <<socket[1], socket[2]>>
    BY DEF SessionTypeOK
  <1>3. socket[1] \notin up
    BY <1>1, <1>2 DEF Running, Unreported
  <1> QED  BY <1>1, <1>3 DEF Numbered, Unreported, Heeded

LEMMA TickHeeds ==
    ASSUME SessionInv, LivingInv, Tick
    PROVE  LivingInv'
  <1> USE DEF LivingInv, SessionInv
  <1>1. /\ up \cap silent = {} /\ packet = [p \in Player |-> 0] /\ silent' = up
        /\ UNCHANGED <<up, address, seq, stalled, packet, gone, sockets>>
        /\ host' = [host EXCEPT !.age = [p \in Player |-> IF @[p] = Never THEN Never ELSE @[p] + 1]]
    BY DEF Tick, service
  <1>2. /\ host'.roster = host.roster /\ host'.heard = host.heard
        /\ \A p \in Player : host'.age[p] = IF host.age[p] = Never THEN Never ELSE host.age[p] + 1
    BY <1>1 DEF SessionTypeOK, HostState
  <1>3. Numbered'
    <2>1. ASSUME NEW p \in Player, host'.age[p] = Never
          PROVE  host.age[p] = Never
      <3>1. host.age[p] \in Never..Timeout + 1
        BY DEF SessionTypeOK, HostState
      <3> QED  BY <1>2, <2>1, <3>1 DEF Never, Timeout
    <2> QED  BY <1>1, <1>2, <2>1 DEF Numbered
  <1>4. Unreported'
    BY <1>1 DEF Unreported
  <1>5. Heeded'
    <2> SUFFICES ASSUME NEW p \in up, host.roster[p] = address[p]
                 PROVE  /\ host'.age[p] <= MaxStalls + 1
                        /\ host'.age[p] <= stalled[p] + 1
      BY <1>1, <1>2 DEF Heeded
    <2>1. p \in Player
      BY DEF SessionTypeOK
    <2>2. p \notin silent /\ packet[p] = 0
      BY <1>1, <2>1
    <2>3. host.age[p] <= stalled[p]
      BY <2>2 DEF Heeded
    <2> QED  BY <1>2, <2>1, <2>3, Clocks
  <1> QED  BY <1>3, <1>4, <1>5

(* _check_player_disconnections: a running process that is in the roster   *)
(* and sends input, with stalls shorter than the timeout, however many,    *)
(* is not evicted, unless a player may be back before the host and the     *)
(* event server have forgotten its former process.                         *)
THEOREM LivingSpared ==
    ASSUME ~QuickRejoin, MaxStalls < Timeout
    PROVE  Spec => SparesTheLiving
  <1> DEFINE Spares == \A p \in up : host.roster[p] = address[p] => host'.roster[p] # Absent
  <1>1. SessionInv /\ LivingInv /\ [Next]_vars => LivingInv' /\ [Spares]_vars
    <2> SUFFICES ASSUME SessionInv, LivingInv, [Next]_vars
                 PROVE  LivingInv' /\ [Spares]_vars
      OBVIOUS
    <2>1. ASSUME host'.roster = host.roster
          PROVE  Spares
      BY <2>1 DEF LivingInv, Unreported
    <2>2. ASSUME NEW D \in SUBSET Seat, NEW R \in SUBSET host.timers,
                 NEW broadcast \in BOOLEAN, Frame(D, R, broadcast)
          PROVE  LivingInv' /\ Spares
      BY <2>2, FrameHeeds
    <2>3. ASSUME NEW p \in Player,
                 Input(p) \/ Stall(p) \/ Read(p) \/ Crash(p) \/ Join(p)
          PROVE  LivingInv' /\ Spares
      <3>1. host' = host
        BY <2>3 DEF Input, Stall, Read, Crash, Join
      <3> QED  BY <2>1, <2>3, <3>1, ProcessHeeds
    <2>4. ASSUME NEW socket \in sockets, Notice(socket)
          PROVE  LivingInv' /\ Spares
      <3>1. host' = host
        BY <2>4 DEF Notice
      <3> QED  BY <2>1, <2>4, <3>1, NoticeHeeds
    <2>5. CASE Tick
      <3>1. host'.roster = host.roster
        BY <2>5 DEF Tick, SessionInv, SessionTypeOK, HostState
      <3> QED  BY <2>1, <2>5, <3>1, TickHeeds
    <2>6. CASE UNCHANGED vars
      BY <2>6 DEF LivingInv, Numbered, Unreported, Heeded, vars, players, service
    <2> QED  BY <2>2, <2>3, <2>4, <2>5, <2>6 DEF Next
  <1>2. QED
    BY <1>1, StartsHeeded, SessionInvariance, PTL DEF Spec, SparesTheLiving
=============================================================================
