---------------------------- MODULE ServicesProofs ----------------------------
(***************************************************************************)
(* What a postgres service is set to, where hostnames lead, what services  *)
(* are said to be doing, and whose hostnames and bytes they have, for any  *)
(* sets of callers, names, sizes, hostnames, branches, services and data.  *)
(***************************************************************************)
EXTENDS Services, Settings, Domains, Runtime, SequenceTheorems, TLAPS

-----------------------------------------------------------------------------
\* SETTINGS.

Ceiling == [cpu : Ladder \cup {0}, memoryMb : Nat]
Size == Gib \cup {Least(Gib)}

KeptRow == [name : PgName, url : [host : PgName, password : Password], limits : Ceiling, gib : Size]
Server == [name : PgName, limits : Ceiling, password : Password]
AnyCall == [verb : {"none", "limits", "password", "rename"},
         at : {"none", "queued", "docker", "landed"},
         on : PgName \cup {Unsaid}, to : PgName \cup Password \cup {Unsaid},
         limits : Ceiling, gib : Size \cup {0}, want : Size \cup {0}]

SettingsTyped ==
    /\ kept \in KeptRow /\ server \in Server
    /\ calls \in [Caller -> AnyCall] /\ holder \in [PgName -> Caller \cup {Unsaid}]

\* A call is nowhere and asks nothing, or it asks one thing of a name.
Coherent(call) ==
    /\ call.at = "none" => call = Free
    /\ call.at # "none" => call.verb # "none" /\ call.on \in PgName
    /\ call.verb = "rename" => call.to \in PgName
    /\ call.verb = "password" => call.to \in Password
    /\ call.verb = "limits" => OnGrid(call.limits)

\* Between its turn and its end a call holds the key of its name.
Begun(c) == calls[c].at \in {"docker", "landed"}
KeysHeld == \A c \in Caller : Begun(c) => holder[calls[c].on] = c

\* Nobody goes by the name that a rename which can still be done leads to.
Renaming(c) == calls[c].verb = "rename" /\ kept.name = calls[c].on /\ calls[c].to # calls[c].on
NobodyGoesBy(n) == \A d \in Caller : calls[d].on # n

RenamesClear ==
    \A c \in Caller :
        /\ Renaming(c) => NobodyGoesBy(calls[c].to)
        /\ calls[c].verb = "rename" /\ Begun(c) => Renaming(c)

\* What docker or postgres did is still so when the answer arrives.
Landed(c, verb) == calls[c].at = "landed" /\ calls[c].verb = verb

LandedStands ==
    \A c \in Caller :
        /\ Landed(c, "rename") => server.name = calls[c].to
        /\ Landed(c, "limits") => server.name = calls[c].on /\ server.limits = calls[c].limits
        /\ Landed(c, "password") => server.name = calls[c].on /\ server.password = calls[c].to

\* The row and the server differ only by what is open; once the names differ nobody goes by
\* the server's.
InStep ==
    /\ kept.url.host = kept.name
    /\ ~Open("rename") => server.name = kept.name
    /\ server.name # kept.name => NobodyGoesBy(server.name)
    /\ ~Open("limits") => kept.limits = server.limits
    /\ ~Open("password") => kept.url.password = server.password

SettingsInv ==
    /\ SettingsTyped /\ \A c \in Caller : Coherent(calls[c])
    /\ KeysHeld /\ RenamesClear /\ LandedStands
    /\ InStep /\ CeilingIsOnGrid

LEMMA FreeIsTyped == Free \in AnyCall /\ Unlimited \in Ceiling /\ Coherent(Free)
                     /\ Free.verb = "none" /\ Free.at = "none" /\ Free.on = Unsaid
BY DEF Free, AnyCall, Unlimited, Ceiling, Coherent

\* What is accepted is on the grid.
LEMMA AcceptedIsOnGrid ==
    ASSUME NEW cpu, NEW mb \in Nat, NEW l \in Accepted(cpu, mb)
    PROVE  l \in Ceiling /\ OnGrid(l)
<1>1. OnGrid(l) /\ \E size : l = [cpu |-> size, memoryMb |-> mb]
  BY DEF Accepted
<1>2. PICK size : l = [cpu |-> size, memoryMb |-> mb]
  BY <1>1
<1>3. size \in Ladder
  BY <1>1, <1>2 DEF OnGrid
<1> QED BY <1>1, <1>2, <1>3 DEF Ceiling

LEMMA SettingsInitHolds == ASSUME SettingsAssumption, SettingsInit PROVE SettingsInv
<1>1. PICK n \in PgName, pw \in Password :
         /\ kept = [name |-> n, url |-> [host |-> n, password |-> pw],
                    limits |-> Unlimited, gib |-> Least(Gib)]
         /\ server = [name |-> n, limits |-> Unlimited, password |-> pw]
  BY DEF SettingsInit
<1>2. \A c \in Caller : calls[c] = Free
  BY DEF SettingsInit
<1>3. SettingsTyped
  BY <1>1, FreeIsTyped DEF SettingsInit, SettingsTyped, KeptRow, Server, Size
<1>4. \A c \in Caller : Coherent(calls[c])
  BY <1>2, FreeIsTyped
<1>5. KeysHeld /\ RenamesClear /\ LandedStands
  BY <1>2 DEF Free, KeysHeld, RenamesClear, LandedStands, Begun, Renaming, Landed
<1>6. InStep /\ CeilingIsOnGrid
  BY <1>1 DEF InStep, CeilingIsOnGrid
<1> QED BY <1>3, <1>4, <1>5, <1>6 DEF SettingsInv

\* A call that asks something of the name the row has now.
LEMMA StartHolds ==
    ASSUME SettingsAssumption, SettingsInv,
           NEW c \in Caller, calls[c] = Free, NEW call \in AnyCall, Start(c, call),
           call.at = "queued", call.on = kept.name, Coherent(call),
           call.verb = "rename" => NobodyGoesBy(call.to),
           UNCHANGED <<kept, server, holder, torn>>
    PROVE  SettingsInv'
<1>1. /\ calls \in [Caller -> AnyCall] /\ calls' = [calls EXCEPT ![c] = call]
      /\ calls'[c] = call /\ \A d \in Caller : d # c => calls'[d] = calls[d]
  BY DEF SettingsInv, SettingsTyped, Start
<1>2. SettingsTyped'
  BY <1>1 DEF SettingsInv, SettingsTyped
<1>3. \A d \in Caller : Coherent(calls'[d])
  BY <1>1 DEF SettingsInv
<1>4. KeysHeld' /\ LandedStands'
  BY <1>1 DEF SettingsInv, KeysHeld, LandedStands, Begun, Landed
<1>5. RenamesClear'
  <2>1. ASSUME NEW d \in Caller, Renaming(d)' PROVE NobodyGoesBy(calls[d].to)' 
    <3>1. calls'[d].to # kept.name /\ kept' = kept
      BY <2>1 DEF Renaming
    <3>2. NobodyGoesBy(calls'[d].to)
      BY <1>1, <2>1 DEF SettingsInv, RenamesClear, Renaming
    <3> QED BY <1>1, <3>1, <3>2 DEF NobodyGoesBy
  <2>2. \A d \in Caller : calls'[d].verb = "rename" /\ Begun(d)' => Renaming(d)'
    BY <1>1 DEF SettingsInv, RenamesClear, Renaming, Begun
  <2> QED BY <2>1, <2>2 DEF RenamesClear
<1>6. \A verb : Open(verb)' <=> Open(verb)
  BY <1>1 DEF Open, Free
<1>7. InStep'
  <2>1. server.name # kept.name => NobodyGoesBy(server.name)'
    BY <1>1 DEF SettingsInv, InStep, NobodyGoesBy
  <2> QED BY <1>6, <2>1 DEF SettingsInv, InStep
<1>8. CeilingIsOnGrid'
  BY DEF SettingsInv, CeilingIsOnGrid
<1> QED BY <1>2, <1>3, <1>4, <1>5, <1>7, <1>8 DEF SettingsInv

\* A call that ends, done or not, leaves everything open that was and nothing else behind:
\* the row and the server are as they were and what it did is torn.
LEMMA EndHolds ==
    ASSUME SettingsAssumption, SettingsInv,
           NEW c \in Caller, Ends(c), Given(c) \/ (holder' = holder /\ ~Begun(c)),
           torn \subseteq torn', Begun(c) /\ calls[c].at = "landed" => calls[c].verb \in torn',
           UNCHANGED <<kept, server>>
    PROVE  SettingsInv'
<1>1. /\ calls \in [Caller -> AnyCall] /\ calls' = [calls EXCEPT ![c] = Free]
      /\ calls'[c] = Free /\ \A d \in Caller : d # c => calls'[d] = calls[d]
  BY DEF SettingsInv, SettingsTyped, Ends
<1>2. SettingsTyped'
  BY <1>1, FreeIsTyped DEF SettingsInv, SettingsTyped, Given
<1>3. \A d \in Caller : Coherent(calls'[d])
  BY <1>1, FreeIsTyped DEF SettingsInv
<1>4. KeysHeld'
  BY <1>1, FreeIsTyped DEF SettingsInv, SettingsTyped, KeysHeld, Begun, Given, Coherent
<1>5. LandedStands'
  BY <1>1, FreeIsTyped DEF SettingsInv, LandedStands, Landed
<1>6. \A n \in PgName : NobodyGoesBy(n) => NobodyGoesBy(n)'
  BY <1>1, FreeIsTyped DEF NobodyGoesBy, SettingsAssumption
<1>7. RenamesClear'
  <2>1. ASSUME NEW d \in Caller, calls'[d].verb = "rename"
        PROVE  d # c /\ calls'[d] = calls[d] /\ calls[d].to \in PgName
    BY <1>1, <2>1, FreeIsTyped DEF SettingsInv, Coherent
  <2>2. \A d \in Caller : Renaming(d)' => NobodyGoesBy(calls[d].to)'
    BY <1>6, <2>1 DEF SettingsInv, RenamesClear, Renaming
  <2>3. \A d \in Caller : calls'[d].verb = "rename" /\ Begun(d)' => Renaming(d)'
    BY <2>1 DEF SettingsInv, RenamesClear, Renaming, Begun
  <2> QED BY <2>1, <2>2, <2>3 DEF RenamesClear
<1>8. \A verb : Open(verb) => Open(verb)'
  BY <1>1 DEF Open, Begun
<1>9. InStep'
  BY <1>2, <1>6, <1>8 DEF SettingsInv, InStep, SettingsTyped, Server
<1>10. CeilingIsOnGrid'
  BY DEF SettingsInv, CeilingIsOnGrid
<1> QED BY <1>2, <1>3, <1>4, <1>5, <1>7, <1>9, <1>10 DEF SettingsInv

-----------------------------------------------------------------------------
LEMMA PatchSizeHolds ==
    ASSUME SettingsAssumption, SettingsInv, NEW want \in Gib, PatchSize(want)
    PROVE  SettingsInv'
<1>1. \/ kept' = kept
      \/ kept' = [kept EXCEPT !.gib = want]
  BY DEF PatchSize, Resized
<1>2. /\ kept' \in KeptRow /\ kept'.name = kept.name /\ kept'.url = kept.url
      /\ kept'.limits = kept.limits
  BY <1>1 DEF SettingsInv, SettingsTyped, KeptRow, Size
<1>3. SettingsTyped' /\ \A c \in Caller : Coherent(calls'[c])
  BY <1>2 DEF PatchSize, SettingsInv, SettingsTyped
<1>4. KeysHeld' /\ LandedStands' /\ CeilingIsOnGrid'
  BY DEF PatchSize, SettingsInv, KeysHeld, Begun, LandedStands, Landed, CeilingIsOnGrid
<1>5. RenamesClear'
  BY <1>2 DEF PatchSize, SettingsInv, RenamesClear, Renaming, Begun, NobodyGoesBy
<1>6. InStep'
  BY <1>2 DEF PatchSize, SettingsInv, InStep, Open, NobodyGoesBy
<1> QED BY <1>3, <1>4, <1>5, <1>6 DEF SettingsInv

LEMMA AsksHold ==
    ASSUME SettingsAssumption, SettingsInv, ~TakesBack, NEW c \in Caller,
           \/ \E cpu \in Cpu \cup {Unsaid}, mb \in Memory \cup {Unsaid}, want \in Gib :
                 PatchLimits(c, cpu, mb, want)
           \/ \E pw \in Password : AskPassword(c, pw)
           \/ \E new \in PgName : RequestRename(c, new)
    PROVE  SettingsInv'
<1>0. /\ kept.name \in PgName /\ kept.gib \in Size
      /\ kept.limits.memoryMb \in Nat
      /\ Free.limits \in Ceiling
      /\ Free.gib \in Size \cup {0} /\ Free.want \in Size \cup {0} /\ Free.to = Unsaid
  BY DEF SettingsInv, SettingsTyped, KeptRow, Ceiling, Free, Unlimited
<1>1. ASSUME NEW cpu \in Cpu \cup {Unsaid}, NEW mb \in Memory \cup {Unsaid}, NEW want \in Gib,
             PatchLimits(c, cpu, mb, want)
      PROVE  SettingsInv'
  <2>1. PICK limits : /\ limits \in Ceiling /\ OnGrid(limits)
                      /\ Start(c, [Free EXCEPT !.verb = "limits", !.at = "queued", !.on = kept.name,
                                               !.limits = limits, !.gib = kept.gib, !.want = want])
    <3> DEFINE withCpu == IF cpu # Unsaid THEN Snapped(cpu)
                          ELSE IF kept.limits # Unlimited THEN kept.limits.cpu ELSE Unsaid
               withMb == IF mb # Unsaid THEN mb ELSE kept.limits.memoryMb
    <3>1. withMb \in Nat
      BY <1>0 DEF SettingsAssumption
    <3>2. \E limits \in Accepted(withCpu, withMb) :
             Start(c, [Free EXCEPT !.verb = "limits", !.at = "queued", !.on = kept.name,
                                   !.limits = limits, !.gib = kept.gib, !.want = want])
      BY <1>1 DEF PatchLimits
    <3> HIDE DEF withCpu, withMb
    <3> QED BY <3>1, <3>2, AcceptedIsOnGrid
  <2> DEFINE call == [Free EXCEPT !.verb = "limits", !.at = "queued", !.on = kept.name,
                                  !.limits = limits, !.gib = kept.gib, !.want = want]
  <2>3. call \in AnyCall /\ call.at = "queued" /\ call.on = kept.name /\ call.verb = "limits"
        /\ call.limits = limits
    BY <1>0, <2>1, FreeIsTyped DEF AnyCall, Size, Free
  <2>4. Coherent(call)
    BY <1>0, <2>1, <2>3 DEF Coherent
  <2> HIDE DEF call
  <2> QED BY <1>1, <2>1, <2>3, <2>4, StartHolds DEF PatchLimits, call
<1>2. ASSUME NEW pw \in Password, AskPassword(c, pw) PROVE SettingsInv'
  <2> DEFINE call == [Free EXCEPT !.verb = "password", !.at = "queued", !.on = kept.name, !.to = pw]
  <2>1. call \in AnyCall /\ call.at = "queued" /\ call.on = kept.name /\ call.verb = "password"
        /\ call.to = pw
    BY <1>0, FreeIsTyped DEF AnyCall, Free
  <2>2. Coherent(call)
    BY <1>0, <2>1 DEF Coherent
  <2> HIDE DEF call
  <2> QED BY <1>2, <2>1, <2>2, StartHolds DEF AskPassword, call
<1>3. ASSUME NEW new \in PgName, RequestRename(c, new) PROVE SettingsInv'
  <2> DEFINE call == [Free EXCEPT !.verb = "rename", !.at = "queued", !.on = kept.name, !.to = new]
  <2>1. call \in AnyCall /\ call.at = "queued" /\ call.on = kept.name /\ call.verb = "rename"
        /\ call.to = new
    BY <1>0, FreeIsTyped DEF AnyCall, Free
  <2>2. Coherent(call) /\ NobodyGoesBy(call.to)
    BY <1>0, <1>3, <2>1 DEF Coherent, RequestRename, NobodyGoesBy
  <2> HIDE DEF call
  <2> QED BY <1>3, <2>1, <2>2, StartHolds DEF RequestRename, call
<1> QED BY <1>1, <1>2, <1>3

LEMMA GoesHolds ==
    ASSUME SettingsAssumption, SettingsInv, NEW c \in Caller, Goes(c)
    PROVE  SettingsInv'
<1>1. /\ calls[c].at = "queued" /\ holder[calls[c].on] = Unsaid
      /\ calls[c].verb = "rename" => kept.name = calls[c].on /\ calls[c].to # calls[c].on
      /\ UNCHANGED <<kept, server, torn>>
  BY DEF Goes, Turn
<1>2. /\ calls' = [calls EXCEPT ![c].at = "docker"] /\ calls \in [Caller -> AnyCall]
      /\ holder' = [holder EXCEPT ![calls[c].on] = c]
      /\ holder \in [PgName -> Caller \cup {Unsaid}]
  BY DEF Goes, SettingsInv, SettingsTyped
<1>3. /\ calls'[c] = [calls[c] EXCEPT !.at = "docker"] /\ calls'[c] \in AnyCall
      /\ calls'[c].at = "docker" /\ calls'[c].verb = calls[c].verb
      /\ calls'[c].on = calls[c].on /\ calls'[c].to = calls[c].to
      /\ calls'[c].limits = calls[c].limits
      /\ \A d \in Caller : d # c => calls'[d] = calls[d]
  BY <1>2 DEF AnyCall
<1>4. calls[c].on \in PgName /\ Coherent(calls'[c])
  BY <1>1, <1>3 DEF SettingsInv, Coherent
<1>5. SettingsTyped'
  BY <1>1, <1>2, <1>3, <1>4 DEF SettingsInv, SettingsTyped
<1>6. \A d \in Caller : Coherent(calls'[d])
  BY <1>3, <1>4 DEF SettingsInv
<1>7. KeysHeld'
  <2>1. ASSUME NEW d \in Caller, Begun(d)' PROVE holder'[calls'[d].on] = d
    <3>1. CASE d = c
      BY <1>2, <1>3, <1>4, <3>1
    <3>2. CASE d # c
      <4>1. holder[calls[d].on] = d /\ calls[d].on # calls[c].on
        BY <1>1, <1>3, <2>1, <3>2 DEF SettingsInv, KeysHeld, Begun, SettingsAssumption
      <4> QED BY <1>2, <1>3, <3>2, <4>1
    <3> QED BY <3>1, <3>2
  <2> QED BY <2>1 DEF KeysHeld
<1>8. \A d \in Caller : /\ calls'[d].on = calls[d].on /\ calls'[d].to = calls[d].to
                         /\ calls'[d].verb = calls[d].verb
  BY <1>3
<1>9. RenamesClear'
  <2>1. \A d \in Caller : Renaming(d)' <=> Renaming(d)
    BY <1>1, <1>8 DEF Renaming
  <2>2. \A d \in Caller : calls'[d].verb = "rename" /\ Begun(d)' => Renaming(d)'
    BY <1>1, <1>3, <2>1 DEF SettingsInv, RenamesClear, Renaming, Begun
  <2>3. \A d \in Caller : Renaming(d)' => NobodyGoesBy(calls[d].to)'
    BY <1>8, <2>1 DEF SettingsInv, RenamesClear, NobodyGoesBy
  <2> QED BY <2>2, <2>3 DEF RenamesClear
<1>10. LandedStands'
  <2>1. \A d \in Caller : calls'[d].at = "landed" => calls'[d] = calls[d]
    BY <1>3
  <2> QED BY <1>1, <2>1 DEF SettingsInv, LandedStands, Landed
<1>11. \A verb : Open(verb)' <=> Open(verb)
  BY <1>1, <1>3 DEF Open
<1>12. InStep' /\ CeilingIsOnGrid'
  BY <1>1, <1>8, <1>11 DEF SettingsInv, InStep, NobodyGoesBy, CeilingIsOnGrid
<1> QED BY <1>5, <1>6, <1>7, <1>9, <1>10, <1>12 DEF SettingsInv

LEMMA EndsHold ==
    ASSUME SettingsAssumption, SettingsInv, NEW c \in Caller,
           Refused(c) \/ GoesWrong(c) \/ LoseReply(c)
    PROVE  SettingsInv'
<1>1. CASE Refused(c)
  BY <1>1, EndHolds DEF Refused, Turn, Begun
<1>2. CASE GoesWrong(c)
  BY <1>2, EndHolds DEF GoesWrong
<1>3. CASE LoseReply(c)
  BY <1>3, EndHolds DEF LoseReply
<1> QED BY <1>1, <1>2, <1>3

LEMMA SettingsKillHolds == ASSUME SettingsAssumption, SettingsInv, Kill PROVE SettingsInv'
<1>1. /\ \A c \in Caller : calls'[c] = Free
      /\ \A c \in Caller : calls[c].at = "landed" => calls[c].verb \in torn'
      /\ torn \subseteq torn' /\ UNCHANGED <<kept, server>>
  BY DEF Kill
<1>2. SettingsTyped' /\ \A c \in Caller : Coherent(calls'[c])
  BY <1>1, FreeIsTyped DEF Kill, SettingsInv, SettingsTyped
<1>3. KeysHeld' /\ LandedStands' /\ RenamesClear'
  BY <1>1, FreeIsTyped DEF KeysHeld, Begun, LandedStands, Landed, RenamesClear, Renaming
<1>4. server.name \in PgName
  BY DEF SettingsInv, SettingsTyped, Server
<1>5. InStep' /\ CeilingIsOnGrid'
  BY <1>1, <1>4, FreeIsTyped
     DEF SettingsInv, InStep, Open, NobodyGoesBy, CeilingIsOnGrid, SettingsAssumption
<1> QED BY <1>2, <1>3, <1>5 DEF SettingsInv

\* Two calls are never both at work on the container.
LEMMA OneAtWork ==
    ASSUME SettingsInv, NEW c \in Caller, NEW d \in Caller, calls[c].at = "landed", Begun(d),
           calls[d].at = "landed" \/ server.name = calls[d].on
    PROVE  c = d
<1>1. calls[c].on = calls[d].on => c = d
  BY DEF SettingsInv, KeysHeld, Begun
<1>2. ASSUME NEW e \in Caller, calls[e].at = "landed", calls[e].verb = "rename"
      PROVE  /\ server.name = calls[e].to /\ calls[e].on = kept.name
             /\ \A f \in Caller : calls[f].on # server.name
  BY <1>2 DEF SettingsInv, RenamesClear, Renaming, Begun, LandedStands, Landed, NobodyGoesBy
<1>3. ASSUME NEW e \in Caller, calls[e].at = "landed", calls[e].verb # "rename"
      PROVE  server.name = calls[e].on
  BY <1>3 DEF SettingsInv, SettingsTyped, AnyCall, Coherent, LandedStands, Landed
<1> QED BY <1>1, <1>2, <1>3

LEMMA TakesEffectHolds ==
    ASSUME SettingsAssumption, SettingsInv, NEW c \in Caller, TakesEffect(c)
    PROVE  SettingsInv'
<1>1. /\ calls[c].at = "docker" /\ server.name = calls[c].on
      /\ UNCHANGED <<kept, holder, torn>>
  BY DEF TakesEffect
<1>2. \A d \in Caller : calls[d].at # "landed"
  BY <1>1, OneAtWork DEF Begun
<1>3. /\ calls' = [calls EXCEPT ![c].at = "landed"] /\ calls \in [Caller -> AnyCall]
      /\ server \in Server
  BY DEF TakesEffect, SettingsInv, SettingsTyped
<1>4. /\ calls'[c] \in AnyCall
      /\ calls'[c].at = "landed" /\ calls'[c].verb = calls[c].verb
      /\ calls'[c].on = calls[c].on /\ calls'[c].to = calls[c].to
      /\ calls'[c].limits = calls[c].limits
      /\ \A d \in Caller : d # c => calls'[d] = calls[d]
  BY <1>3 DEF AnyCall
<1>5. Coherent(calls[c]) /\ calls[c].verb \in {"limits", "password", "rename"}
  BY <1>1, <1>3 DEF SettingsInv, Coherent, AnyCall
<1>6. Coherent(calls'[c])
  BY <1>1, <1>4, <1>5 DEF Coherent
<1>7. \A d \in Caller : /\ calls'[d].on = calls[d].on /\ calls'[d].to = calls[d].to
                         /\ calls'[d].verb = calls[d].verb
  BY <1>4
<1>8. /\ server' \in Server
      /\ calls[c].verb = "limits" => server' = [server EXCEPT !.limits = calls[c].limits]
      /\ calls[c].verb = "password" => server' = [server EXCEPT !.password = calls[c].to]
      /\ calls[c].verb = "rename" => server' = [server EXCEPT !.name = calls[c].to]
  <2>1. /\ calls[c].verb = "limits" => server' = [server EXCEPT !.limits = calls[c].limits]
        /\ calls[c].verb = "password" => server' = [server EXCEPT !.password = calls[c].to]
        /\ calls[c].verb = "rename" => server' = [server EXCEPT !.name = calls[c].to]
    BY <1>5 DEF TakesEffect
  <2>2. calls[c].limits \in Ceiling
    BY <1>3 DEF AnyCall
  <2> QED BY <1>3, <1>5, <2>1, <2>2 DEF Coherent, Server
<1>9. SettingsTyped' /\ (\A d \in Caller : Coherent(calls'[d]))
  BY <1>1, <1>3, <1>4, <1>6, <1>8 DEF SettingsInv, SettingsTyped
<1>10. KeysHeld'
  BY <1>1, <1>4 DEF SettingsInv, KeysHeld, Begun
<1>11. RenamesClear'
  <2>1. \A d \in Caller : Renaming(d)' <=> Renaming(d)
    BY <1>1, <1>7 DEF Renaming
  <2>2. \A d \in Caller : Begun(d)' <=> Begun(d)
    BY <1>1, <1>4 DEF Begun
  <2>3. \A d \in Caller : Renaming(d)' => NobodyGoesBy(calls[d].to)'
    BY <1>7, <2>1 DEF SettingsInv, RenamesClear, NobodyGoesBy
  <2>4. \A d \in Caller : calls'[d].verb = "rename" /\ Begun(d)' => Renaming(d)'
    BY <1>7, <2>1, <2>2 DEF SettingsInv, RenamesClear
  <2> QED BY <2>3, <2>4 DEF RenamesClear
<1>12. \A d \in Caller : calls'[d].at = "landed" => d = c
  BY <1>2, <1>4
<1>13. LandedStands'
  BY <1>1, <1>3, <1>4, <1>8, <1>12 DEF LandedStands, Landed, Server
<1>14. \A verb : Open(verb)' <=> verb \in torn \/ verb = calls[c].verb
  BY <1>1, <1>4, <1>12 DEF Open
<1>15. \A verb : Open(verb) <=> verb \in torn
  BY <1>2 DEF Open
<1>16. InStep'
  <2>1. CASE calls[c].verb = "rename"
    <3>1. server'.name = calls[c].to /\ server'.limits = server.limits
          /\ server'.password = server.password
      BY <1>3, <1>8, <2>1 DEF Server
    <3>2. NobodyGoesBy(calls[c].to)
      BY <1>1, <2>1 DEF SettingsInv, RenamesClear, Begun
    <3> QED BY <1>1, <1>7, <1>14, <1>15, <2>1, <3>1, <3>2 DEF SettingsInv, InStep, NobodyGoesBy
  <2>2. CASE calls[c].verb = "limits"
    <3>1. server'.name = server.name /\ server'.password = server.password
      BY <1>3, <1>8, <2>2 DEF Server
    <3> QED BY <1>1, <1>7, <1>14, <1>15, <2>2, <3>1 DEF SettingsInv, InStep, NobodyGoesBy
  <2>3. CASE calls[c].verb = "password"
    <3>1. server'.name = server.name /\ server'.limits = server.limits
      BY <1>3, <1>8, <2>3 DEF Server
    <3> QED BY <1>1, <1>7, <1>14, <1>15, <2>3, <3>1 DEF SettingsInv, InStep, NobodyGoesBy
  <2> QED BY <1>5, <2>1, <2>2, <2>3
<1>17. CeilingIsOnGrid'
  BY <1>3, <1>5, <1>8 DEF SettingsInv, CeilingIsOnGrid, Server, Coherent
<1> QED BY <1>9, <1>10, <1>11, <1>13, <1>16, <1>17 DEF SettingsInv

LEMMA IsNotedHolds ==
    ASSUME SettingsAssumption, SettingsInv, NEW c \in Caller, IsNoted(c)
    PROVE  SettingsInv'
<1>1. /\ calls[c].at = "landed" /\ Ends(c) /\ Given(c) /\ server' = server
      /\ torn' = torn \ {calls[c].verb}
  BY DEF IsNoted
<1>2. /\ calls \in [Caller -> AnyCall] /\ kept \in KeptRow /\ server \in Server
      /\ calls'[c] = Free /\ \A d \in Caller : d # c => calls'[d] = calls[d]
  BY <1>1 DEF SettingsInv, SettingsTyped, Ends
<1>3. calls[c].verb \in {"limits", "password", "rename"} /\ calls[c].on \in PgName
      /\ Coherent(calls[c])
  BY <1>1, <1>2 DEF SettingsInv, Coherent, AnyCall
<1>4. \A d \in Caller : calls[d].at = "landed" => d = c
  BY <1>1, OneAtWork DEF Begun
<1>5. \A d \in Caller : calls'[d].at # "landed"
  BY <1>2, <1>4, FreeIsTyped
<1>14. \A verb : Open(verb)' <=> (verb \in torn /\ verb # calls[c].verb)
  BY <1>1, <1>5 DEF Open
<1>15. \A verb : Open(verb) <=> (verb \in torn \/ verb = calls[c].verb)
  BY <1>1, <1>4 DEF Open
<1>6. /\ calls[c].verb # "rename" => kept.name = calls[c].on /\ server.name = calls[c].on
      /\ calls[c].verb = "rename" =>
            /\ Renaming(c) /\ NobodyGoesBy(calls[c].to) /\ server.name = calls[c].to
            /\ kept.url.host = calls[c].on
  <2>1. CASE calls[c].verb # "rename"
    <3>1. server.name = calls[c].on
      BY <1>1, <1>3, <2>1 DEF SettingsInv, LandedStands, Landed
    <3>2. ~NobodyGoesBy(server.name)
      BY <3>1 DEF NobodyGoesBy
    <3> QED BY <2>1, <3>1, <3>2 DEF SettingsInv, InStep
  <2>2. CASE calls[c].verb = "rename"
    BY <1>1, <2>2 DEF SettingsInv, RenamesClear, Begun, Renaming, LandedStands, Landed, InStep
  <2> QED BY <2>1, <2>2
<1>7. /\ kept' \in KeptRow
      /\ calls[c].verb = "limits" =>
            kept'.name = kept.name /\ kept'.url = kept.url /\ kept'.limits = calls[c].limits
      /\ calls[c].verb = "password" =>
            /\ kept'.name = kept.name /\ kept'.limits = kept.limits
            /\ kept'.url = [host |-> kept.name, password |-> calls[c].to]
      /\ calls[c].verb = "rename" =>
            /\ kept'.name = calls[c].to /\ kept'.limits = kept.limits
            /\ kept'.url = [host |-> calls[c].to, password |-> kept.url.password]
  <2>1. CASE calls[c].verb = "limits"
    <3>1. \/ kept' = [kept EXCEPT !.limits = calls[c].limits]
          \/ /\ kept' = [[kept EXCEPT !.limits = calls[c].limits] EXCEPT !.gib = calls[c].want]
             /\ calls[c].want # 0
      BY <1>6, <2>1 DEF IsNoted, Grows
    <3>2. calls[c].limits \in Ceiling /\ calls[c].want \in Size \cup {0}
      BY <1>2 DEF AnyCall
    <3> QED BY <1>2, <2>1, <3>1, <3>2 DEF KeptRow
  <2>2. CASE calls[c].verb = "password"
    <3>1. kept' = [kept EXCEPT !.url = [host |-> calls[c].on, password |-> calls[c].to]]
      BY <1>6, <2>2 DEF IsNoted
    <3> QED BY <1>2, <1>3, <1>6, <2>2, <3>1 DEF KeptRow, Coherent
  <2>3. CASE calls[c].verb = "rename"
    <3>1. kept' = [kept EXCEPT !.name = calls[c].to,
                               !.url = Rehosted(@, calls[c].on, calls[c].to)]
      BY <2>3 DEF IsNoted
    <3>2. Rehosted(kept.url, calls[c].on, calls[c].to)
             = [host |-> calls[c].to, password |-> kept.url.password]
      BY <1>2, <1>6, <2>3 DEF Rehosted, KeptRow
    <3>3. calls[c].to \in PgName /\ kept.url.password \in Password
      BY <1>2, <1>3, <2>3 DEF KeptRow, Coherent
    <3> DEFINE url == [host |-> calls[c].to, password |-> kept.url.password]
    <3>4. kept' = [kept EXCEPT !.name = calls[c].to, !.url = url] /\ url \in [host : PgName, password : Password]
      BY <1>2, <3>1, <3>2, <3>3 DEF KeptRow
    <3> HIDE DEF url
    <3>5. /\ kept' \in KeptRow /\ kept'.name = calls[c].to /\ kept'.limits = kept.limits
          /\ kept'.url = url
      BY <1>2, <3>3, <3>4 DEF KeptRow
    <3> QED BY <2>3, <3>5 DEF url
  <2> QED BY <1>3, <2>1, <2>2, <2>3
<1>8. SettingsTyped' /\ (\A d \in Caller : Coherent(calls'[d]))
  BY <1>1, <1>2, <1>7, FreeIsTyped DEF SettingsInv, SettingsTyped, Ends, Given
<1>9. KeysHeld'
  BY <1>1, <1>2, FreeIsTyped DEF SettingsInv, SettingsTyped, KeysHeld, Begun, Given, Coherent
<1>10. LandedStands'
  BY <1>5 DEF LandedStands, Landed
<1>11. RenamesClear'
  <2>1. ASSUME NEW d \in Caller, calls'[d].verb = "rename"
        PROVE  d # c /\ calls'[d] = calls[d] /\ calls[d].to \in PgName
    BY <1>2, <2>1, FreeIsTyped DEF SettingsInv, Coherent
  <2>2. \A n \in PgName : NobodyGoesBy(n) => NobodyGoesBy(n)'
    BY <1>2, FreeIsTyped DEF NobodyGoesBy, SettingsAssumption
  <2>3. CASE calls[c].verb # "rename"
    <3>1. \A d \in Caller : Renaming(d)' => NobodyGoesBy(calls[d].to)'
      BY <1>3, <1>7, <2>1, <2>2, <2>3 DEF SettingsInv, RenamesClear, Renaming
    <3>2. \A d \in Caller : calls'[d].verb = "rename" /\ Begun(d)' => Renaming(d)'
      BY <1>3, <1>7, <2>1, <2>3 DEF SettingsInv, RenamesClear, Renaming, Begun
    <3> QED BY <2>1, <3>1, <3>2 DEF RenamesClear
  <2>4. CASE calls[c].verb = "rename"
    <3>1. \A d \in Caller : ~Renaming(d)'
      BY <1>6, <1>7, <2>1, <2>4 DEF Renaming, NobodyGoesBy
    <3>2. \A d \in Caller : ~(calls'[d].verb = "rename" /\ Begun(d)')
      BY <1>1, <1>6, <2>1, <2>4 DEF SettingsInv, RenamesClear, Renaming, Begun, KeysHeld
    <3> QED BY <3>1, <3>2 DEF RenamesClear
  <2> QED BY <2>3, <2>4
<1>12. InStep'
  <2>1. CASE calls[c].verb = "rename"
    BY <1>1, <1>6, <1>7, <1>14, <1>15, <2>1 DEF SettingsInv, InStep
  <2>2. CASE calls[c].verb = "limits"
    <3>1. calls[c].limits = server.limits
      BY <1>1, <2>2 DEF SettingsInv, LandedStands, Landed
    <3> QED BY <1>1, <1>6, <1>7, <1>14, <1>15, <2>2, <3>1 DEF SettingsInv, InStep
  <2>3. CASE calls[c].verb = "password"
    <3>1. calls[c].to = server.password
      BY <1>1, <2>3 DEF SettingsInv, LandedStands, Landed
    <3> QED BY <1>1, <1>6, <1>7, <1>14, <1>15, <2>3, <3>1 DEF SettingsInv, InStep
  <2> QED BY <1>3, <2>1, <2>2, <2>3
<1>13. CeilingIsOnGrid'
  BY <1>1 DEF SettingsInv, CeilingIsOnGrid
<1> QED BY <1>8, <1>9, <1>10, <1>11, <1>12, <1>13 DEF SettingsInv

LEMMA SettingsUnchangedHolds ==
    ASSUME SettingsInv, UNCHANGED settingsVars PROVE SettingsInv'
BY DEF settingsVars, SettingsInv, SettingsTyped, KeysHeld, Begun, RenamesClear, Renaming, NobodyGoesBy,
       LandedStands, Landed, InStep, Open, CeilingIsOnGrid

\* Whatever calls overlap and whichever replies are lost, the ceiling, the name and the
\* password shown are the ones in force unless a reply is out or was lost, and the ceiling is
\* on the grid, as long as nobody takes a service back to a name that a call still goes by.
THEOREM SettingsTheorem ==
    ASSUME ~TakesBack PROVE SettingsSpec => []SettingsHold
<1>1. SettingsInit => SettingsInv
  BY SettingsInitHolds, SettingsAssumption
<1>2. SettingsInv /\ [SettingsNext]_settingsVars => SettingsInv'
  <2> SUFFICES ASSUME SettingsInv, [SettingsNext]_settingsVars PROVE SettingsInv'
    OBVIOUS
  <2>1. CASE UNCHANGED settingsVars
    BY <2>1, SettingsUnchangedHolds
  <2>2. ASSUME NEW want \in Gib, PatchSize(want) PROVE SettingsInv'
    BY <2>2, PatchSizeHolds, SettingsAssumption
  <2>3. ASSUME NEW c \in Caller,
               \/ \E cpu \in Cpu \cup {Unsaid}, mb \in Memory \cup {Unsaid}, want \in Gib :
                     PatchLimits(c, cpu, mb, want)
               \/ \E pw \in Password : AskPassword(c, pw)
               \/ \E new \in PgName : RequestRename(c, new)
        PROVE  SettingsInv'
    BY <2>3, AsksHold, SettingsAssumption
  <2>4. ASSUME NEW c \in Caller,
               \/ Goes(c) \/ Refused(c) \/ TakesEffect(c) \/ GoesWrong(c) \/ IsNoted(c)
               \/ LoseReply(c)
        PROVE  SettingsInv'
    BY <2>4, GoesHolds, EndsHold, TakesEffectHolds, IsNotedHolds, SettingsAssumption
  <2>5. CASE Kill
    BY <2>5, SettingsKillHolds, SettingsAssumption
  <2> QED BY <2>1, <2>2, <2>3, <2>4, <2>5 DEF SettingsNext
<1>3. SettingsInv => SettingsHold
  BY DEF SettingsInv, InStep, SettingsHold, CeilingIsInForce, UrlOpens
<1> QED BY <1>1, <1>2, <1>3, PTL DEF SettingsSpec
-----------------------------------------------------------------------------
\* DOMAINS.

Deployment == Site \X Service

DomainsTyped ==
    /\ sites \subseteq Site /\ running \in [Site -> SUBSET Service]
    /\ entry \in [Domain -> Deployment \cup {Nil}]
    /\ meant \in [Domain -> [where : Deployment, lost : BOOLEAN] \cup {Nil}]
    /\ dns \in [Domain -> World]
    /\ check \in [at : {"idle", "cname", "address", "done"}, host : Domain \cup {Nil},
                  where : Deployment \cup {Nil}, ours : BOOLEAN, calm : BOOLEAN,
                  said : {Nil, "not added", "ready", "pending"}]

\* An entry is what was meant, to the letter, also once its group goes by another name.
AsMeant == \A h \in Domain : entry[h] = IF meant[h] = Nil THEN Nil ELSE meant[h].where

\* And what is meant and not lost is deployed.
Deployed(where) == where[1] \in sites /\ where[2] \in running[where[1]]
Standing == \A h \in Domain : meant[h] # Nil /\ ~meant[h].lost => Deployed(meant[h].where)

\* What a status request has seen, while nothing moved.
Resolves == dns[check.host] = "cname" \/ (dns[check.host] = "address" /\ check.ours)

Seen ==
    check.at # "idle" =>
        /\ check.host \in Domain
        /\ check.at # "done" => check.where # Nil
        /\ check.calm /\ check.where # Nil =>
              /\ entry[check.host] = check.where
              /\ check.at = "address" => dns[check.host] # "cname"
              /\ check.at = "done" =>
                    (check.said = "ready" <=> Resolves /\ check.host \in certified)

DomainsInv == DomainsTyped /\ AsMeant /\ Standing /\ NoStrays /\ Seen

\* A deployed hostname is answered by its deployment alone.
LEMMA ExactIsEntry ==
    ASSUME DomainsTyped, NEW h \in Domain, entry[h] # Nil, Deployed(entry[h])
    PROVE  Exact(h) = {entry[h]}
<1>0. entry[h] \in Site \X Service
  BY DEF DomainsTyped, Deployment
<1>1. PICK b \in Site, g \in Service : entry[h] = <<b, g>>
  BY <1>0
<1>2. b \in sites /\ g \in running[b]
  BY <1>1 DEF Deployed
<1>3. /\ h \notin Static /\ \A c \in Site, f \in Service : h # Minted(c, f)
  BY OutsideAssumption
<1>4. ASSUME NEW r \in Routes, h \in r.hosts PROVE r.key = <<b, g>>
  <2>1. CASE \E s \in Static : r = [key |-> s, hosts |-> {s}]
    BY <1>3, <1>4, <2>1
  <2>2. CASE \E c \in sites : \E f \in running[c] :
               r = [key |-> <<c, f>>, hosts |-> {Minted(c, f)} \cup Aliases(c, f)]
    <3>1. PICK c \in sites, f \in Service :
                 r = [key |-> <<c, f>>, hosts |-> {Minted(c, f)} \cup Aliases(c, f)]
      BY <2>2 DEF DomainsTyped
    <3>2. h \in Aliases(c, f)
      BY <1>3, <1>4, <3>1 DEF DomainsTyped
    <3> QED BY <1>1, <3>1, <3>2 DEF Aliases
  <2> QED BY <1>4, <2>1, <2>2 DEF Routes
<1>5. \E r \in Routes : h \in r.hosts /\ r.key = <<b, g>>
  <2> DEFINE r == [key |-> <<b, g>>, hosts |-> {Minted(b, g)} \cup Aliases(b, g)]
  <2>1. r \in {[key |-> <<b, f>>, hosts |-> {Minted(b, f)} \cup Aliases(b, f)] : f \in running[b]}
    BY <1>2
  <2>2. r \in Routes
    BY <1>2, <2>1 DEF Routes
  <2>3. h \in r.hosts /\ r.key = <<b, g>>
    BY <1>1 DEF Aliases
  <2> QED BY <2>2, <2>3
<1> QED BY <1>1, <1>4, <1>5 DEF Exact

\* The daemon's own names are all served.
LEMMA OwnedIsServed ==
    ASSUME DomainsTyped, NEW host \in TableHosts PROVE Served(host)
<1>1. CASE \E b \in sites : \E k \in stored[b] : host = Vhost(k)
  BY <1>1 DEF Served
<1>2. CASE \E r \in Routes : host \in r.hosts
  <2>1. PICK r \in Routes : host \in r.hosts
    BY <1>2
  <2>2. CASE \E s \in Static : r = [key |-> s, hosts |-> {s}]
    BY <2>1, <2>2 DEF Served
  <2>3. CASE \E b \in sites : \E g \in running[b] :
               r = [key |-> <<b, g>>, hosts |-> {Minted(b, g)} \cup Aliases(b, g)]
    <3>1. PICK b \in sites, g \in Service :
                 /\ g \in running[b]
                 /\ r = [key |-> <<b, g>>, hosts |-> {Minted(b, g)} \cup Aliases(b, g)]
      BY <2>3 DEF DomainsTyped
    <3>2. CASE host = Minted(b, g)
      BY <3>1, <3>2 DEF Served
    <3>3. CASE host \in Domain /\ entry[host] = <<b, g>>
      <4>1. b \in Site /\ g \in Service
        BY <3>1 DEF DomainsTyped
      <4>2. entry[host] # Nil
        BY <3>3, <4>1, DomainsAssumption
      <4> QED BY <3>1, <3>3, <4>2 DEF Served
    <3> QED BY <2>1, <3>1, <3>2, <3>3 DEF Aliases
  <2> QED BY <2>1, <2>2, <2>3 DEF Routes
<1>3. host \in (UNION {r.hosts : r \in Routes})
               \cup (UNION {{Vhost(k) : k \in stored[b]} : b \in sites})
  BY Zenon DEF TableHosts
<1>4. \/ host \in UNION {r.hosts : r \in Routes}
      \/ \E s \in {{Vhost(k) : k \in stored[b]} : b \in sites} : host \in s
  BY Zenon, <1>3
<1>5. CASE \E s \in {{Vhost(k) : k \in stored[b]} : b \in sites} : host \in s
  BY <1>1, <1>5
<1>6. CASE host \in UNION {r.hosts : r \in Routes}
  BY <1>2, <1>6
<1> QED BY <1>4, <1>5, <1>6

LEMMA DisturbedSeen ==
    ASSUME DomainsInv, Disturbed
    PROVE  /\ check' \in [at : {"idle", "cname", "address", "done"}, host : Domain \cup {Nil},
                          where : Deployment \cup {Nil}, ours : BOOLEAN, calm : BOOLEAN,
                          said : {Nil, "not added", "ready", "pending"}]
           /\ Seen'
<1>1. check \in [at : {"idle", "cname", "address", "done"}, host : Domain \cup {Nil},
                where : Deployment \cup {Nil}, ours : BOOLEAN, calm : BOOLEAN,
                said : {Nil, "not added", "ready", "pending"}]
  BY DEF DomainsInv, DomainsTyped
<1>2. check' = [check EXCEPT !.calm = (check.at = "idle")]
  BY DEF Disturbed
<1> QED BY <1>1, <1>2 DEF DomainsInv, Seen

\* A step that disturbs requests, keeps every attachment and moves the deployments.
LEMMA MovesHold ==
    ASSUME DomainsInv, Disturbed, sites' \subseteq Site, running' \in [Site -> SUBSET Service],
           dns' \in [Domain -> World], strays' = strays, UNCHANGED <<entry, meant>>,
           \A where \in Deployment : Deployed(where) => Deployed(where)'
    PROVE  DomainsInv'
<1>1. DomainsTyped' /\ Seen'
  BY DisturbedSeen DEF DomainsInv, DomainsTyped
<1>2. AsMeant' /\ NoStrays'
  BY DEF DomainsInv, AsMeant, NoStrays
<1>3. Standing'
  <2> SUFFICES ASSUME NEW h \in Domain, meant[h] # Nil, ~meant[h].lost
               PROVE  Deployed(meant[h].where)'
    BY DEF Standing
  <2>1. meant[h].where \in Deployment /\ Deployed(meant[h].where)
    BY DEF DomainsInv, DomainsTyped, Standing
  <2> QED BY <2>1 DEF Deployed
<1> QED BY <1>1, <1>2, <1>3 DEF DomainsInv

LEMMA DomainsInitHolds == ASSUME DomainsInit PROVE DomainsInv
<1>1. DomainsTyped
  BY DEF DomainsInit, DomainsTyped, World, Quiet
<1> QED BY <1>1 DEF DomainsInit, DomainsInv, AsMeant, Standing, NoStrays, Seen, Quiet

LEMMA SetComputeDomainHolds ==
    ASSUME DomainsInv, NEW h \in Domain, NEW p, NEW b \in Site, NEW g \in Service,
           SetComputeDomain(h, p, b, g)
    PROVE  DomainsInv'
<1> DEFINE where == <<b, g>>
           told == [where |-> where, lost |-> FALSE]
<1>1. where \in Deployment /\ told \in [where : Deployment, lost : BOOLEAN]
  BY DEF Deployment
<1>8. told # Nil
  BY <1>1, DomainsAssumption DEF Deployment
<1>2. /\ entry' = [entry EXCEPT ![h] = where] /\ meant' = [meant EXCEPT ![h] = told]
      /\ b \in sites /\ g \in running[b] /\ Disturbed
      /\ UNCHANGED <<sites, running, dns, strays>>
  BY DEF SetComputeDomain, HasTarget, rowsOf
<1>3. told.where = where /\ ~told.lost /\ where[1] = b /\ where[2] = g
  OBVIOUS
<1> HIDE DEF where, told
<1>4. DomainsTyped' /\ Seen' /\ NoStrays'
  BY <1>1, <1>2, DisturbedSeen DEF DomainsInv, DomainsTyped, NoStrays
<1>5. ASSUME NEW x \in Domain
      PROVE  /\ entry'[x] = IF meant'[x] = Nil THEN Nil ELSE meant'[x].where
             /\ meant'[x] # Nil /\ ~meant'[x].lost => Deployed(meant[x].where)'
  <2>1. CASE x = h
    <3>1. entry'[x] = where /\ meant'[x] = told
      BY <1>2, <2>1 DEF DomainsInv, DomainsTyped
    <3>2. Deployed(where)'
      BY <1>2, <1>3 DEF Deployed
    <3> QED BY <1>3, <1>8, <3>1, <3>2 DEF Deployed
  <2>2. CASE x # h
    <3>1. entry'[x] = entry[x] /\ meant'[x] = meant[x]
      BY <1>2, <2>2 DEF DomainsInv, DomainsTyped
    <3>2. /\ entry[x] = IF meant[x] = Nil THEN Nil ELSE meant[x].where
          /\ meant[x] # Nil /\ ~meant[x].lost => Deployed(meant[x].where)
      BY DEF DomainsInv, AsMeant, Standing
    <3> QED BY <1>2, <3>1, <3>2 DEF Deployed
  <2> QED BY <2>1, <2>2
<1>6. AsMeant'
  BY <1>5 DEF AsMeant
<1>7. Standing'
  BY <1>5 DEF Standing
<1> QED BY <1>4, <1>6, <1>7 DEF DomainsInv

LEMMA RemoveComputeDomainHolds ==
    ASSUME DomainsInv, NEW h \in Domain, NEW p, RemoveComputeDomain(h, p)
    PROVE  DomainsInv'
<1>1. /\ entry' = [entry EXCEPT ![h] = Nil] /\ meant' = [meant EXCEPT ![h] = Nil]
      /\ Disturbed /\ UNCHANGED <<sites, running, dns, strays>>
  BY DEF RemoveComputeDomain, rowsOf
<1>2. DomainsTyped' /\ Seen' /\ NoStrays'
  BY <1>1, DisturbedSeen DEF DomainsInv, DomainsTyped, NoStrays
<1>3. AsMeant' /\ Standing'
  BY <1>1 DEF DomainsInv, DomainsTyped, AsMeant, Standing, Deployed
<1> QED BY <1>2, <1>3 DEF DomainsInv

\* A step that moves neither deployments nor attachments nor, for who asks, the world.
LEMMA ChecksHold ==
    ASSUME DomainsInv, UNCHANGED <<sites, running, entry, meant, dns, strays>>,
           check' \in [at : {"idle", "cname", "address", "done"}, host : Domain \cup {Nil},
                      where : Deployment \cup {Nil}, ours : BOOLEAN, calm : BOOLEAN,
                      said : {Nil, "not added", "ready", "pending"}],
           Seen'
    PROVE  DomainsInv'
<1>1. DomainsTyped'
  BY DEF DomainsInv, DomainsTyped
<1>2. AsMeant' /\ NoStrays'
  BY DEF DomainsInv, AsMeant, NoStrays
<1>3. Standing'
  BY DEF DomainsInv, Standing, Deployed
<1> QED BY <1>1, <1>2, <1>3 DEF DomainsInv

LEMMA AskStatusHolds ==
    ASSUME DomainsInv, NEW h \in Domain, NEW p, AskStatus(h, p) PROVE DomainsInv'
<1> DEFINE asked == [Quiet EXCEPT !.host = h]
<1>1. UNCHANGED <<sites, running, entry, meant, dns, strays>>
  BY DEF AskStatus, rowsOf
<1>2. entry[h] \in Deployment \cup {Nil}
  BY DEF DomainsInv, DomainsTyped
<1>3. CASE check' = [asked EXCEPT !.at = "done", !.said = "not added"]
  <2>1. check' = [at |-> "done", host |-> h, where |-> Nil, ours |-> FALSE,
                  calm |-> TRUE, said |-> "not added"]
    BY <1>3 DEF Quiet
  <2> QED BY <1>1, <2>1, ChecksHold DEF Seen
<1>4. ASSUME NEW ours \in BOOLEAN, entry[h] # Nil,
             check' = [asked EXCEPT !.at = "cname", !.where = entry[h], !.ours = ours]
      PROVE  DomainsInv'
  <2>1. check' = [at |-> "cname", host |-> h, where |-> entry[h], ours |-> ours,
                  calm |-> TRUE, said |-> Nil]
    BY <1>4 DEF Quiet
  <2>2. check' \in [at : {"idle", "cname", "address", "done"}, host : Domain \cup {Nil},
                   where : Deployment \cup {Nil}, ours : BOOLEAN, calm : BOOLEAN,
                   said : {Nil, "not added", "ready", "pending"}]
    BY <1>2, <2>1
  <2>3. Seen'
    BY <1>1, <1>4, <2>1 DEF Seen
  <2> QED BY <1>1, <2>2, <2>3, ChecksHold
<1>5. \/ check' = [asked EXCEPT !.at = "done", !.said = "not added"]
      \/ /\ entry[h] # Nil
         /\ \E resolves \in BOOLEAN :
               check' = [asked EXCEPT !.at = "cname", !.where = entry[h], !.ours = HasIp \/ resolves]
  BY DEF AskStatus
<1>6. \A resolves \in BOOLEAN : (HasIp \/ resolves) \in BOOLEAN
  OBVIOUS
<1> HIDE DEF asked
<1>7. CASE /\ entry[h] # Nil
           /\ \E resolves \in BOOLEAN :
                 check' = [asked EXCEPT !.at = "cname", !.where = entry[h], !.ours = HasIp \/ resolves]
  BY <1>4, <1>6, <1>7
<1> QED BY <1>3, <1>5, <1>7

LEMMA LookUpHolds == ASSUME DomainsInv, LookUpCname \/ LookUpAddress PROVE DomainsInv'
<1>1. /\ UNCHANGED <<sites, running, entry, meant, dns, certified, strays>>
      /\ check.at \in {"cname", "address"}
  BY DEF LookUpCname, LookUpAddress, rowsOf
<1>2. /\ check.host \in Domain /\ check.where \in Deployment /\ check.where # Nil
      /\ check.ours \in BOOLEAN /\ dns[check.host] \in World
      /\ check.calm => entry[check.host] = check.where
      /\ check.calm /\ check.at = "address" => dns[check.host] # "cname"
  BY <1>1 DEF DomainsInv, DomainsTyped, Seen
<1>3. check \in [at : {"idle", "cname", "address", "done"}, host : Domain \cup {Nil},
                where : Deployment \cup {Nil}, ours : BOOLEAN, calm : BOOLEAN,
                said : {Nil, "not added", "ready", "pending"}]
  BY DEF DomainsInv, DomainsTyped
<1>4. ASSUME NEW record, Report(record), check.calm => (record = "ok" <=> Resolves)
      PROVE  DomainsInv'
  <2>1. PICK said : /\ said = IF Configured(record, check.host) THEN "ready" ELSE "pending"
                    /\ check' = [check EXCEPT !.at = "done", !.said = said]
    BY <1>4 DEF Report
  <2>2. said \in {"ready", "pending"} /\ (said = "ready" <=> record = "ok" /\ check.host \in certified)
    BY <2>1 DEF Configured
  <2>3. /\ check' \in [at : {"idle", "cname", "address", "done"}, host : Domain \cup {Nil},
                       where : Deployment \cup {Nil}, ours : BOOLEAN, calm : BOOLEAN,
                       said : {Nil, "not added", "ready", "pending"}]
        /\ check'.at = "done" /\ check'.said = said /\ check'.host = check.host
        /\ check'.calm = check.calm /\ check'.where = check.where /\ check'.ours = check.ours
    BY <1>3, <2>1, <2>2
  <2>4. Seen'
    BY <1>1, <1>2, <1>4, <2>2, <2>3 DEF Seen, Resolves
  <2> QED BY <1>1, <2>3, <2>4, ChecksHold
<1>5. CASE LookUpCname
  <2>1. CASE dns[check.host] = "cname"
    <3>1. Report("ok") /\ Resolves
      BY <1>5, <2>1 DEF LookUpCname, Resolves
    <3> QED BY <1>4, <3>1
  <2>2. CASE dns[check.host] # "cname"
    <3>1. check' = [check EXCEPT !.at = "address"]
      BY <1>5, <2>2 DEF LookUpCname
    <3>2. /\ check' \in [at : {"idle", "cname", "address", "done"}, host : Domain \cup {Nil},
                         where : Deployment \cup {Nil}, ours : BOOLEAN, calm : BOOLEAN,
                         said : {Nil, "not added", "ready", "pending"}]
          /\ check'.at = "address" /\ check'.host = check.host
          /\ check'.calm = check.calm /\ check'.where = check.where
      BY <1>3, <3>1
    <3>3. Seen'
      BY <1>1, <1>2, <2>2, <3>2 DEF Seen
    <3> QED BY <1>1, <3>2, <3>3, ChecksHold
  <2> QED BY <2>1, <2>2
<1>6. CASE LookUpAddress
  <2>1. Report(AddressRecord(dns[check.host]))
    BY <1>6 DEF LookUpAddress
  <2>2. check.calm => (AddressRecord(dns[check.host]) = "ok" <=> Resolves)
    BY <1>2, <1>6 DEF LookUpAddress, AddressRecord, Resolves, World
  <2> QED BY <1>4, <2>1, <2>2
<1> QED BY <1>5, <1>6

LEMMA ReportedHolds == ASSUME DomainsInv, Reported PROVE DomainsInv'
BY ChecksHold DEF Reported, Quiet, Seen, rowsOf

-----------------------------------------------------------------------------
LEMMA DeploysHold ==
    ASSUME DomainsInv, NEW b \in Site,
           \/ \E g \in Service : DeployGroup(b, g)
           \/ \E source \in Site : ForkSite(source, b)
    PROVE  DomainsInv'
<1>1. sites \subseteq Site /\ running \in [Site -> SUBSET Service] /\ dns \in [Domain -> World]
  BY DEF DomainsInv, DomainsTyped
<1>2. \A where \in Deployment : where[1] \in Site
  BY DEF Deployment
<1>3. ASSUME NEW g \in Service, DeployGroup(b, g) PROVE DomainsInv'
  <2>1. /\ running' = [running EXCEPT ![b] = running[b] \cup {g}]
        /\ Disturbed /\ UNCHANGED <<sites, dns, strays, entry, meant>>
    BY <1>3 DEF DeployGroup
  <2>2. running' \in [Site -> SUBSET Service] /\ \A c \in Site : running[c] \subseteq running'[c]
    BY <1>1, <2>1
  <2>3. \A where \in Deployment : Deployed(where) => Deployed(where)'
    BY <1>2, <2>1, <2>2 DEF Deployed
  <2> QED BY <1>1, <2>1, <2>2, <2>3, MovesHold
<1>4. ASSUME NEW source \in Site, ForkSite(source, b) PROVE DomainsInv'
  <2>1. /\ running' = [running EXCEPT ![b] = running[source]]
        /\ b \notin sites /\ sites' = sites \cup {b}
        /\ Disturbed /\ UNCHANGED <<dns, strays, entry, meant>>
    BY <1>4 DEF ForkSite
  <2>2. running' \in [Site -> SUBSET Service] /\ sites' \subseteq Site
    BY <1>1, <2>1
  <2>3. \A where \in Deployment : Deployed(where) => Deployed(where)'
    BY <1>1, <1>2, <2>1 DEF Deployed
  <2> QED BY <1>1, <2>1, <2>2, <2>3, MovesHold
<1> QED BY <1>3, <1>4

LEMMA MoveHolds ==
    ASSUME DomainsInv, NEW h \in Domain, NEW to \in World, Move(h, to) PROVE DomainsInv'
<1>1. /\ dns' = [dns EXCEPT ![h] = to]
      /\ Disturbed /\ UNCHANGED <<sites, running, strays, entry, meant>>
  BY DEF Move, rowsOf
<1>2. sites \subseteq Site /\ running \in [Site -> SUBSET Service] /\ dns' \in [Domain -> World]
  BY <1>1 DEF DomainsInv, DomainsTyped
<1>3. \A where \in Deployment : Deployed(where) => Deployed(where)'
  BY <1>1 DEF Deployed
<1> QED BY <1>1, <1>2, <1>3, MovesHold

LEMMA BucketedHolds ==
    ASSUME DomainsInv, NEW b \in Site, NEW some, Bucketed(b, some) PROVE DomainsInv'
BY DEF Bucketed, DomainsInv, DomainsTyped, AsMeant, Standing, Deployed, NoStrays, Seen, Resolves

\* Whoever asks before a handshake, the daemon answers for what it serves alone.
LEMMA TlsAskHolds ==
    ASSUME DomainsInv, NEW host, TlsAsk(host) PROVE DomainsInv'
<1>1. /\ Disturbed /\ UNCHANGED <<sites, running, dns, entry, meant>>
      /\ OwnsHostname(host) /\ strays' = IF Served(host) THEN strays ELSE strays \cup {host}
  BY DEF TlsAsk, rowsOf
<1>2. strays' = strays
  BY <1>1, OwnedIsServed DEF OwnsHostname, DomainsInv
<1>3. sites \subseteq Site /\ running \in [Site -> SUBSET Service] /\ dns \in [Domain -> World]
  BY DEF DomainsInv, DomainsTyped
<1>4. \A where \in Deployment : Deployed(where) => Deployed(where)'
  BY <1>1 DEF Deployed
<1> QED BY <1>1, <1>2, <1>3, <1>4, MovesHold

-----------------------------------------------------------------------------
\* What ends deployments ends what was meant of them, and nothing else.
LEMMA EndingsHold ==
    ASSUME DomainsInv, NEW b \in Site, NEW groups \in SUBSET Service,
           Release(b, groups), Ended(b, groups), Disturbed,
           sites' \subseteq Site, running' \in [Site -> SUBSET Service],
           UNCHANGED <<dns, strays>>,
           \A c \in Site, g \in Service :
              c \in sites /\ g \in running[c] /\ ~(c = b /\ g \in groups)
                 => c \in sites' /\ g \in running'[c]
    PROVE  DomainsInv'
<1>1. /\ entry \in [Domain -> Deployment \cup {Nil}]
      /\ meant \in [Domain -> [where : Deployment, lost : BOOLEAN] \cup {Nil}]
      /\ dns \in [Domain -> World]
  BY DEF DomainsInv, DomainsTyped
<1>2. ASSUME NEW h \in Domain, meant[h] # Nil
      PROVE  \E c \in Site, g \in Service :
                meant[h].where = <<c, g>> /\ entry[h] = <<c, g>> /\ entry[h] # Nil
  <2>1. meant[h].where \in Deployment /\ entry[h] = meant[h].where
    BY <1>1, <1>2 DEF DomainsInv, AsMeant
  <2> QED BY <2>1, DomainsAssumption DEF Deployment
<1>3. ASSUME NEW h \in Domain
      PROVE  /\ entry'[h] \in Deployment \cup {Nil}
             /\ meant'[h] \in [where : Deployment, lost : BOOLEAN] \cup {Nil}
             /\ entry'[h] = IF meant'[h] = Nil THEN Nil ELSE meant'[h].where
             /\ meant'[h] # Nil /\ ~meant'[h].lost => Deployed(meant[h].where)'
  <2>1. /\ entry'[h] = IF h \in Freed(b, groups) THEN Nil ELSE entry[h]
        /\ meant'[h] = IF meant[h] # Nil /\ meant[h].where \in {<<b, g>> : g \in groups}
                      THEN Nil ELSE meant[h]
    BY DEF Release, Ended
  <2>2. CASE meant[h] = Nil
    <3>1. entry[h] = Nil
      BY <2>2 DEF DomainsInv, AsMeant
    <3> QED BY <2>1, <2>2, <3>1
  <2>3. CASE meant[h] # Nil
    <3>1. PICK c \in Site, g \in Service :
             meant[h].where = <<c, g>> /\ entry[h] = <<c, g>> /\ entry[h] # Nil
      BY <1>2, <2>3
    <3>2. CASE c = b /\ g \in groups
      <4>1. h \in Freed(b, groups) /\ meant[h].where \in {<<b, f>> : f \in groups}
        BY <3>1, <3>2 DEF Freed
      <4> QED BY <2>1, <2>3, <4>1
    <3>3. CASE ~(c = b /\ g \in groups)
      <4>1. h \notin Freed(b, groups) /\ meant[h].where \notin {<<b, f>> : f \in groups}
        BY <3>1, <3>3 DEF Freed
      <4>2. entry'[h] = entry[h] /\ meant'[h] = meant[h]
        BY <2>1, <4>1
      <4>3. ~meant[h].lost => c \in sites /\ g \in running[c]
        BY <2>3, <3>1 DEF DomainsInv, Standing, Deployed
      <4>4. ~meant[h].lost => Deployed(meant[h].where)'
        BY <3>1, <3>3, <4>2, <4>3 DEF Deployed
      <4> QED BY <1>1, <2>3, <3>1, <4>2, <4>4
    <3> QED BY <3>2, <3>3
  <2> QED BY <2>2, <2>3
<1>4. entry' \in [Domain -> Deployment \cup {Nil}]
  BY <1>3 DEF Release
<1>5. meant' \in [Domain -> [where : Deployment, lost : BOOLEAN] \cup {Nil}]
  BY <1>3 DEF Ended
<1>6. DomainsTyped' /\ Seen'
  BY <1>1, <1>4, <1>5, DisturbedSeen DEF DomainsTyped
<1>7. AsMeant'
  BY <1>3 DEF AsMeant
<1>8. Standing'
  BY <1>3 DEF Standing
<1> QED BY <1>6, <1>7, <1>8 DEF DomainsInv, NoStrays

LEMMA RemoveGroupHolds ==
    ASSUME DomainsInv, NEW b \in Site, NEW g \in Service, RemoveGroup(b, g) PROVE DomainsInv'
<1>1. sites \subseteq Site /\ running \in [Site -> SUBSET Service]
  BY DEF DomainsInv, DomainsTyped
<1>2. /\ running' = [running EXCEPT ![b] = running[b] \ {g}]
      /\ Release(b, {g}) /\ Ended(b, {g}) /\ Disturbed /\ UNCHANGED <<sites, dns, strays>>
  BY DEF RemoveGroup
<1>3. running' \in [Site -> SUBSET Service]
  BY <1>1, <1>2
<1>4. \A c \in Site, f \in Service :
         f \in running[c] /\ ~(c = b /\ f \in {g}) => f \in running'[c]
  BY <1>1, <1>2
<1> QED BY <1>1, <1>2, <1>3, <1>4, EndingsHold

LEMMA DemolishHolds ==
    ASSUME DomainsInv, NEW b \in Site, Demolish(b) PROVE DomainsInv'
<1>1. sites \subseteq Site /\ running \in [Site -> SUBSET Service]
  BY DEF DomainsInv, DomainsTyped
<1>2. /\ running' = [running EXCEPT ![b] = {}] /\ sites' = sites \ {b}
      /\ Release(b, Service) /\ Ended(b, Service) /\ Disturbed /\ UNCHANGED <<dns, strays>>
  BY DEF Demolish
<1>3. running' \in [Site -> SUBSET Service] /\ sites' \subseteq Site
  BY <1>1, <1>2
<1>4. \A c \in Site, f \in Service :
         c \in sites /\ f \in running[c] /\ ~(c = b /\ f \in Service)
            => c \in sites' /\ f \in running'[c]
  BY <1>1, <1>2
<1> QED BY <1>2, <1>3, <1>4, EndingsHold

LEMMA RenameGroupHolds ==
    ASSUME DomainsInv, NEW p, NEW old \in Service, NEW new \in Service, RenameGroup(p, old, new)
    PROVE  DomainsInv'
<1>1. /\ sites \subseteq Site /\ running \in [Site -> SUBSET Service]
      /\ meant \in [Domain -> [where : Deployment, lost : BOOLEAN] \cup {Nil}]
  BY DEF DomainsInv, DomainsTyped
<1>2. /\ Disturbed /\ UNCHANGED <<sites, entry, dns, strays>>
      /\ running' = [b \in Site |->
             IF ProjectOf[b] = p /\ old \in running[b] THEN (running[b] \ {old}) \cup {new} ELSE running[b]]
      /\ meant' = [h \in Domain |->
             IF meant[h] # Nil /\ ProjectOf[meant[h].where[1]] = p /\ meant[h].where[2] = old
             THEN [meant[h] EXCEPT !.lost = TRUE] ELSE meant[h]]
  BY DEF RenameGroup
<1>3. running' \in [Site -> SUBSET Service]
  BY <1>1, <1>2
<1>4. ASSUME NEW b \in Site, NEW g \in Service, g \in running[b], ~(ProjectOf[b] = p /\ g = old)
      PROVE  g \in running'[b]
  BY <1>2, <1>4
<1>5. ASSUME NEW h \in Domain, meant[h] # Nil
      PROVE  /\ meant'[h] \in [where : Deployment, lost : BOOLEAN] /\ meant'[h] # Nil
             /\ meant'[h].where = meant[h].where
             /\ ~meant'[h].lost => ~meant[h].lost /\ Deployed(meant[h].where)'
  <2>1. meant[h] \in [where : Deployment, lost : BOOLEAN]
    BY <1>1, <1>5
  <2>2. PICK b \in Site, g \in Service : meant[h].where = <<b, g>>
    BY <2>1 DEF Deployment
  <2>3. CASE ProjectOf[b] = p /\ g = old
    <3>1. meant'[h] = [meant[h] EXCEPT !.lost = TRUE]
      BY <1>2, <1>5, <2>2, <2>3
    <3>2. meant'[h] \in [where : Deployment, lost : BOOLEAN] /\ meant'[h].lost
          /\ meant'[h].where = meant[h].where
      BY <2>1, <3>1
    <3> QED BY <3>2, DomainsAssumption DEF Deployment
  <2>4. CASE ~(ProjectOf[b] = p /\ g = old)
    <3>1. meant'[h] = meant[h]
      BY <1>2, <2>2, <2>4
    <3>2. ~meant[h].lost => b \in sites /\ g \in running[b]
      BY <1>5, <2>2 DEF DomainsInv, Standing, Deployed
    <3>3. ~meant[h].lost => Deployed(meant[h].where)'
      BY <1>2, <1>4, <2>2, <2>4, <3>1, <3>2 DEF Deployed
    <3> QED BY <1>5, <2>1, <3>1, <3>3
  <2> QED BY <2>3, <2>4
<1>6. \A h \in Domain : meant[h] = Nil => meant'[h] = Nil
  BY <1>2
<1>7. meant' \in [Domain -> [where : Deployment, lost : BOOLEAN] \cup {Nil}]
  BY <1>2, <1>5, <1>6
<1>8. DomainsTyped' /\ Seen'
  BY <1>2, <1>3, <1>7, DisturbedSeen DEF DomainsInv, DomainsTyped
<1>9. AsMeant'
  BY <1>2, <1>5, <1>6 DEF DomainsInv, AsMeant
<1>10. Standing'
  BY <1>5, <1>6 DEF Standing
<1> QED BY <1>2, <1>8, <1>9, <1>10 DEF DomainsInv, NoStrays

LEMMA DomainsUnchangedHolds ==
    ASSUME DomainsInv, UNCHANGED domainsVars PROVE DomainsInv'
BY DEF domainsVars, rowsOf, DomainsInv, DomainsTyped, AsMeant, Standing, Deployed, NoStrays, Seen,
       Resolves

LEMMA DomainsInvImplies == ASSUME DomainsInv PROVE DomainsHold
<1>1. ASSUME NEW h \in Domain, meant[h] # Nil, ~meant[h].lost
      PROVE  entry[h] = meant[h].where /\ Exact(h) = {meant[h].where}
  <2>1. entry[h] = meant[h].where /\ Deployed(meant[h].where) /\ meant[h].where \in Deployment
    BY <1>1 DEF DomainsInv, DomainsTyped, AsMeant, Standing
  <2>2. entry[h] # Nil
    BY <2>1, DomainsAssumption DEF Deployment
  <2> QED BY <2>1, <2>2, ExactIsEntry DEF DomainsInv
<1>2. StaysAttached
  BY <1>1 DEF DomainsInv, AsMeant, StaysAttached
<1>3. VerdictIsTrue
  <2> SUFFICES ASSUME check.at = "done", check.calm, check.where # Nil,
                      meant[check.host] # Nil => ~meant[check.host].lost
               PROVE  check.said = "ready" <=>
                         /\ Exact(check.host) = {check.where}
                         /\ \/ dns[check.host] = "cname"
                            \/ dns[check.host] = "address" /\ check.ours
                         /\ check.host \in certified
    BY DEF VerdictIsTrue
  <2>1. check.host \in Domain /\ entry[check.host] = check.where
        /\ (check.said = "ready" <=> Resolves /\ check.host \in certified)
    BY DEF DomainsInv, Seen
  <2>2. meant[check.host] # Nil
    BY <2>1 DEF DomainsInv, AsMeant
  <2>3. Exact(check.host) = {check.where}
    BY <1>1, <2>1, <2>2
  <2> QED BY <2>1, <2>3 DEF Resolves
<1> QED BY <1>2, <1>3 DEF DomainsHold, DomainsInv

\* Through attaches, detaches, deploys, removals, renames, forks, demolitions, DNS that moves
\* and certificates that are bought, a hostname leads where it was attached to and nowhere
\* else, nothing is vouched for that the box does not serve, and an undisturbed status request
\* is told the truth.
THEOREM DomainsTheorem == DomainsSpec => []DomainsHold
<1>1. DomainsInit => DomainsInv
  BY DomainsInitHolds
<1>2. DomainsInv /\ [DomainsNext]_domainsVars => DomainsInv'
  <2> SUFFICES ASSUME DomainsInv, [DomainsNext]_domainsVars PROVE DomainsInv'
    OBVIOUS
  <2>1. CASE UNCHANGED domainsVars
    BY <2>1, DomainsUnchangedHolds
  <2>2. ASSUME NEW h \in Domain, NEW p \in Project,
               \/ \E b \in Site, g \in Service : SetComputeDomain(h, p, b, g)
               \/ RemoveComputeDomain(h, p) \/ AskStatus(h, p)
        PROVE  DomainsInv'
    BY <2>2, SetComputeDomainHolds, RemoveComputeDomainHolds, AskStatusHolds
  <2>3. CASE LookUpCname \/ LookUpAddress \/ Reported
    BY <2>3, LookUpHolds, ReportedHolds
  <2>4. ASSUME NEW b \in Site, Demolish(b) \/ \E source \in Site : ForkSite(source, b)
        PROVE  DomainsInv'
    BY <2>4, DemolishHolds, DeploysHold
  <2>5. ASSUME NEW b \in Site, NEW g \in Service, DeployGroup(b, g) \/ RemoveGroup(b, g)
        PROVE  DomainsInv'
    BY <2>5, DeploysHold, RemoveGroupHolds
  <2>6. ASSUME NEW p \in Project, NEW g \in Service, NEW new \in Service, RenameGroup(p, g, new)
        PROVE  DomainsInv'
    BY <2>6, RenameGroupHolds
  <2>7. ASSUME NEW b \in Site, NEW some \in SUBSET Bucket, Bucketed(b, some) PROVE DomainsInv'
    BY <2>7, BucketedHolds
  <2>8. ASSUME NEW h \in Domain, NEW to \in World, Move(h, to) PROVE DomainsInv'
    BY <2>8, MoveHolds
  <2>9. ASSUME NEW host \in Host, TlsAsk(host) PROVE DomainsInv'
    BY <2>9, TlsAskHolds
  <2> QED BY <2>1, <2>2, <2>3, <2>4, <2>5, <2>6, <2>7, <2>8, <2>9 DEF DomainsNext
<1>3. DomainsInv => DomainsHold
  BY DomainsInvImplies
<1> QED BY <1>1, <1>2, <1>3, PTL DEF DomainsSpec

-----------------------------------------------------------------------------
\* RUNTIME.

ServiceRow == [desired : Intent, slept : BOOLEAN, scale : BOOLEAN]
State == {"none", "running", "exited", "created", "paused"}
Cause == {"gone", "slept", "up", "stopped", "rebuilt", "provisioned", "died", "unnoted"}
Verb == {"sleep", "wake", "start", "stop", "suspend", "deploy", "clone", "provision", "remove"}

RuntimeTyped ==
    /\ row \in [Unit -> ServiceRow \cup {Unset}]
    /\ pinned \in [Compute -> {Unset, TRUE, FALSE}]
    /\ docker \in [Unit -> State] /\ seen \in [Unit -> State]
    /\ cause \in [Unit -> Cause]
    /\ op \in [Unit -> [verb : Verb, at : {"docker", "landed"}] \cup {Idle}]
    /\ health.at \in {"idle", "listing", "said"}
    /\ health = [at |-> health.at, unit |-> health.unit, row |-> health.row,
                 calm |-> health.calm, cause |-> health.cause, said |-> health.said]
    /\ \A u \in Unit : ~IsCompute(u) => docker[u] # "paused" /\ seen[u] # "paused"

\* What a container does for a reason.
Fits(u) ==
    /\ cause[u] = "gone" => docker[u] = "none"
    /\ cause[u] = "slept" => docker[u] \in {"exited", "created"}
    /\ cause[u] = "stopped" => docker[u] \in {"exited", "paused"}
    /\ cause[u] = "rebuilt" => docker[u] = "created"
    /\ cause[u] \in {"up", "provisioned"} => docker[u] = "running"
    /\ cause[u] = "died" => docker[u] = "exited"
    /\ cause[u] = "provisioned" => ~IsCompute(u)

\* The row of a service nobody is at work on, or whose operation has not touched it yet, has
\* the reason in its intent and its mark, and the snapshot does not say otherwise.
Rested(u) ==
    op[u].at # "landed" /\ row[u] # Unset =>
        /\ cause[u] = "slept" => row[u].slept /\ row[u].desired = "running"
        /\ cause[u] = "slept" => seen[u] \notin {"running", "paused"}
        /\ cause[u] = "stopped" => row[u].desired # "running" /\ seen[u] # "running"
        /\ cause[u] \in {"up", "died", "provisioned"} => ~row[u].slept
        /\ cause[u] = "up" => seen[u] \in {"running", "none"}
        /\ cause[u] = "died" => seen[u] # "paused"

\* What an operation requires of its row stays so: it holds the service's key.
Working(u) ==
    /\ op[u].verb \in {"sleep", "wake"} => row[u] # Unset /\ row[u].desired = "running"
    /\ op[u].verb \in {"start", "stop", "suspend", "remove"} => row[u] # Unset
    /\ op[u].verb \in {"clone", "provision"} => row[u] = Unset
    /\ op[u].verb \in {"start", "stop", "suspend", "deploy", "clone"} => IsCompute(u)
    /\ op[u].verb = "provision" => ~IsCompute(u)

\* And what it has done is what it has to note.
Done(u) ==
    op[u].at = "landed" =>
        /\ op[u].verb \in {"sleep", "clone"} => cause[u] = "slept"
        /\ op[u].verb \in {"wake", "start"} => cause[u] \in {"up", "died"}
        /\ op[u].verb = "stop" => cause[u] \in {"stopped", "rebuilt"} /\ docker[u] # "paused"
        /\ op[u].verb = "suspend" => cause[u] = "stopped" /\ docker[u] = "paused"
        /\ op[u].verb = "deploy" =>
              IF row[u] # Unset /\ row[u].desired = "stopped" THEN cause[u] = "rebuilt"
              ELSE IF row[u] # Unset /\ row[u].desired = "suspended"
                   THEN cause[u] = "stopped" /\ docker[u] = "paused"
              ELSE cause[u] \in {"up", "died"}
        /\ op[u].verb = "provision" => cause[u] \in {"provisioned", "died"}
        /\ op[u].verb = "remove" => cause[u] = "gone"

\* The row that an undisturbed request read is still the service's, as far as it is asked.
Asked ==
    health.at = "listing" =>
        /\ health.unit \in Unit
        /\ health.calm =>
              /\ op[health.unit] = Idle /\ row[health.unit] # Unset
              /\ health.row.slept = row[health.unit].slept
              /\ health.row.desired = row[health.unit].desired

UnitInv(u) == Fits(u) /\ Rested(u) /\ Working(u) /\ Done(u)
RuntimeInv ==
    /\ RuntimeTyped /\ TargetsAreCurrent
    /\ \A u \in Unit : UnitInv(u)
    /\ Asked /\ HealthIsTrue

Same(v) ==
    /\ row'[v] = row[v] /\ docker'[v] = docker[v] /\ seen'[v] = seen[v]
    /\ cause'[v] = cause[v] /\ op'[v] = op[v]

LEMMA SameHolds == ASSUME NEW v \in Unit, UnitInv(v), Same(v) PROVE UnitInv(v)'
BY DEF Same, UnitInv, Fits, Rested, Working, Done

LEMMA DisturbHolds ==
    ASSUME RuntimeInv, NEW u \in Unit, Disturb(u), \A v \in Unit \ {u} : Same(v)
    PROVE  /\ health'.at = health.at
           /\ health' = [at |-> health'.at, unit |-> health'.unit, row |-> health'.row,
                         calm |-> health'.calm, cause |-> health'.cause, said |-> health'.said]
           /\ Asked' /\ HealthIsTrue'
<1>1. health = [at |-> health.at, unit |-> health.unit, row |-> health.row,
                calm |-> health.calm, cause |-> health.cause, said |-> health.said]
  BY DEF RuntimeInv, RuntimeTyped
<1>2. PICK calm : /\ calm = (health.calm /\ ~(health.at = "listing" /\ health.unit = u))
                  /\ health' = [health EXCEPT !.calm = calm]
  BY DEF Disturb
<1>3. health' = [at |-> health.at, unit |-> health.unit, row |-> health.row,
                 calm |-> calm, cause |-> health.cause, said |-> health.said]
  BY <1>1, <1>2
<1>4. calm => health.calm /\ ~(health.at = "listing" /\ health.unit = u)
  BY <1>2
<1>5. /\ health'.at = health.at /\ health'.unit = health.unit /\ health'.row = health.row
      /\ health'.calm = calm /\ health'.cause = health.cause /\ health'.said = health.said
  BY <1>3
<1>6. HealthIsTrue'
  BY <1>4, <1>5 DEF RuntimeInv, HealthIsTrue
<1>7. Asked'
  BY <1>4, <1>5 DEF RuntimeInv, Asked, Same
<1> QED BY <1>3, <1>5, <1>6, <1>7

\* A step of one service.
LEMMA StepHolds ==
    ASSUME RuntimeInv, NEW u \in Unit, Disturb(u), \A v \in Unit \ {u} : Same(v),
           row' \in [Unit -> ServiceRow \cup {Unset}], UNCHANGED pinned,
           docker' \in [Unit -> State], seen' \in [Unit -> State], cause' \in [Unit -> Cause],
           op' \in [Unit -> [verb : Verb, at : {"docker", "landed"}] \cup {Idle}],
           ~IsCompute(u) => docker'[u] # "paused" /\ seen'[u] # "paused",
           TargetsAreCurrent', UnitInv(u)'
    PROVE  RuntimeInv'
<1>1. \A v \in Unit : UnitInv(v)'
  BY SameHolds DEF RuntimeInv
<1>2. \A v \in Unit : ~IsCompute(v) => docker'[v] # "paused" /\ seen'[v] # "paused"
  BY DEF RuntimeInv, RuntimeTyped, Same
<1>3. RuntimeTyped' /\ Asked' /\ HealthIsTrue'
  BY <1>2, DisturbHolds DEF RuntimeInv, RuntimeTyped
<1> QED BY <1>1, <1>3 DEF RuntimeInv

-----------------------------------------------------------------------------
\* The projection.

LEMMA RewrittenIsCurrent ==
    ASSUME NEW r, NEW pins, Rewritten(r, pins) PROVE TargetsAreCurrent'
BY DEF Rewritten, TargetsAreCurrent

\* A mark changes the kept projection as it changes a new one.
LEMMA MarkedIsCurrent ==
    ASSUME RuntimeTyped, TargetsAreCurrent, NEW u \in Unit, NEW mark \in BOOLEAN,
           NEW r \in [Unit -> ServiceRow \cup {Unset}], r[u] # Unset,
           NEW whole \in BOOLEAN, Marked(r, u, mark, whole), whole => memo # Unset /\ r = row
    PROVE  /\ TargetsAreCurrent'
           /\ row' = [r EXCEPT ![u].slept = mark] /\ row' \in [Unit -> ServiceRow \cup {Unset}]
           /\ row'[u] # Unset /\ row'[u].slept = mark /\ row'[u].desired = r[u].desired
           /\ pinned' = pinned
<1>1. /\ row' = [r EXCEPT ![u].slept = mark] /\ pinned' = pinned
      /\ memo' = IF whole THEN Patched(memo, u, mark) ELSE Projected(row', pinned)
  BY DEF Marked
<1>2. r[u] \in ServiceRow
  OBVIOUS
<1>3. /\ [r[u] EXCEPT !.slept = mark] \in ServiceRow
      /\ [r[u] EXCEPT !.slept = mark].slept = mark
      /\ [r[u] EXCEPT !.slept = mark].desired = r[u].desired
      /\ [r[u] EXCEPT !.slept = mark].scale = r[u].scale
  BY <1>2 DEF ServiceRow
<1>4. row'[u] = [r[u] EXCEPT !.slept = mark] /\ \A v \in Unit : v # u => row'[v] = r[v]
  BY <1>1
<1>5. row' \in [Unit -> ServiceRow \cup {Unset}]
  BY <1>1, <1>3
<1>6. Unset \notin ServiceRow
  BY RuntimeAssumption DEF ServiceRow
<1>7. ASSUME whole PROVE TargetsAreCurrent'
  <2>1. memo = Projected(row, pinned) /\ memo' = Patched(memo, u, mark) /\ r = row
    BY <1>1, <1>7 DEF TargetsAreCurrent
  <2>2. \A v \in Unit : EffectiveAlwaysOn(row', pinned, v) = EffectiveAlwaysOn(row, pinned, v)
    BY <1>3, <1>4, <2>1 DEF EffectiveAlwaysOn
  <2> DEFINE target == [alwaysOn |-> EffectiveAlwaysOn(row, pinned, u),
                        desired |-> row[u].desired, slept |-> row[u].slept]
  <2>3. memo[u] = target /\ row[u] # Unset
    BY <2>1 DEF Projected
  <2>4. target \in [alwaysOn : BOOLEAN, desired : Intent, slept : BOOLEAN]
    <3>1. row[u].desired \in Intent /\ row[u].slept \in BOOLEAN
      BY <1>2, <2>1 DEF ServiceRow
    <3>2. EffectiveAlwaysOn(row, pinned, u) \in BOOLEAN
      BY DEF EffectiveAlwaysOn, IsCompute, RuntimeTyped
    <3> QED BY <3>1, <3>2
  <2>5. target # Unset
    BY <2>4, RuntimeAssumption
  <2>6. [target EXCEPT !.slept = mark]
           = [alwaysOn |-> EffectiveAlwaysOn(row, pinned, u), desired |-> row[u].desired, slept |-> mark]
    OBVIOUS
  <2>7. memo' = [memo EXCEPT ![u] = [target EXCEPT !.slept = mark]]
    BY <2>1, <2>3, <2>5 DEF Patched
  <2> HIDE DEF target
  <2>8. ASSUME NEW v \in Unit PROVE memo'[v] = Projected(row', pinned)[v]
    <3>1. CASE v = u
      <4>1. memo'[v] = [alwaysOn |-> EffectiveAlwaysOn(row, pinned, u),
                        desired |-> row[u].desired, slept |-> mark]
        BY <2>1, <2>6, <2>7, <3>1 DEF Projected
      <4>2. /\ row'[v] # Unset /\ row'[v].desired = row[u].desired /\ row'[v].slept = mark
            /\ EffectiveAlwaysOn(row', pinned, v) = EffectiveAlwaysOn(row, pinned, u)
        BY <1>3, <1>4, <1>6, <2>1, <2>2, <3>1
      <4> QED BY <4>1, <4>2 DEF Projected
    <3>2. CASE v # u
      BY <1>4, <2>1, <2>2, <2>7, <3>2 DEF Projected
    <3> QED BY <3>1, <3>2
  <2>9. memo' = Projected(row', pinned)
    BY <2>1, <2>7, <2>8 DEF Projected
  <2> QED BY <1>1, <2>9 DEF TargetsAreCurrent
<1>8. ASSUME ~whole PROVE TargetsAreCurrent'
  BY <1>1, <1>8 DEF TargetsAreCurrent
<1> QED BY <1>1, <1>3, <1>4, <1>5, <1>6, <1>7, <1>8

LEMMA RuntimeInitHolds == ASSUME RuntimeInit PROVE RuntimeInv
<1>1. RuntimeTyped /\ health.at = "idle"
  BY DEF RuntimeInit, RuntimeTyped, State, Cause, Unasked
<1>2. \A u \in Unit : UnitInv(u)
  BY DEF RuntimeInit, UnitInv, Fits, Rested, Working, Done, Idle
<1>3. TargetsAreCurrent /\ Asked /\ HealthIsTrue
  BY <1>1 DEF RuntimeInit, TargetsAreCurrent, Asked, HealthIsTrue
<1> QED BY <1>1, <1>2, <1>3 DEF RuntimeInv

LEMMA RuntimeUnchangedHolds ==
    ASSUME RuntimeInv, UNCHANGED <<row, docker, cause, seen, op, health>>,
           pinned' \in [Compute -> {Unset, TRUE, FALSE}], TargetsAreCurrent'
    PROVE  RuntimeInv'
<1>1. \A u \in Unit : UnitInv(u)'
  BY SameHolds DEF RuntimeInv, Same
<1>2. RuntimeTyped' /\ Asked' /\ HealthIsTrue'
  BY DEF RuntimeInv, RuntimeTyped, Asked, HealthIsTrue
<1> QED BY <1>1, <1>2 DEF RuntimeInv

LEMMA SetAlwaysOnHolds ==
    ASSUME RuntimeInv, NEW s \in Compute, NEW pin \in Pins, SetAlwaysOn(s, pin)
    PROVE  RuntimeInv'
<1>1. TargetsAreCurrent' /\ pinned' \in [Compute -> {Unset, TRUE, FALSE}]
      /\ UNCHANGED <<row, docker, cause, seen, op, health>>
  BY RewrittenIsCurrent, RuntimeAssumption DEF SetAlwaysOn, Rewritten, RuntimeInv, RuntimeTyped
<1> QED BY <1>1, RuntimeUnchangedHolds

LEMMA ReadTargetsHolds == ASSUME RuntimeInv, ReadTargets PROVE RuntimeInv'
<1>1. TargetsAreCurrent' /\ pinned' \in [Compute -> {Unset, TRUE, FALSE}]
      /\ UNCHANGED <<row, docker, cause, seen, op, health>>
  BY DEF ReadTargets, TargetsNow, TargetsAreCurrent, RuntimeInv, RuntimeTyped
<1> QED BY <1>1, RuntimeUnchangedHolds

LEMMA RefreshStatesHolds == ASSUME RuntimeInv, RefreshStates PROVE RuntimeInv'
<1>1. seen' = docker /\ UNCHANGED <<row, pinned, memo, docker, cause, op, health>>
  BY DEF RefreshStates, rowVars
<1>2. ASSUME NEW u \in Unit PROVE UnitInv(u)'
  <2>1. UnitInv(u)
    BY DEF RuntimeInv
  <2>2. Fits(u)' /\ Working(u)'
    BY <1>1, <2>1 DEF UnitInv, Fits, Working
  <2>3. Rested(u)'
    BY <1>1, <2>1 DEF UnitInv, Fits, Rested
  <2>4. Done(u)'
    BY <1>1, <2>1 DEF UnitInv, Done
  <2> QED BY <2>2, <2>3, <2>4 DEF UnitInv
<1>3. RuntimeTyped' /\ TargetsAreCurrent' /\ Asked' /\ HealthIsTrue'
  BY <1>1 DEF RuntimeInv, RuntimeTyped, TargetsAreCurrent, Asked, HealthIsTrue
<1> QED BY <1>2, <1>3 DEF RuntimeInv

-----------------------------------------------------------------------------
\* Requests about health.

LEMMA HealthMovesHold ==
    ASSUME RuntimeInv, UNCHANGED <<rowVars, docker, cause, seen, op>>,
           health'.at \in {"idle", "listing", "said"},
           health' = [at |-> health'.at, unit |-> health'.unit, row |-> health'.row,
                      calm |-> health'.calm, cause |-> health'.cause, said |-> health'.said],
           Asked', HealthIsTrue'
    PROVE  RuntimeInv'
<1>1. UNCHANGED <<row, pinned, memo, docker, cause, seen, op>>
  BY DEF rowVars
<1>2. \A u \in Unit : UnitInv(u)'
  BY <1>1, SameHolds DEF RuntimeInv, Same
<1>3. RuntimeTyped' /\ TargetsAreCurrent'
  BY <1>1 DEF RuntimeInv, RuntimeTyped, TargetsAreCurrent
<1> QED BY <1>2, <1>3 DEF RuntimeInv

LEMMA AskHealthHolds == ASSUME RuntimeInv, NEW u \in Unit, AskHealth(u) PROVE RuntimeInv'
<1>1. PICK calm : /\ calm = (op[u] = Idle)
                  /\ health' = [Unasked EXCEPT !.at = "listing", !.unit = u, !.row = row[u], !.calm = calm]
  BY DEF AskHealth
<1>2. health' = [at |-> "listing", unit |-> u, row |-> row[u], calm |-> calm,
                 cause |-> Unset, said |-> Unset]
  BY <1>1 DEF Unasked
<1>3. row[u] # Unset /\ UNCHANGED <<rowVars, docker, cause, seen, op>> /\ UNCHANGED <<row, op>>
  BY DEF AskHealth, rowVars
<1>4. health'.at = "listing" /\ health'.unit = u /\ health'.row = row[u] /\ health'.calm = calm
  BY <1>2
<1>5. Asked' /\ HealthIsTrue'
  BY <1>1, <1>3, <1>4 DEF Asked, HealthIsTrue
<1> QED BY <1>2, <1>3, <1>5, HealthMovesHold

\* The reason shows in the row that was read and in docker's answer.
LEMMA ListHealthHolds == ASSUME RuntimeInv, ListHealth PROVE RuntimeInv'
<1> DEFINE u == health.unit
<1>1. PICK said : /\ said = Overlay(docker[u], health.row, StateOf(u))
                  /\ health' = [Unasked EXCEPT !.at = "said", !.calm = health.calm,
                                              !.cause = cause[u], !.said = said]
  BY DEF ListHealth
<1>2. health' = [at |-> "said", unit |-> Unset, row |-> Unset, calm |-> health.calm,
                 cause |-> cause[u], said |-> said]
  BY <1>1 DEF Unasked
<1>3. UNCHANGED <<rowVars, docker, cause, seen, op>> /\ u \in Unit
  BY DEF ListHealth, RuntimeInv, Asked
<1>4. ASSUME health.calm
      PROVE  /\ said = "crashed" => cause[u] \in {"died", "unnoted"}
             /\ cause[u] \in {"slept", "stopped"} => said = "standby"
             /\ cause[u] \in {"up", "provisioned"} => said = "healthy"
  <2>1. /\ op[u] = Idle /\ row[u] # Unset /\ row[u] \in ServiceRow
        /\ health.row.slept = row[u].slept /\ health.row.desired = row[u].desired
    BY <1>3, <1>4 DEF ListHealth, RuntimeInv, RuntimeTyped, Asked
  <2>2. docker[u] \in State /\ cause[u] \in Cause /\ seen[u] \in State
    BY <1>3 DEF RuntimeInv, RuntimeTyped
  <2>3. StateOf(u) # "starting"
    BY <2>1, <2>2 DEF StateOf, Idle, State
  <2>4. Fits(u) /\ Rested(u)
    BY <1>3 DEF RuntimeInv, UnitInv
  <2>5. said = CASE docker[u] = "none" -> "none"
                 [] docker[u] = "running" -> "healthy"
                 [] docker[u] = "paused" -> "standby"
                 [] docker[u] = "created" -> (IF row[u].slept THEN "standby" ELSE "starting")
                 [] docker[u] = "exited" ->
                       (IF row[u].slept \/ row[u].desired # "running" THEN "standby" ELSE "crashed")
    BY <1>1, <2>1, <2>2, <2>3 DEF Overlay, State
  <2> QED BY <2>1, <2>2, <2>4, <2>5 DEF Fits, Rested, Idle, State, Cause
<1>5. Asked' /\ HealthIsTrue'
  BY <1>2, <1>4 DEF Asked, HealthIsTrue
<1> QED BY <1>2, <1>3, <1>5, HealthMovesHold

LEMMA HealthToldHolds == ASSUME RuntimeInv, HealthTold PROVE RuntimeInv'
<1>1. health' = [at |-> "idle", unit |-> Unset, row |-> Unset, calm |-> FALSE, cause |-> Unset, said |-> Unset]
  BY DEF HealthTold, Unasked
<1>2. Asked' /\ HealthIsTrue'
  BY <1>1 DEF Asked, HealthIsTrue
<1> QED BY <1>1, <1>2, HealthMovesHold DEF HealthTold

-----------------------------------------------------------------------------
LEMMA SetScaleToZeroHolds ==
    ASSUME RuntimeInv, NEW u \in Unit, NEW scale \in BOOLEAN, SetScaleToZero(u, scale)
    PROVE  RuntimeInv'
<1>1. /\ row' = [row EXCEPT ![u].scale = scale] /\ row[u] # Unset /\ pinned' = pinned
      /\ UNCHANGED <<docker, cause, seen, op, health>> /\ TargetsAreCurrent'
  BY RewrittenIsCurrent DEF SetScaleToZero, Rewritten
<1>2. row \in [Unit -> ServiceRow \cup {Unset}] /\ row[u] \in ServiceRow
  BY <1>1 DEF RuntimeInv, RuntimeTyped
<1>3. /\ row'[u] \in ServiceRow /\ row'[u].slept = row[u].slept
      /\ row'[u].desired = row[u].desired
      /\ \A v \in Unit : v # u => row'[v] = row[v]
  BY <1>1, <1>2 DEF ServiceRow
<1>4. row'[u] # Unset
  BY <1>3, RuntimeAssumption DEF ServiceRow
<1>5. row' \in [Unit -> ServiceRow \cup {Unset}]
  BY <1>1, <1>2, <1>3
<1>6. ASSUME NEW v \in Unit PROVE UnitInv(v)'
  <2>1. CASE v # u
    BY <1>1, <1>3, <2>1, SameHolds DEF RuntimeInv, Same
  <2>2. CASE v = u
    <3>1. UnitInv(u)
      BY DEF RuntimeInv
    <3>2. Fits(u)' /\ Working(u)'
      BY <1>1, <1>3, <1>4, <3>1 DEF UnitInv, Fits, Working
    <3>3. Rested(u)'
      BY <1>1, <1>3, <1>4, <3>1 DEF UnitInv, Rested
    <3>4. Done(u)'
      BY <1>1, <1>3, <1>4, <3>1 DEF UnitInv, Done
    <3> QED BY <2>2, <3>2, <3>3, <3>4 DEF UnitInv
  <2> QED BY <2>1, <2>2
<1>7. RuntimeTyped' /\ HealthIsTrue'
  BY <1>1, <1>5 DEF RuntimeInv, RuntimeTyped, HealthIsTrue
<1>8. Asked'
  BY <1>1, <1>3, <1>4 DEF RuntimeInv, Asked
<1> QED BY <1>1, <1>6, <1>7, <1>8 DEF RuntimeInv

\* An operation that has done nothing yet.
LEMMA BegunHolds ==
    ASSUME RuntimeInv, NEW u \in Unit, NEW verb \in Verb, Begin(u, verb),
           UNCHANGED <<rowVars, cause>>,
           verb \in {"sleep", "wake"} => row[u] # Unset /\ row[u].desired = "running",
           verb \in {"start", "stop", "suspend", "remove"} => row[u] # Unset,
           verb \in {"clone", "provision"} => row[u] = Unset,
           verb \in {"start", "stop", "suspend", "deploy", "clone"} => IsCompute(u),
           verb = "provision" => ~IsCompute(u)
    PROVE  RuntimeInv'
<1>1. /\ op' = [op EXCEPT ![u] = [verb |-> verb, at |-> "docker"]] /\ op[u] = Idle
      /\ Disturb(u) /\ UNCHANGED <<row, pinned, memo, docker, cause, seen>>
  BY DEF Begin, rowVars
<1>2. /\ op'[u] = [verb |-> verb, at |-> "docker"]
      /\ op' \in [Unit -> [verb : Verb, at : {"docker", "landed"}] \cup {Idle}]
      /\ \A v \in Unit \ {u} : Same(v)
  BY <1>1 DEF RuntimeInv, RuntimeTyped, Same
<1>3. UnitInv(u)'
  <2>1. UnitInv(u) /\ op[u].at = "none" /\ op'[u].at = "docker" /\ op'[u].verb = verb
    BY <1>1, <1>2 DEF RuntimeInv, Idle
  <2>2. Fits(u)' /\ Rested(u)'
    BY <1>1, <2>1 DEF UnitInv, Fits, Rested
  <2>3. Working(u)' /\ Done(u)'
    BY <1>1, <2>1 DEF Working, Done
  <2> QED BY <2>2, <2>3 DEF UnitInv
<1>4. TargetsAreCurrent' /\ RuntimeTyped
  BY <1>1 DEF RuntimeInv, TargetsAreCurrent
<1> QED BY <1>1, <1>2, <1>3, <1>4, StepHolds DEF RuntimeTyped

LEMMA BeginsHold ==
    ASSUME RuntimeInv, NEW u \in Unit, BeginSleepOrWake(u) \/ BeginBuild(u) PROVE RuntimeInv'
<1>1. CASE BeginSleepOrWake(u)
  BY <1>1, BegunHolds DEF BeginSleepOrWake, Verb
<1>2. CASE BeginBuild(u)
  BY <1>2, BegunHolds DEF BeginBuild, Verb
<1> QED BY <1>1, <1>2

\* A start writes its intent before docker is asked.
LEMMA BeginLifecycleHolds ==
    ASSUME RuntimeInv, NEW u \in Unit, BeginLifecycle(u) PROVE RuntimeInv'
<1>1. CASE \E verb \in {"stop", "suspend"} : Begin(u, verb) /\ UNCHANGED <<rowVars, cause>>
  BY <1>1, BegunHolds DEF BeginLifecycle, Verb
<1>2. CASE /\ Begin(u, "start")
           /\ Rewritten([row EXCEPT ![u].desired = "running"], pinned)
           /\ cause' = [cause EXCEPT ![u] = IF @ \in {"stopped", "rebuilt"} THEN "unnoted" ELSE @]
  <2>1. /\ row' = [row EXCEPT ![u].desired = "running"] /\ pinned' = pinned /\ TargetsAreCurrent'
        /\ op' = [op EXCEPT ![u] = [verb |-> "start", at |-> "docker"]]
        /\ Disturb(u) /\ UNCHANGED <<docker, seen>>
    BY <1>2, RewrittenIsCurrent DEF Begin, Rewritten
  <2>2. /\ row[u] # Unset /\ IsCompute(u) /\ row[u] \in ServiceRow /\ cause[u] \in Cause
        /\ op[u] = Idle
    BY <1>2 DEF BeginLifecycle, Begin, RuntimeInv, RuntimeTyped
  <2>3. row'[u] \in ServiceRow /\ row'[u].slept = row[u].slept /\ row'[u].desired = "running"
    BY <2>1, <2>2 DEF RuntimeInv, RuntimeTyped, ServiceRow, Intent
  <2>4. row'[u] # Unset
    BY <2>3, RuntimeAssumption DEF ServiceRow
  <2>5. row' \in [Unit -> ServiceRow \cup {Unset}]
    BY <2>1, <2>3 DEF RuntimeInv, RuntimeTyped
  <2>6. /\ cause' \in [Unit -> Cause]
        /\ cause'[u] = IF cause[u] \in {"stopped", "rebuilt"} THEN "unnoted" ELSE cause[u]
    BY <1>2 DEF RuntimeInv, RuntimeTyped, Cause
  <2>7. /\ op'[u] = [verb |-> "start", at |-> "docker"]
        /\ op' \in [Unit -> [verb : Verb, at : {"docker", "landed"}] \cup {Idle}]
    BY <2>1 DEF RuntimeInv, RuntimeTyped, Verb
  <2>8. \A v \in Unit \ {u} : Same(v)
    BY <1>2, <2>1 DEF RuntimeInv, RuntimeTyped, Same
  <2>9. UnitInv(u)'
    <3>1. UnitInv(u) /\ op[u].at = "none" /\ op'[u].at = "docker" /\ op'[u].verb = "start"
      BY <2>2, <2>7 DEF RuntimeInv, Idle
    <3>2. Fits(u)'
      BY <2>1, <2>6, <3>1 DEF UnitInv, Fits
    <3>3. Rested(u)'
      BY <2>1, <2>2, <2>3, <2>4, <2>6, <3>1 DEF UnitInv, Rested
    <3>4. Working(u)' /\ Done(u)'
      BY <2>2, <2>4, <3>1 DEF Working, Done
    <3> QED BY <3>2, <3>3, <3>4 DEF UnitInv
  <2>10. RuntimeTyped
    BY DEF RuntimeInv
  <2> QED BY <2>1, <2>5, <2>6, <2>7, <2>8, <2>9, <2>10, StepHolds DEF RuntimeTyped
<1> QED BY <1>1, <1>2 DEF BeginLifecycle

\* What docker did to u, which is not noted yet.
LEMMA LandHolds == ASSUME RuntimeInv, NEW u \in Unit, Land(u) PROVE RuntimeInv'
<1>1. /\ docker \in [Unit -> State] /\ cause \in [Unit -> Cause] /\ seen \in [Unit -> State]
      /\ op \in [Unit -> [verb : Verb, at : {"docker", "landed"}] \cup {Idle}]
      /\ row \in [Unit -> ServiceRow \cup {Unset}] /\ RuntimeTyped /\ UnitInv(u)
      /\ ~IsCompute(u) => docker[u] # "paused" /\ seen[u] # "paused"
  BY DEF RuntimeInv, RuntimeTyped
<1>2. PICK state \in State, why \in Cause :
         /\ op[u].at = "docker" /\ Docker(u, state, why)
         /\ \/ op[u].verb = "sleep" /\ state \in {"exited", "created"} /\ why = "slept"
            \/ op[u].verb \in {"wake", "start"} /\ state = "running" /\ why = "up"
            \/ op[u].verb = "stop" /\ state = "created" /\ why = "rebuilt"
            \/ op[u].verb = "stop" /\ state = "exited" /\ why = "stopped"
            \/ op[u].verb = "suspend" /\ state = "paused" /\ why = "stopped"
            \/ op[u].verb = "deploy" /\ state = Rebuilt(u)[1] /\ why = Rebuilt(u)[2]
            \/ op[u].verb = "clone" /\ state = "created" /\ why = "slept"
            \/ op[u].verb = "provision" /\ state = "running" /\ why = "provisioned"
            \/ op[u].verb = "remove" /\ state = "none" /\ why = "gone"
  <2>1. Rebuilt(u)[1] \in State /\ Rebuilt(u)[2] \in Cause
    BY DEF Rebuilt, State, Cause
  <2> QED BY <2>1 DEF Land, Doing, State, Cause
<1>3. /\ docker' = [docker EXCEPT ![u] = state] /\ cause' = [cause EXCEPT ![u] = why]
      /\ op' = [op EXCEPT ![u].at = "landed"]
      /\ Disturb(u) /\ UNCHANGED <<row, pinned, memo, seen>>
  BY <1>2 DEF Docker, rowVars
<1>4. op[u] \in [verb : Verb, at : {"docker", "landed"}]
  BY <1>1, <1>2 DEF Idle
<1>5. /\ docker'[u] = state /\ cause'[u] = why
      /\ op'[u] = [op[u] EXCEPT !.at = "landed"]
      /\ op'[u] \in [verb : Verb, at : {"docker", "landed"}]
      /\ op'[u].at = "landed" /\ op'[u].verb = op[u].verb
      /\ docker' \in [Unit -> State] /\ cause' \in [Unit -> Cause]
      /\ op' \in [Unit -> [verb : Verb, at : {"docker", "landed"}] \cup {Idle}]
      /\ \A v \in Unit \ {u} : Same(v)
  BY <1>1, <1>3, <1>4 DEF Same
<1>6. op[u].verb = "deploy" =>
         IF row[u] # Unset /\ row[u].desired = "stopped" THEN state = "created" /\ why = "rebuilt"
         ELSE IF row[u] # Unset /\ row[u].desired = "suspended" THEN state = "paused" /\ why = "stopped"
         ELSE state = "running" /\ why = "up"
  BY <1>2 DEF Rebuilt
<1>7. Working(u)
  BY <1>1 DEF UnitInv
<1>8. Fits(u)'
  BY <1>2, <1>5, <1>6, <1>7 DEF Fits, Working
<1>9. Rested(u)' /\ Working(u)'
  BY <1>3, <1>5, <1>7 DEF Rested, Working
<1>10. Done(u)'
  BY <1>2, <1>3, <1>5, <1>6 DEF Done
<1>11. ~IsCompute(u) => docker'[u] # "paused" /\ seen'[u] # "paused"
  BY <1>1, <1>2, <1>3, <1>5, <1>6, <1>7 DEF Working
<1>12. TargetsAreCurrent' /\ UnitInv(u)'
  BY <1>3, <1>8, <1>9, <1>10 DEF RuntimeInv, TargetsAreCurrent, UnitInv
<1> QED BY <1>1, <1>3, <1>5, <1>11, <1>12, StepHolds

\* What failed may have happened all the same, but then nothing is claimed of it.
LEMMA FailHolds == ASSUME RuntimeInv, NEW u \in Unit, Fail(u) PROVE RuntimeInv'
<1>1. /\ docker \in [Unit -> State] /\ cause \in [Unit -> Cause] /\ seen \in [Unit -> State]
      /\ op \in [Unit -> [verb : Verb, at : {"docker", "landed"}] \cup {Idle}]
      /\ row \in [Unit -> ServiceRow \cup {Unset}] /\ RuntimeTyped /\ UnitInv(u)
      /\ ~IsCompute(u) => docker[u] # "paused" /\ seen[u] # "paused"
  BY DEF RuntimeInv, RuntimeTyped
<1>2. /\ op' = [op EXCEPT ![u] = Idle] /\ Disturb(u) /\ UNCHANGED <<row, pinned, memo>>
  BY DEF Fail, rowVars
<1>3. PICK d \in State, w \in Cause, s \in State :
         /\ docker' = [docker EXCEPT ![u] = d] /\ cause' = [cause EXCEPT ![u] = w]
         /\ seen' = [seen EXCEPT ![u] = s]
         /\ \/ op[u].at = "docker" /\ d = docker[u] /\ w = cause[u] /\ s \in {seen[u], "none"}
            \/ w = "unnoted" /\ d \in {docker[u], "exited"} /\ s \in {seen[u], "none"}
            \/ w = "gone" /\ d = "none" /\ s = seen[u]
  <2>1. /\ docker[u] \in State /\ cause[u] \in Cause /\ seen[u] \in State
        /\ docker = [docker EXCEPT ![u] = docker[u]] /\ cause = [cause EXCEPT ![u] = cause[u]]
        /\ seen = [seen EXCEPT ![u] = seen[u]]
        /\ "unnoted" \in Cause /\ "gone" \in Cause /\ "none" \in State /\ "exited" \in State
    BY <1>1 DEF State, Cause
  <2> QED BY <2>1 DEF Fail, Doing
<1>4. /\ docker'[u] = d /\ cause'[u] = w /\ seen'[u] = s /\ op'[u] = Idle
      /\ docker' \in [Unit -> State] /\ cause' \in [Unit -> Cause] /\ seen' \in [Unit -> State]
      /\ op' \in [Unit -> [verb : Verb, at : {"docker", "landed"}] \cup {Idle}]
      /\ \A v \in Unit \ {u} : Same(v)
  BY <1>1, <1>2, <1>3 DEF Same
<1>5. op'[u].at = "none" /\ op'[u].verb = "none"
  BY <1>4 DEF Idle
<1>6. Fits(u)'
  BY <1>1, <1>3, <1>4 DEF UnitInv, Fits
<1>7. Rested(u)'
  BY <1>1, <1>2, <1>3, <1>4 DEF UnitInv, Rested
<1>8. Working(u)' /\ Done(u)'
  BY <1>5 DEF Working, Done
<1>9. ~IsCompute(u) => docker'[u] # "paused" /\ seen'[u] # "paused"
  BY <1>1, <1>3, <1>4
<1>10. TargetsAreCurrent' /\ UnitInv(u)'
  BY <1>2, <1>6, <1>7, <1>8 DEF RuntimeInv, TargetsAreCurrent, UnitInv
<1> QED BY <1>1, <1>2, <1>4, <1>9, <1>10, StepHolds

LEMMA ReassertFailsHolds == ASSUME RuntimeInv, NEW u \in Unit, ReassertFails(u) PROVE RuntimeInv'
<1>1. RuntimeTyped /\ TargetsAreCurrent /\ row \in [Unit -> ServiceRow \cup {Unset}] /\ row[u] # Unset
  BY DEF ReassertFails, RuntimeInv, RuntimeTyped
<1>2. /\ docker' = [docker EXCEPT ![u] = "running"] /\ cause' = [cause EXCEPT ![u] = "up"]
      /\ seen' = [seen EXCEPT ![u] = "running"] /\ op' = [op EXCEPT ![u] = Idle]
      /\ Marked(row, u, FALSE, FALSE) /\ Disturb(u)
  BY DEF ReassertFails, MarkWith
<1>3. /\ TargetsAreCurrent' /\ pinned' = pinned
      /\ row' = [row EXCEPT ![u].slept = FALSE] /\ row' \in [Unit -> ServiceRow \cup {Unset}]
      /\ row'[u] # Unset /\ ~row'[u].slept
  BY <1>1, <1>2, MarkedIsCurrent
<1>4. /\ docker'[u] = "running" /\ cause'[u] = "up" /\ seen'[u] = "running" /\ op'[u] = Idle
      /\ docker' \in [Unit -> State] /\ cause' \in [Unit -> Cause] /\ seen' \in [Unit -> State]
      /\ op' \in [Unit -> [verb : Verb, at : {"docker", "landed"}] \cup {Idle}]
      /\ \A v \in Unit \ {u} : Same(v)
  BY <1>1, <1>2, <1>3 DEF Same, RuntimeTyped, State, Cause
<1>5. UnitInv(u)'
  BY <1>3, <1>4 DEF UnitInv, Fits, Rested, Working, Done, Idle
<1> QED BY <1>1, <1>2, <1>3, <1>4, <1>5, StepHolds

\* What is noted of an operation is what it did.
LEMMA NotedRow ==
    ASSUME RuntimeInv, NEW u \in Unit, Note(u)
    PROVE  /\ TargetsAreCurrent' /\ pinned' = pinned
           /\ row' \in [Unit -> ServiceRow \cup {Unset}]
           /\ \A v \in Unit \ {u} : row'[v] = row[v]
           /\ row'[u] = Unset \/
                 /\ op[u].verb \in {"sleep", "clone"} => row'[u].slept /\ row'[u].desired = "running"
                 /\ op[u].verb \in {"wake", "start", "stop", "provision"} => ~row'[u].slept
                 /\ op[u].verb = "stop" => row'[u].desired = "stopped"
                 /\ op[u].verb = "suspend" => row'[u].desired = "suspended"
                 /\ op[u].verb = "deploy" =>
                       /\ row[u] # Unset => row'[u].desired = row[u].desired
                       /\ (row[u] # Unset /\ row[u].desired = "suspended") \/ ~row'[u].slept
<1> DEFINE R == [Unit -> ServiceRow \cup {Unset}]
           built == IF row[u] = Unset THEN RowOf("running", FALSE) ELSE row[u]
           halted == [row EXCEPT ![u].desired = "stopped"]
           paused == [row EXCEPT ![u].desired = "suspended"]
           new == [row EXCEPT ![u] = built]
<1>1. RuntimeTyped /\ TargetsAreCurrent /\ row \in R /\ Working(u)
  BY DEF RuntimeInv, RuntimeTyped, UnitInv
<1>2. op[u] \in [verb : Verb, at : {"docker", "landed"}]
  BY DEF RuntimeInv, RuntimeTyped, Note, Idle
<1>3. built \in ServiceRow /\ built.desired \in Intent
      /\ (row[u] = Unset => built.desired = "running" /\ ~built.slept)
      /\ (row[u] # Unset => built = row[u])
  BY <1>1 DEF RowOf, ServiceRow, Intent
<1>4. built # Unset
  BY <1>3, RuntimeAssumption DEF ServiceRow
<1>5. new \in R /\ new[u] = built /\ \A v \in Unit \ {u} : new[v] = row[v]
  BY <1>1, <1>3
<1>6. ASSUME row[u] # Unset
      PROVE  /\ halted \in R /\ halted[u].desired = "stopped" /\ halted[u] \in ServiceRow
             /\ paused \in R /\ paused[u].desired = "suspended" /\ paused[u] \in ServiceRow
             /\ halted[u] # Unset /\ paused[u] # Unset
             /\ \A v \in Unit \ {u} : halted[v] = row[v] /\ paused[v] = row[v]
  <2>1. row[u] \in ServiceRow
    BY <1>1, <1>6
  <2>2. [row[u] EXCEPT !.desired = "stopped"] \in ServiceRow
        /\ [row[u] EXCEPT !.desired = "suspended"] \in ServiceRow
    BY <2>1 DEF ServiceRow, Intent
  <2> QED BY <1>1, <2>1, <2>2, RuntimeAssumption DEF ServiceRow
<1>7. /\ op[u].verb = "sleep" => Marked(row, u, TRUE, memo # Unset)
      /\ op[u].verb \in {"wake", "start"} => Marked(row, u, FALSE, memo # Unset)
      /\ op[u].verb = "stop" => Marked(halted, u, FALSE, FALSE)
      /\ op[u].verb = "suspend" => Rewritten(paused, pinned)
      /\ op[u].verb = "deploy" =>
            IF built.desired = "suspended" THEN Rewritten(new, pinned) ELSE Marked(new, u, FALSE, FALSE)
      /\ op[u].verb = "clone" => Marked(new, u, TRUE, FALSE)
      /\ op[u].verb = "provision" => Rewritten(new, pinned)
      /\ op[u].verb = "remove" => Rewritten([row EXCEPT ![u] = Unset], pinned)
  BY <1>2 DEF Note, Mark, MarkWith
<1> HIDE DEF R, built, halted, paused, new
<1>8. CASE op[u].verb \in {"sleep", "wake", "start"}
  <2>1. row[u] # Unset /\ (op[u].verb = "sleep" => row[u].desired = "running")
    BY <1>1, <1>8 DEF Working
  <2>2. PICK mark \in BOOLEAN, whole \in BOOLEAN :
           Marked(row, u, mark, whole) /\ (mark <=> op[u].verb = "sleep") /\ whole = (memo # Unset)
    BY <1>7, <1>8
  <2>3. /\ TargetsAreCurrent' /\ pinned' = pinned /\ row' \in R
        /\ row' = [row EXCEPT ![u].slept = mark] /\ row'[u].slept = mark
        /\ row'[u].desired = row[u].desired
    <3>1. row \in [Unit -> ServiceRow \cup {Unset}] /\ (whole => memo # Unset)
      BY <1>1, <2>2 DEF R
    <3>2. RuntimeTyped /\ TargetsAreCurrent /\ row[u] # Unset /\ Marked(row, u, mark, whole)
      BY <1>1, <2>1, <2>2
    <3> QED BY ONLY <3>1, <3>2, MarkedIsCurrent, u \in Unit, mark \in BOOLEAN, whole \in BOOLEAN DEF R
  <2>4. \A v \in Unit \ {u} : row'[v] = row[v]
    BY <1>1, <2>3 DEF R
  <2> QED BY <1>8, <2>1, <2>2, <2>3, <2>4 DEF R
<1>9. CASE op[u].verb = "stop"
  <2>1. row[u] # Unset /\ Marked(halted, u, FALSE, FALSE)
    BY <1>1, <1>7, <1>9 DEF Working
  <2>2. /\ TargetsAreCurrent' /\ pinned' = pinned /\ row' \in R
        /\ row' = [halted EXCEPT ![u].slept = FALSE] /\ ~row'[u].slept
        /\ row'[u].desired = halted[u].desired
    BY <1>1, <1>6, <2>1, MarkedIsCurrent DEF R
  <2>3. \A v \in Unit \ {u} : row'[v] = row[v]
    BY <1>6, <2>1, <2>2 DEF R
  <2> QED BY <1>6, <1>9, <2>1, <2>2, <2>3 DEF R
<1>10. CASE op[u].verb = "suspend"
  <2>1. row[u] # Unset /\ Rewritten(paused, pinned)
    BY <1>1, <1>7, <1>10 DEF Working
  <2> QED BY <1>6, <1>10, <2>1, RewrittenIsCurrent DEF Rewritten, R
<1>11. CASE op[u].verb = "deploy" /\ built.desired = "suspended"
  <2>1. Rewritten(new, pinned) /\ row[u] # Unset
    BY <1>3, <1>7, <1>11
  <2> QED BY <1>3, <1>5, <1>11, <2>1, RewrittenIsCurrent DEF Rewritten, R
<1>12. CASE op[u].verb = "deploy" /\ built.desired # "suspended"
  <2>1. Marked(new, u, FALSE, FALSE)
    BY <1>7, <1>12
  <2>2. /\ TargetsAreCurrent' /\ pinned' = pinned /\ row' \in R
        /\ row' = [new EXCEPT ![u].slept = FALSE] /\ ~row'[u].slept
        /\ row'[u].desired = built.desired
    BY <1>1, <1>4, <1>5, <2>1, MarkedIsCurrent DEF R
  <2>3. \A v \in Unit \ {u} : row'[v] = row[v]
    BY <1>5, <2>2 DEF R
  <2> QED BY <1>3, <1>12, <2>2, <2>3 DEF R
<1>13. CASE op[u].verb = "clone"
  <2>1. row[u] = Unset /\ Marked(new, u, TRUE, FALSE)
    BY <1>1, <1>7, <1>13 DEF Working
  <2>2. /\ TargetsAreCurrent' /\ pinned' = pinned /\ row' \in R
        /\ row' = [new EXCEPT ![u].slept = TRUE] /\ row'[u].slept
        /\ row'[u].desired = built.desired
    BY <1>1, <1>4, <1>5, <2>1, MarkedIsCurrent DEF R
  <2>3. \A v \in Unit \ {u} : row'[v] = row[v]
    BY <1>5, <2>2 DEF R
  <2> QED BY <1>3, <1>13, <2>1, <2>2, <2>3 DEF R
<1>14. CASE op[u].verb = "provision"
  <2>1. row[u] = Unset /\ Rewritten(new, pinned)
    BY <1>1, <1>7, <1>14 DEF Working
  <2> QED BY <1>3, <1>5, <1>14, <2>1, RewrittenIsCurrent DEF Rewritten, R
<1>15. CASE op[u].verb = "remove"
  <2>1. row' = [row EXCEPT ![u] = Unset] /\ pinned' = pinned /\ TargetsAreCurrent'
    BY <1>7, <1>15, RewrittenIsCurrent DEF Rewritten
  <2> QED BY <1>1, <2>1 DEF R
<1> QED BY <1>2, <1>8, <1>9, <1>10, <1>11, <1>12, <1>13, <1>14, <1>15 DEF Verb

LEMMA NoteHolds == ASSUME RuntimeInv, NEW u \in Unit, Note(u) PROVE RuntimeInv'
<1>1. /\ docker \in [Unit -> State] /\ cause \in [Unit -> Cause] /\ seen \in [Unit -> State]
      /\ op \in [Unit -> [verb : Verb, at : {"docker", "landed"}] \cup {Idle}]
      /\ RuntimeTyped /\ UnitInv(u)
      /\ ~IsCompute(u) => docker[u] # "paused" /\ seen[u] # "paused"
  BY DEF RuntimeInv, RuntimeTyped
<1>2. /\ TargetsAreCurrent' /\ pinned' = pinned /\ row' \in [Unit -> ServiceRow \cup {Unset}]
      /\ \A v \in Unit \ {u} : row'[v] = row[v]
  BY NotedRow
<1>3. /\ op' = [op EXCEPT ![u] = Idle] /\ Disturb(u) /\ UNCHANGED <<docker, cause>>
      /\ op[u].at = "landed" /\ op[u] \in [verb : Verb, at : {"docker", "landed"}]
  BY <1>1 DEF Note, Idle
<1>7. Fits(u) /\ Working(u) /\ Done(u)
  BY <1>1 DEF UnitInv
<1>4. PICK s \in State :
         /\ seen' = [seen EXCEPT ![u] = s]
         /\ s = IF op[u].verb = "provision" THEN seen[u]
                ELSE IF docker[u] = "created" THEN "exited" ELSE docker[u]
  <2> DEFINE s == IF op[u].verb = "provision" THEN seen[u]
                  ELSE IF docker[u] = "created" THEN "exited" ELSE docker[u]
  <2>1. s \in State
    BY <1>1 DEF State
  <2>2. op[u].verb = "provision" => docker[u] # "created"
    BY <1>3, <1>7 DEF Fits, Done
  <2>3. seen' = [seen EXCEPT ![u] = s]
    BY <2>2 DEF Note
  <2> QED BY <2>1, <2>3
<1>5. /\ op'[u] = Idle /\ seen'[u] = s /\ seen' \in [Unit -> State]
      /\ op' \in [Unit -> [verb : Verb, at : {"docker", "landed"}] \cup {Idle}]
      /\ \A v \in Unit \ {u} : Same(v)
  BY <1>1, <1>2, <1>3, <1>4 DEF Same
<1>6. op'[u].at = "none" /\ op'[u].verb = "none"
  BY <1>5 DEF Idle
<1>8. Fits(u)'
  BY <1>3, <1>7 DEF Fits
<1>9. Working(u)' /\ Done(u)'
  BY <1>6 DEF Working, Done
<1>10. Rested(u)'
  <2> SUFFICES ASSUME row'[u] # Unset
               PROVE  /\ cause[u] = "slept" => row'[u].slept /\ row'[u].desired = "running"
                      /\ cause[u] = "slept" => s \notin {"running", "paused"}
                      /\ cause[u] = "stopped" => row'[u].desired # "running" /\ s # "running"
                      /\ cause[u] \in {"up", "died", "provisioned"} => ~row'[u].slept
                      /\ cause[u] = "up" => s \in {"running", "none"}
                      /\ cause[u] = "died" => s # "paused"
    BY <1>3, <1>5 DEF Rested
  <2>1. /\ op[u].verb \in {"sleep", "clone"} => row'[u].slept /\ row'[u].desired = "running"
        /\ op[u].verb \in {"wake", "start", "stop", "provision"} => ~row'[u].slept
        /\ op[u].verb = "stop" => row'[u].desired = "stopped"
        /\ op[u].verb = "suspend" => row'[u].desired = "suspended"
        /\ op[u].verb = "deploy" =>
              /\ row[u] # Unset => row'[u].desired = row[u].desired
              /\ (row[u] # Unset /\ row[u].desired = "suspended") \/ ~row'[u].slept
    BY NotedRow
  <2>2. CASE op[u].verb \in {"sleep", "clone"}
    BY <1>3, <1>4, <1>7, <2>1, <2>2 DEF Fits, Done
  <2>3. CASE op[u].verb \in {"wake", "start"}
    BY <1>3, <1>4, <1>7, <2>1, <2>3 DEF Fits, Done
  <2>4. CASE op[u].verb = "stop"
    BY <1>3, <1>4, <1>7, <2>1, <2>4 DEF Fits, Done
  <2>5. CASE op[u].verb = "suspend"
    BY <1>3, <1>4, <1>7, <2>1, <2>5 DEF Fits, Done
  <2>6. CASE op[u].verb = "deploy"
    BY <1>3, <1>4, <1>7, <2>1, <2>6 DEF Fits, Done
  <2>7. CASE op[u].verb = "provision"
    BY <1>1, <1>3, <1>4, <1>7, <2>1, <2>7 DEF Fits, Done, Working
  <2>8. CASE op[u].verb = "remove"
    BY <1>3, <1>7, <2>8 DEF Done
  <2> QED BY <1>3, <2>2, <2>3, <2>4, <2>5, <2>6, <2>7, <2>8 DEF Verb
<1>11. ~IsCompute(u) => docker'[u] # "paused" /\ seen'[u] # "paused"
  BY <1>1, <1>3, <1>4, <1>5
<1>12. UnitInv(u)'
  BY <1>8, <1>9, <1>10 DEF UnitInv
<1> QED BY <1>1, <1>2, <1>3, <1>5, <1>11, <1>12, StepHolds

-----------------------------------------------------------------------------
LEMMA DieHolds == ASSUME RuntimeInv, NEW u \in Unit, Die(u) PROVE RuntimeInv'
<1>1. /\ docker' = [docker EXCEPT ![u] = "exited"] /\ docker[u] = "running"
      /\ cause' = [cause EXCEPT ![u] = IF cause[u] = "unnoted" THEN "unnoted" ELSE "died"]
      /\ UNCHANGED <<row, pinned, memo, seen, op, health>>
  BY DEF Die, rowVars
<1>2. /\ docker \in [Unit -> State] /\ cause \in [Unit -> Cause] /\ UnitInv(u)
      /\ cause[u] \in Cause
  BY DEF RuntimeInv, RuntimeTyped
<1>3. /\ docker'[u] = "exited" /\ cause'[u] = IF cause[u] = "unnoted" THEN "unnoted" ELSE "died"
      /\ docker' \in [Unit -> State] /\ cause' \in [Unit -> Cause]
      /\ \A v \in Unit \ {u} : Same(v)
  BY <1>1, <1>2 DEF Same, State, Cause
<1>4. cause[u] \in {"up", "provisioned", "unnoted", "died"}
  BY <1>1, <1>2 DEF UnitInv, Fits, Cause
<1>5. cause[u] # "died"
  BY <1>1, <1>2 DEF UnitInv, Fits
<1>6. Fits(u)' /\ Working(u)'
  BY <1>1, <1>2, <1>3 DEF UnitInv, Fits, Working
<1>7. Rested(u)'
  <2>1. cause[u] = "provisioned" => seen[u] # "paused"
    BY <1>2 DEF UnitInv, Fits, RuntimeInv, RuntimeTyped
  <2> QED BY <1>1, <1>2, <1>3, <1>4, <1>5, <2>1 DEF UnitInv, Rested
<1>8. Done(u)'
  <2>1. Done(u)
    BY <1>2 DEF UnitInv
  <2> QED BY <1>1, <1>3, <1>4, <1>5, <2>1 DEF Done
<1>9. \A v \in Unit : UnitInv(v)'
  BY <1>3, <1>6, <1>7, <1>8, SameHolds DEF RuntimeInv, UnitInv
<1>10. RuntimeTyped'
  BY <1>1, <1>3 DEF RuntimeInv, RuntimeTyped, Same
<1>11. TargetsAreCurrent' /\ Asked' /\ HealthIsTrue'
  BY <1>1 DEF RuntimeInv, TargetsAreCurrent, Asked, HealthIsTrue
<1> QED BY <1>9, <1>10, <1>11 DEF RuntimeInv

LEMMA RestartHolds == ASSUME RuntimeInv, Restart PROVE RuntimeInv'
<1>1. ASSUME NEW u \in Unit
      PROVE  /\ op'[u] = Idle /\ seen'[u] = docker[u] /\ docker'[u] = docker[u]
             /\ cause'[u] = IF op[u].at = "landed" THEN "unnoted" ELSE cause[u]
             /\ row'[u] \in ServiceRow \cup {Unset}
             /\ row[u] = Unset => row'[u] = Unset
             /\ row[u] # Unset =>
                  /\ row'[u] # Unset /\ row'[u].desired = row[u].desired
                  /\ row'[u].slept = IF docker[u] = "running" THEN FALSE ELSE row[u].slept
  <2>0. /\ op'[u] = Idle /\ seen'[u] = docker[u] /\ docker'[u] = docker[u]
        /\ cause'[u] = IF op[u].at = "landed" THEN "unnoted" ELSE cause[u]
    BY DEF Restart
  <2>1. row[u] \in ServiceRow \cup {Unset}
    BY DEF RuntimeInv, RuntimeTyped
  <2>2. row'[u] = IF row[u] # Unset /\ docker[u] = "running"
                  THEN [row[u] EXCEPT !.slept = FALSE] ELSE row[u]
    BY DEF Restart
  <2>3. CASE row[u] # Unset
    <3>1. [row[u] EXCEPT !.slept = FALSE] \in ServiceRow
          /\ [row[u] EXCEPT !.slept = FALSE].desired = row[u].desired
          /\ [row[u] EXCEPT !.slept = FALSE].slept = FALSE
      BY <2>1, <2>3 DEF ServiceRow
    <3>2. [row[u] EXCEPT !.slept = FALSE] # Unset
      BY <3>1, RuntimeAssumption DEF ServiceRow
    <3>3. CASE docker[u] = "running"
      BY <2>0, <2>2, <2>3, <3>1, <3>2, <3>3
    <3>4. CASE docker[u] # "running"
      BY <2>0, <2>1, <2>2, <2>3, <3>4
    <3> QED BY <3>3, <3>4
  <2>4. CASE row[u] = Unset
    BY <2>0, <2>2, <2>4
  <2> QED BY <2>3, <2>4
<1>2. ASSUME NEW u \in Unit PROVE UnitInv(u)'
  <2>0. op'[u].at = "none" /\ op'[u].verb = "none"
    <3>1. op'[u] = Idle
      BY DEF Restart
    <3> QED BY <3>1 DEF Idle
  <2>1. UnitInv(u) /\ op'[u].at = "none" /\ op'[u].verb = "none"
    BY <2>0 DEF RuntimeInv
  <2>2. Fits(u)'
    BY <1>1, <2>1 DEF UnitInv, Fits
  <2>3. Rested(u)'
    BY <1>1, <2>1 DEF UnitInv, Fits, Rested
  <2>4. Working(u)' /\ Done(u)'
    BY <2>1 DEF Working, Done
  <2> QED BY <2>2, <2>3, <2>4 DEF UnitInv
<1>3. /\ seen' = docker /\ docker' = docker /\ pinned' = pinned /\ memo' = Unset
      /\ health' = Unasked
  BY DEF Restart
<1>4. op' \in [Unit -> [verb : Verb, at : {"docker", "landed"}] \cup {Idle}]
      /\ cause' \in [Unit -> Cause]
  BY DEF Restart, RuntimeInv, RuntimeTyped, Cause
<1>5. row' \in [Unit -> ServiceRow \cup {Unset}]
  BY <1>1 DEF Restart
<1>6. RuntimeTyped'
  <2>1. docker \in [Unit -> State] /\ pinned \in [Compute -> {Unset, TRUE, FALSE}]
        /\ \A u \in Unit : ~IsCompute(u) => docker[u] # "paused"
    BY DEF RuntimeInv, RuntimeTyped
  <2>2. health'.at \in {"idle", "listing", "said"}
        /\ health' = [at |-> health'.at, unit |-> health'.unit, row |-> health'.row,
                      calm |-> health'.calm, cause |-> health'.cause, said |-> health'.said]
    BY <1>3 DEF Unasked
  <2>3. docker' \in [Unit -> State] /\ seen' \in [Unit -> State]
        /\ pinned' \in [Compute -> {Unset, TRUE, FALSE}]
        /\ \A u \in Unit : ~IsCompute(u) => docker'[u] # "paused" /\ seen'[u] # "paused"
    BY <2>1, <1>3
  <2> QED BY <2>2, <2>3, <1>4, <1>5 DEF RuntimeTyped
<1>7. TargetsAreCurrent'
  BY <1>3 DEF TargetsAreCurrent
<1>8. health'.at = "idle"
  BY <1>3 DEF Unasked
<1>9. Asked' /\ HealthIsTrue'
  BY <1>8 DEF Asked, HealthIsTrue
<1> QED BY <1>2, <1>6, <1>7, <1>9 DEF RuntimeInv

\* The column of a rested service is read off its row and the snapshot.
LEMMA ColumnHolds == ASSUME RuntimeInv PROVE ColumnIsTrue
<1> SUFFICES ASSUME NEW u \in Unit, op[u] = Idle, row[u] # Unset, seen[u] # "none"
             PROVE  /\ cause[u] = "slept" => RowRuntime(u) = "asleep"
                    /\ cause[u] = "stopped" => RowRuntime(u) \in {"stopped", "suspended"}
                    /\ cause[u] = "up" => RowRuntime(u) = "online"
                    /\ cause[u] = "died" => RowRuntime(u) \in {"online", "stopped"}
  BY DEF ColumnIsTrue
<1>1. /\ row[u] \in ServiceRow /\ seen[u] \in State /\ pinned \in [Compute -> {Unset, TRUE, FALSE}]
      /\ Rested(u) /\ op[u].at = "none" /\ op[u].verb = "none"
  <2>1. RuntimeTyped /\ UnitInv(u)
    BY DEF RuntimeInv
  <2>2. op[u].at = "none" /\ op[u].verb = "none"
    BY DEF Idle
  <2>3. row[u] \in ServiceRow /\ seen[u] \in State
        /\ pinned \in [Compute -> {Unset, TRUE, FALSE}]
    BY <2>1 DEF RuntimeTyped
  <2> QED BY <2>1, <2>2, <2>3 DEF UnitInv
<1>2. TargetsNow = Projected(row, pinned)
  BY DEF RuntimeInv, TargetsAreCurrent, TargetsNow
<1>3. TargetsNow[u] = [alwaysOn |-> EffectiveAlwaysOn(row, pinned, u),
                       desired |-> row[u].desired, slept |-> row[u].slept]
  BY <1>2 DEF Projected
<1>4. TargetsNow[u] # Unset
  <2>1. EffectiveAlwaysOn(row, pinned, u) \in BOOLEAN
    BY <1>1 DEF EffectiveAlwaysOn, IsCompute
  <2>2. TargetsNow[u] \in [alwaysOn : BOOLEAN, desired : Intent, slept : BOOLEAN]
    BY <1>1, <1>3, <2>1 DEF ServiceRow
  <2> QED BY <2>2, RuntimeAssumption
<1>5. TargetsNow[u].desired = row[u].desired /\ TargetsNow[u].slept = row[u].slept
  BY <1>3
<1>6. StateOf(u) = IF seen[u] \in {"running", "paused"} THEN seen[u]
                   ELSE IF row[u].slept /\ row[u].desired = "running" THEN "asleep" ELSE "stopped"
  BY <1>1, <1>4, <1>5 DEF StateOf
<1> QED BY <1>1, <1>6 DEF RowRuntime, Rested

\* The kept projection is current at every moment, an undisturbed request about health is told
\* the truth, and between operations the runtime column is right, through settings, operations
\* that fail on either side of docker's answer, containers that exit and restarts of the daemon.
THEOREM RuntimeTheorem == RuntimeSpec => []RuntimeHolds
<1>1. RuntimeInit => RuntimeInv
  BY RuntimeInitHolds
<1>2. RuntimeInv /\ [RuntimeNext]_runtimeVars => RuntimeInv'
  <2> SUFFICES ASSUME RuntimeInv, [RuntimeNext]_runtimeVars PROVE RuntimeInv'
    OBVIOUS
  <2>1. CASE UNCHANGED runtimeVars
    <3>1. UNCHANGED <<row, docker, cause, seen, op, health>> /\ UNCHANGED <<pinned, memo>>
      BY <2>1 DEF runtimeVars, rowVars
    <3>2. TargetsAreCurrent' /\ pinned' \in [Compute -> {Unset, TRUE, FALSE}]
      BY <3>1 DEF RuntimeInv, RuntimeTyped, TargetsAreCurrent
    <3> QED BY <3>1, <3>2, RuntimeUnchangedHolds
  <2>2. ASSUME NEW s \in Compute, NEW pin \in Pins, SetAlwaysOn(s, pin)
        PROVE  RuntimeInv'
    BY <2>2, SetAlwaysOnHolds
  <2>3. CASE ReadTargets \/ RefreshStates \/ ListHealth \/ HealthTold \/ Restart
    BY <2>3, ReadTargetsHolds, RefreshStatesHolds, ListHealthHolds, HealthToldHolds, RestartHolds
  <2>4. ASSUME NEW u \in Unit,
               AskHealth(u) \/ \E scale \in BOOLEAN : SetScaleToZero(u, scale)
        PROVE  RuntimeInv'
    BY <2>4, AskHealthHolds, SetScaleToZeroHolds
  <2>5. ASSUME NEW u \in Unit, BeginSleepOrWake(u) \/ BeginLifecycle(u) \/ BeginBuild(u)
        PROVE  RuntimeInv'
    BY <2>5, BeginsHold, BeginLifecycleHolds
  <2>6. ASSUME NEW u \in Unit, Land(u) \/ Fail(u) \/ ReassertFails(u) \/ Note(u) \/ Die(u)
        PROVE  RuntimeInv'
    BY <2>6, LandHolds, FailHolds, ReassertFailsHolds, NoteHolds, DieHolds
  <2> QED BY <2>1, <2>2, <2>3, <2>4, <2>5, <2>6 DEF RuntimeNext
<1>3. RuntimeInv => RuntimeHolds
  BY ColumnHolds DEF RuntimeInv, RuntimeHolds
<1> QED BY <1>1, <1>2, <1>3, PTL DEF RuntimeSpec

-----------------------------------------------------------------------------
\* SERVICES.
\*
\* The invariant says who may be in line beside whom (LineInv: whoever works shares no key with
\* whoever came before, and one rename at most is at work), whose bytes are whose (DataMeans: all
\* that says so, registrations, rows and operations that have read them, says the same), which
\* row a container belongs to while a rename carries containers and rows over one by one
\* (Matches), and for each verb what its operation may still rely on between two awaits (Holds).

\* What is assumed of the instance, as in the run.  A postgres rename that is broken off has no
\* compensation (engine.ts:4722): whatever could break one off is left out.
PostgresSound == \A what \in {"provision", "bytes", "rename"} : <<what, "postgres">> \notin Faults
\* undoRenames is best effort: what it could not move back has no row under its name.
UndoSound == \A k \in Kind : <<"undo", k>> \notin Faults
\* What is wired to a group or a managed service stays behind a rename, and a binding to a bucket
\* is cloned without it.
DatabasesBound == \A c \in Calls : c[1] = "bind" => c[2] = "postgres"

-----------------------------------------------------------------------------
\* The operations in flight.

AtWork == {"provision", "docker", "container", "bytes", "renaming", "undo", "fork", "redeploy"}
RowSet == [branch : Branch, kind : Kind, name : Name, handle : Name, data : Data \cup {None}]
BoxSet == [branch : Branch, kind : Kind, handle : Name, data : Data \cup {None}]
RegSet == [kind : Kind, name : Name, data : Data \cup {None}]
Op == [verb : Verbs \cup {"clone"}, kind : Kind \cup {"branch"}, name : Name \cup {None},
       to : Name \cup {None}, branch : Branch \cup {None}, source : Branch \cup {None},
       keys : SUBSET (Branch \X (Kind \cup {"*branch"}) \X (Name \cup {"*branch"})),
       pc : AtWork \cup {"queued"}, data : Data \cup {None}, first : BOOLEAN,
       todo : SUBSET (Branch \cup RowSet), done : SUBSET Branch, round : Nat]

Live(o) == o.pc # "queued"
ChainStage(o) == Chained(o) /\ o.pc \in {"provision", "fork", "renaming", "undo"}

\* A clone whose branch is not committed.
IsNew(o) == o.verb = "clone" /\ o.pc \in {"queued", "fork"}

At1(verb, pc) ==
    /\ verb = "add" => pc \in {"queued", "provision"}
    /\ verb = "deploy" => pc \in {"queued", "docker"}
    /\ verb = "remove" => pc \in {"queued", "container", "bytes"}
    /\ verb = "rename" => pc \in {"queued", "renaming", "undo"}
    /\ verb = "clone" => pc \in {"queued", "fork", "redeploy"}

\* What it is about, and the keys it has for that.
Shape(o) ==
    /\ At1(o.verb, o.pc) /\ o.verb # "bind"
    /\ o.verb # "clone" => o.kind \in Kind /\ o.name \in Name
    /\ o.verb = "add" =>
          /\ o.kind # "compute" /\ o.branch \in Branch /\ Star(o.branch) \in o.keys
          /\ Live(o) => o.data \in Data
    /\ o.verb = "deploy" =>
          /\ o.kind = "compute" /\ o.branch \in Branch
          /\ Star(o.branch) \in o.keys /\ Key(o.branch, "compute", o.name) \in o.keys
    /\ o.verb = "remove" =>
          /\ o.branch \in Branch /\ Key(o.branch, o.kind, o.name) \in o.keys
          /\ o.pc = "bytes" => o.kind # "storage"
    /\ o.verb = "rename" =>
          /\ o.to \in Name /\ o.to # o.name /\ o.branch = None
          /\ o.pc = "queued" => o.done = {}
          /\ Live(o) => o.kind # "storage"
          /\ o.pc = "undo" => o.kind # "postgres"
    /\ o.verb = "clone" =>
          /\ o.kind = "branch" /\ o.branch \in Branch \ {Main} /\ o.source \in Branch \ {o.branch}
          /\ Star(o.branch) \in o.keys /\ Star(o.source) \in o.keys

\* One operation and a later one in the line.
Ordered(a, o) ==
    /\ Live(o) => a.keys \cap o.keys = {}
    /\ ~(ChainStage(a) /\ ChainStage(o))
    /\ (IsNew(a) \/ IsNew(o)) => a.branch # o.branch

LineInv ==
    /\ line \in Seq(Op)
    /\ \A i \in DOMAIN line : Shape(line[i])
    /\ \A i, j \in DOMAIN line : i < j => Ordered(line[i], line[j])

\* n may stand where line[i] does.
Fitting(i, n) ==
    \A j \in DOMAIN line : j # i =>
        (j < i => Ordered(line[j], n)) /\ (i < j => Ordered(n, line[j]))

InLine(o) == \E i \in DOMAIN line : line[i] = o
Besides(i, o) == \E j \in DOMAIN line : j # i /\ line[j] = o

\* The rename at work: there is one at most.
AtRename == {o \in Op : InLine(o) /\ o.verb = "rename" /\ Live(o)}

-----------------------------------------------------------------------------
\* The names of things.

Solid(k) == k # "storage"
Told(k) == k \notin {"compute", "storage"}

\* The registration of a row is called n: the database rename at work has moved the row before.
Named(r, n) ==
    \/ \E o \in AtRename : o.kind = "postgres" /\ r.kind = "postgres" /\ o.to = r.name /\ o.name = n
    \/ r.name = n /\ ~\E o \in AtRename : o.kind = "postgres" /\ r.kind = "postgres" /\ o.to = r.name

\* A container that a rename at work has moved before its row.
Ahead(r, h) ==
    \E o \in AtRename : /\ o.kind # "postgres" /\ o.kind = r.kind /\ o.name = r.name
                        /\ r.branch \in o.done /\ h = o.to
NotAhead(r) ==
    ~\E o \in AtRename : o.kind # "postgres" /\ o.kind = r.kind /\ o.name = r.name /\ r.branch \in o.done

Matches(x, r) ==
    /\ r.branch = x.branch /\ r.kind = x.kind /\ r.data = x.data
    /\ Ahead(r, x.handle) \/ (NotAhead(r) /\ x.handle = r.name)

Holder(o) == o.verb \in {"add", "deploy", "remove"} /\ Live(o) /\ o.branch \in branches

\* Something says that the bytes d are those of the service <<k, n>>.
RegClaim(k, n, d) == \E e \in reg : e.kind = k /\ e.name = n /\ e.data = d
RowClaim(k, n, d) == \E r \in rows : r.kind = k /\ Named(r, n) /\ r.data = d
OpClaim(k, n, d) == \E o \in Op : InLine(o) /\ Holder(o) /\ o.kind = k /\ o.name = n /\ o.data = d
Claim(k, n, d) == RegClaim(k, n, d) \/ RowClaim(k, n, d) \/ OpClaim(k, n, d)

DataMeans ==
    \A d \in Data : \A k, m, n, q :
        Solid(k) /\ Solid(m) /\ Claim(k, n, d) /\ Claim(m, q, d) => k = m /\ n = q

-----------------------------------------------------------------------------
\* The state.

StoreTyped ==
    /\ branches \subseteq Branch /\ Main \in branches
    /\ reg \subseteq RegSet /\ rows \subseteq RowSet /\ box \subseteq BoxSet
    /\ wired \subseteq [branch : Branch, kind : {"postgres"}, name : Name]
    /\ \A e \in reg : e.kind # "compute" => e.data # None
    /\ \A e, f \in reg : e.kind = f.kind /\ e.name = f.name => e = f

RowsTyped ==
    /\ \A r \in rows : r.branch \in branches
    /\ \A r \in rows : Solid(r.kind) => r.handle = r.name
    /\ \A r \in rows : Told(r.kind) => r.data # None
    /\ \A r, s \in rows : Solid(r.kind) /\ r.branch = s.branch /\ r.kind = s.kind /\ r.name = s.name => r = s

HostsApart ==
    \A r, s \in rows :
        Solid(r.kind) /\ Solid(s.kind) /\ r.branch = s.branch
        /\ Label[r.kind][r.name] = Label[s.kind][s.name] => r = s

Registered == \A r \in rows : Told(r.kind) => \E e \in reg : e.kind = r.kind /\ Named(r, e.name)

Emptied(r) ==
    \E o \in Op : InLine(o) /\ o.verb = "remove" /\ o.pc = "bytes"
                  /\ o.branch = r.branch /\ o.kind = "postgres" /\ o.name = r.name

Boxed ==
    /\ \A x \in box : Solid(x.kind) /\ x.data # None => \E r \in rows : Matches(x, r)
    /\ \A x \in box : x.kind = "postgres" => x.data # None
    /\ \A r \in rows : r.kind = "postgres" => InBox(r.branch, "postgres", r.name) # {} \/ Emptied(r)

StateInv ==
    /\ StoreTyped /\ RowsTyped /\ DataMeans /\ HostsApart /\ Registered
    /\ RowsHaveBytes /\ Boxed /\ WiresHold

-----------------------------------------------------------------------------
\* What an operation at work may rely on.

AddHolds(o) ==
    o.verb = "add" /\ Live(o) =>
        /\ o.branch \in branches
        /\ Solid(o.kind) =>
            /\ ~Carries(o.branch, o.kind, o.name)
            /\ \A r \in rows : r.branch = o.branch /\ Solid(r.kind) => Label[r.kind][r.name] # Label[o.kind][o.name]
            /\ o.kind # "managed" => RegClaim(o.kind, o.name, o.data)
            /\ o.kind = "managed" => (o.first <=> RegOf(o.kind, o.name) = {})
            /\ o.first => \A r \in rows : ~(r.kind = o.kind /\ r.name = o.name)

DeployHolds(o) ==
    o.verb = "deploy" /\ Live(o) =>
        /\ o.branch \in branches
        /\ \A r \in rows : r.branch = o.branch /\ Solid(r.kind)
                           /\ Label[r.kind][r.name] = Label["compute"][o.name] => r.kind = "compute" /\ r.name = o.name

RemoveHolds(o) ==
    o.verb = "remove" /\ Live(o) =>
        /\ Told(o.kind) => Carries(o.branch, o.kind, o.name) /\ RegOf(o.kind, o.name) # {}
        /\ o.pc = "bytes" => Carries(o.branch, o.kind, o.name) /\ InBox(o.branch, o.kind, o.name) = {}

RenameHolds(o) ==
    o.verb = "rename" /\ Live(o) =>
        /\ \A b \in branches : Star(b) \in o.keys /\ Key(b, o.kind, o.name) \in o.keys
        /\ RegOf(o.kind, o.to) = {}
        /\ o.todo \subseteq branches
        /\ \A r \in rows : r.kind = o.kind /\ r.name = o.to => o.kind = "postgres" /\ r.branch \notin o.todo
        /\ \A r \in rows : r.kind = o.kind /\ r.name = o.name =>
              /\ o.kind = "postgres" => r.branch \in o.todo
              /\ r.branch \notin o.todo => InBox(r.branch, o.kind, o.name) = {}
              /\ \A s \in rows : s.branch = r.branch /\ Solid(s.kind) => Label[s.kind][s.name] # Label[o.kind][o.to]
        /\ \A b \in o.todo : Carries(b, o.kind, o.name)
        /\ o.kind = "compute" =>
              \E h \in reserved : h.branch \in branches /\ h.label = Label["compute"][o.to] /\ h.owner = Owner(o)

Copy(o, t) == [t EXCEPT !.branch = o.branch, !.handle = t.name]

CloneHolds(o) ==
    o.verb = "clone" =>
        /\ IsNew(o) => o.branch \notin branches
        /\ Live(o) =>
            /\ o.source \in branches
            /\ o.pc = "redeploy" => o.branch \in branches
            /\ o.todo \subseteq RowSet
            /\ \A t \in o.todo : t.branch = o.source
            /\ \A t \in o.todo : Solid(t.kind) =>
                  t \in rows /\ Key(o.source, t.kind, t.name) \in o.keys /\ Key(o.branch, t.kind, t.name) \in o.keys
            /\ \A r \in rows : Solid(r.kind) /\ r.branch = o.source => r \in o.todo
            /\ o.pc = "redeploy" =>
                /\ \A t \in o.todo : Told(t.kind) => Copy(o, t) \in rows
                /\ \A r \in rows : Solid(r.kind) /\ r.branch = o.branch =>
                      \E t \in o.todo : Told(t.kind) /\ r = Copy(o, t)

Holds(o) == AddHolds(o) /\ DeployHolds(o) /\ RemoveHolds(o) /\ RenameHolds(o) /\ CloneHolds(o)

ServicesInv == LineInv /\ StateInv /\ \A o \in Op : InLine(o) => Holds(o)

\* No removal works on a service that an add under way found registered: see the finding on
\* retireRegistration (engine.ts:414).
Undisturbed ==
    \A i, j \in DOMAIN line :
        At(i, "add", "provision") /\ line[j].verb = "remove" /\ Live(line[j]) =>
            line[i].kind # line[j].kind \/ line[i].name # line[j].name

-----------------------------------------------------------------------------
\* The line.

\* A new operation at the end.
LEMMA EnterKeepsLine ==
    ASSUME LineInv, NEW n \in Op, Enter(n), Shape(n),
           \A i \in DOMAIN line : Ordered(line[i], n)
    PROVE  LineInv' /\ \A o : InLine(o)' <=> o = n \/ InLine(o)
<1>1. line' = Append(line, n) /\ line \in Seq(Op)
  BY DEF Enter, LineInv
<1>2. /\ line' \in Seq(Op) /\ Len(line') = Len(line) + 1 /\ Len(line) \in Nat
      /\ DOMAIN line = 1 .. Len(line) /\ DOMAIN line' = 1 .. Len(line) + 1
      /\ line'[Len(line) + 1] = n /\ \A i \in 1 .. Len(line) : line'[i] = line[i]
  BY <1>1
<1>4. \A i \in DOMAIN line' : Shape(line'[i])
  BY <1>2 DEF LineInv
<1>5. \A i, j \in DOMAIN line' : i < j => Ordered(line'[i], line'[j])
  <2> TAKE i, j \in DOMAIN line'
  <2>1. CASE i < j /\ j \in DOMAIN line
    BY <1>2, <2>1 DEF LineInv
  <2>2. CASE i < j /\ j = Len(line) + 1
    BY <1>2, <2>2
  <2> QED BY <1>2, <2>1, <2>2
<1>6. \A o : InLine(o)' <=> o = n \/ InLine(o)
  BY <1>2 DEF InLine
<1> QED BY <1>2, <1>4, <1>5, <1>6 DEF LineInv

\* One that is over.
LEMMA RemovalKeepsLine ==
    ASSUME LineInv, NEW i \in DOMAIN line, NEW q, q = RemoveAt(line, i)
    PROVE  /\ q \in Seq(Op) /\ Len(q) = Len(line) - 1
           /\ \A k \in DOMAIN q : Shape(q[k])
           /\ \A k, m \in DOMAIN q : k < m => Ordered(q[k], q[m])
           /\ \A o : (\E k \in DOMAIN q : q[k] = o) <=> Besides(i, o)
<1>1. line \in Seq(Op) /\ DOMAIN line = 1 .. Len(line) /\ Len(line) \in Nat /\ i \in 1 .. Len(line)
  BY DEF LineInv
<1>2. /\ q \in Seq(Op) /\ Len(q) = Len(line) - 1 /\ DOMAIN q = 1 .. Len(line) - 1
      /\ \A k \in 1 .. Len(line) - 1 : q[k] = IF k < i THEN line[k] ELSE line[k + 1]
  <2>1. PICK x : x = SubSeq(line, 1, i - 1)
    OBVIOUS
  <2>2. PICK y : y = SubSeq(line, i + 1, Len(line))
    OBVIOUS
  <2>3. x \in Seq(Op) /\ Len(x) = i - 1 /\ \A k \in 1 .. i - 1 : x[k] = line[k]
    BY <1>1, <2>1
  <2>4. /\ y \in Seq(Op) /\ Len(y) = Len(line) - i
        /\ \A k \in 1 .. Len(line) - i : y[k] = line[i + k]
    BY <1>1, <2>2
  <2>5. q = x \o y
    BY <2>1, <2>2 DEF RemoveAt
  <2>6. /\ q \in Seq(Op) /\ Len(q) = Len(x) + Len(y)
        /\ \A k \in 1 .. Len(x) + Len(y) : q[k] = IF k <= Len(x) THEN x[k] ELSE y[k - Len(x)]
    <3>1. /\ x \o y \in Seq(Op) /\ Len(x \o y) = Len(x) + Len(y)
          /\ \A k \in 1 .. Len(x) + Len(y) :
                (x \o y)[k] = IF k <= Len(x) THEN x[k] ELSE y[k - Len(x)]
      BY <2>3, <2>4, ConcatProperties, Zenon
    <3> QED BY <2>5, <3>1, Zenon
  <2>7. Len(q) = Len(line) - 1 /\ DOMAIN q = 1 .. Len(line) - 1
    BY <1>1, <2>3, <2>4, <2>6
  <2>8. ASSUME NEW k \in 1 .. Len(line) - 1
        PROVE  q[k] = IF k < i THEN line[k] ELSE line[k + 1]
    <3>1. /\ k \in Nat /\ Len(x) = i - 1 /\ k \in 1 .. Len(x) + Len(y)
          /\ i \in Nat /\ k <= Len(x) <=> k < i
      BY <1>1, <2>3, <2>4, <2>8
    <3>2. CASE k < i
      BY <2>3, <2>6, <3>1, <3>2
    <3>3. CASE ~(k < i)
      <4>1. k - Len(x) \in 1 .. Len(line) - i /\ i + (k - Len(x)) = k + 1
        BY <1>1, <2>8, <3>1, <3>3
      <4>2. q[k] = y[k - Len(x)]
        BY <2>6, <3>1, <3>3
      <4> QED BY <2>4, <3>3, <4>1, <4>2
    <3> QED BY <3>2, <3>3
  <2> QED BY <2>6, <2>7, <2>8
<1>3. \A k \in DOMAIN q : Shape(q[k])
  <2> TAKE k \in DOMAIN q
  <2>1. \E m \in DOMAIN line : q[k] = line[m]
    <3>1. CASE k < i
      BY <1>1, <1>2, <3>1
    <3>2. CASE ~(k < i)
      BY <1>1, <1>2, <3>2
    <3> QED BY <3>1, <3>2
  <2> QED BY <2>1 DEF LineInv
<1>4. \A k, m \in DOMAIN q : k < m => Ordered(q[k], q[m])
  <2> SUFFICES ASSUME NEW k \in DOMAIN q, NEW m \in DOMAIN q, k < m PROVE Ordered(q[k], q[m])
    OBVIOUS
  <2>1. \E x, y \in DOMAIN line : x < y /\ q[k] = line[x] /\ q[m] = line[y]
    <3>1. CASE m < i
      BY <1>1, <1>2, <3>1
    <3>2. CASE k < i /\ ~(m < i)
      BY <1>1, <1>2, <3>2
    <3>3. CASE ~(k < i)
      BY <1>1, <1>2, <3>3
    <3> QED BY <3>1, <3>2, <3>3
  <2> QED BY <2>1 DEF LineInv
<1>5. ASSUME NEW o PROVE (\E k \in DOMAIN q : q[k] = o) <=> Besides(i, o)
  <2>1. ASSUME NEW k \in DOMAIN q, q[k] = o PROVE Besides(i, o)
    BY <1>1, <1>2, <2>1 DEF Besides
  <2>2. ASSUME NEW j \in DOMAIN line, j # i, line[j] = o PROVE \E k \in DOMAIN q : q[k] = o
    <3>1. CASE j < i
      BY <1>1, <1>2, <2>2, <3>1
    <3>2. CASE j > i
      <4>1. j - 1 \in DOMAIN q /\ q[j - 1] = o
        BY <1>1, <1>2, <2>2, <3>2
      <4> QED BY <4>1
    <3> QED BY <1>1, <2>2, <3>1, <3>2
  <2> QED BY <2>1, <2>2 DEF Besides
<1> QED BY <1>2, <1>3, <1>4, <1>5

LEMMA LeaveKeepsLine ==
    ASSUME LineInv, NEW i \in DOMAIN line, Leave(i)
    PROVE  LineInv' /\ \A o : InLine(o)' <=> Besides(i, o)
<1>1. PICK q : q = RemoveAt(line, i)
  OBVIOUS
<1>2. line' = q
  BY <1>1 DEF Leave
<1> QED BY <1>1, <1>2, RemovalKeepsLine DEF LineInv, InLine

\* One that goes back to the end.
LEMMA RequeueKeepsLine ==
    ASSUME LineInv, NEW i \in DOMAIN line, NEW n \in Op, Shape(n),
           line' = Append(RemoveAt(line, i), n),
           \A j \in DOMAIN line : j # i => Ordered(line[j], n)
    PROVE  LineInv' /\ \A o : InLine(o)' <=> o = n \/ Besides(i, o)
<1>1. PICK q : q = RemoveAt(line, i)
  OBVIOUS
<1>2. /\ q \in Seq(Op) /\ Len(q) = Len(line) - 1
      /\ \A k \in DOMAIN q : Shape(q[k])
      /\ \A k, m \in DOMAIN q : k < m => Ordered(q[k], q[m])
      /\ \A o : (\E k \in DOMAIN q : q[k] = o) <=> Besides(i, o)
  BY <1>1, RemovalKeepsLine
<1>3. line' = Append(q, n)
  BY <1>1
<1>4. /\ line' \in Seq(Op) /\ Len(line') = Len(q) + 1 /\ Len(q) \in Nat
      /\ DOMAIN q = 1 .. Len(q) /\ DOMAIN line' = 1 .. Len(q) + 1
      /\ line'[Len(q) + 1] = n /\ \A k \in 1 .. Len(q) : line'[k] = q[k]
  BY <1>2, <1>3
<1>5. \A k \in DOMAIN q : Ordered(q[k], n)
  <2> TAKE k \in DOMAIN q
  <2>1. Besides(i, q[k])
    BY <1>2
  <2> QED BY <2>1 DEF Besides
<1>6. \A k \in DOMAIN line' : Shape(line'[k])
  BY <1>2, <1>4
<1>7. \A k, m \in DOMAIN line' : k < m => Ordered(line'[k], line'[m])
  <2> TAKE k, m \in DOMAIN line'
  <2>1. CASE k < m /\ m \in DOMAIN q
    BY <1>2, <1>4, <2>1
  <2>2. CASE k < m /\ m = Len(q) + 1
    BY <1>4, <1>5, <2>2
  <2> QED BY <1>4, <2>1, <2>2
<1>9. \A o : InLine(o)' <=> o = n \/ Besides(i, o)
  <2> TAKE o
  <2>1. InLine(o)' <=> o = n \/ \E k \in DOMAIN q : q[k] = o
    BY <1>4 DEF InLine
  <2> QED BY <2>1, <1>2
<1> QED BY <1>4, <1>6, <1>7, <1>9 DEF LineInv

\* One that moves on.
LEMMA MoveKeepsLine ==
    ASSUME LineInv, NEW i \in DOMAIN line, NEW n \in Op, Shape(n), line' = [line EXCEPT ![i] = n],
           Fitting(i, n)
    PROVE  LineInv' /\ \A o : InLine(o)' <=> o = n \/ Besides(i, o)
<1>1. /\ line \in Seq(Op) /\ DOMAIN line = 1 .. Len(line) /\ Len(line) \in Nat
      /\ line' \in Seq(Op) /\ DOMAIN line' = DOMAIN line /\ Len(line') = Len(line)
      /\ line'[i] = n /\ \A j \in DOMAIN line : j # i => line'[j] = line[j]
  BY DEF LineInv
<1>2. \A j \in DOMAIN line' : Shape(line'[j])
  BY <1>1 DEF LineInv
<1>3. \A j, k \in DOMAIN line' : j < k => Ordered(line'[j], line'[k])
  <2> TAKE j, k \in DOMAIN line'
  <2>1. CASE j < k /\ j = i
    BY <1>1, <2>1 DEF Fitting
  <2>2. CASE j < k /\ k = i
    BY <1>1, <2>2 DEF Fitting
  <2>3. CASE j < k /\ j # i /\ k # i
    BY <1>1, <2>3 DEF LineInv
  <2> QED BY <2>1, <2>2, <2>3
<1>4. \A o : InLine(o)' <=> o = n \/ Besides(i, o)
  BY <1>1 DEF InLine, Besides
<1> QED BY <1>1, <1>2, <1>3, <1>4 DEF LineInv


\* What an operation at work, or one that may start, knows of the others.
LEMMA OthersApart ==
    ASSUME LineInv, NEW i \in DOMAIN line, NEW o, Besides(i, o)
    PROVE  /\ o \in Op /\ Shape(o) /\ line[i] \in Op /\ Shape(line[i]) /\ InLine(o) /\ InLine(line[i])
           /\ (Live(line[i]) \/ Granted(i)) /\ Live(o) => line[i].keys \cap o.keys = {}
           /\ ~(ChainStage(line[i]) /\ ChainStage(o))
           /\ (IsNew(line[i]) \/ IsNew(o)) => line[i].branch # o.branch
<1>1. PICK j \in DOMAIN line : j # i /\ line[j] = o
  BY DEF Besides
<1>2. i \in Nat /\ j \in Nat /\ DOMAIN line = 1 .. Len(line) /\ line[i] \in Op /\ o \in Op
  BY <1>1 DEF LineInv
<1>3. CASE j < i
  <2>1. Ordered(o, line[i])
    BY <1>1, <1>2, <1>3 DEF LineInv
  <2>2. Granted(i) => o.keys \cap line[i].keys = {}
    BY <1>1, <1>2, <1>3 DEF Granted
  <2> QED BY <1>1, <1>2, <2>1, <2>2 DEF Ordered, LineInv, InLine
<1>4. CASE i < j
  <2>1. Ordered(line[i], o)
    BY <1>1, <1>2, <1>4 DEF LineInv
  <2> QED BY <1>1, <1>2, <2>1 DEF Ordered, LineInv, InLine
<1> QED BY <1>1, <1>2, <1>3, <1>4

LEMMA MoveLine ==
    ASSUME LineInv, NEW i \in DOMAIN line, NEW n \in Op, Shape(n), line' = [line EXCEPT ![i] = n],
           n.keys = line[i].keys, n.branch = line[i].branch,
           Live(line[i]) \/ Granted(i),
           ChainStage(n) => ChainStage(line[i]) \/ ChainFree,
           IsNew(n) => IsNew(line[i])
    PROVE  LineInv' /\ \A o : InLine(o)' <=> o = n \/ Besides(i, o)
<1>1. Fitting(i, n)
  <2> SUFFICES ASSUME NEW j \in DOMAIN line, j # i
               PROVE  (j < i => Ordered(line[j], n)) /\ (i < j => Ordered(n, line[j]))
    BY DEF Fitting
  <2>1. Besides(i, line[j])
    BY DEF Besides
  <2>2. /\ Live(line[j]) => line[i].keys \cap line[j].keys = {}
        /\ ~(ChainStage(line[i]) /\ ChainStage(line[j]))
        /\ (IsNew(line[i]) \/ IsNew(line[j])) => line[i].branch # line[j].branch
    BY <2>1, OthersApart
  <2>3. ChainFree => ~ChainStage(line[j])
    BY DEF ChainFree, ChainStage
  <2>4. ~(ChainStage(n) /\ ChainStage(line[j]))
    BY <2>2, <2>3
  <2>5. (IsNew(n) \/ IsNew(line[j])) => n.branch # line[j].branch
    BY <2>2
  <2>6. j < i => line[j].keys \cap n.keys = {}
    <3>1. i \in Nat /\ j \in Nat /\ DOMAIN line = 1 .. Len(line)
      BY DEF LineInv
    <3>2. CASE Live(line[i])
      <4>1. j < i => Ordered(line[j], line[i])
        BY DEF LineInv
      <4> QED BY <3>2, <4>1 DEF Ordered
    <3>3. CASE Granted(i)
      BY <3>1, <3>3 DEF Granted
    <3> QED BY <3>2, <3>3
  <2>7. Live(line[j]) => n.keys \cap line[j].keys = {}
    BY <2>2
  <2> QED BY <2>4, <2>5, <2>6, <2>7 DEF Ordered
<1> QED BY <1>1, MoveKeepsLine

-----------------------------------------------------------------------------
\* The rename at work.

LEMMA AloneWithStar ==
    ASSUME ServicesInv, NEW i \in DOMAIN line, Live(line[i]) \/ Granted(i),
           NEW b \in branches, Star(b) \in line[i].keys
    PROVE  \A o \in AtRename : o = line[i]
<1> SUFFICES ASSUME NEW o \in AtRename, o # line[i] PROVE FALSE
  OBVIOUS
<1>1. Besides(i, o) /\ Live(o) /\ o.verb = "rename" /\ o \in Op /\ InLine(o)
  BY DEF AtRename, Besides, InLine
<1>2. line[i].keys \cap o.keys = {}
  BY <1>1, OthersApart DEF ServicesInv
<1>3. Star(b) \in o.keys
  BY <1>1 DEF ServicesInv, Holds, RenameHolds
<1> QED BY <1>2, <1>3

LEMMA OneRename == ASSUME ServicesInv PROVE \A o, n \in AtRename : o = n
<1> SUFFICES ASSUME NEW o \in AtRename, NEW n \in AtRename PROVE o = n
  OBVIOUS
<1>1. PICK i \in DOMAIN line : line[i] = n
  BY DEF AtRename, InLine
<1>2. Live(line[i]) /\ Star(Main) \in line[i].keys /\ Main \in branches
  BY <1>1 DEF AtRename, ServicesInv, Holds, RenameHolds, StateInv, StoreTyped, InLine
<1> QED BY <1>1, <1>2, AloneWithStar

LEMMA NoRename ==
    ASSUME AtRename = {}
    PROVE  /\ \A r, n : Named(r, n) <=> r.name = n
           /\ \A x, r : Matches(x, r) <=> r.branch = x.branch /\ r.kind = x.kind /\ r.data = x.data
                                          /\ x.handle = r.name
BY DEF Named, Matches, Ahead, NotAhead

LEMMA SameRename ==
    ASSUME AtRename' = AtRename
    PROVE  /\ \A r, n : Named(r, n)' <=> Named(r, n)
           /\ \A x, r : Matches(x, r)' <=> Matches(x, r)
BY DEF Named, Matches, Ahead, NotAhead

-----------------------------------------------------------------------------
\* Whose bytes.

LEMMA ClaimsKeep ==
    ASSUME DataMeans, \A d \in Data : \A k, n : Solid(k) /\ Claim(k, n, d)' => Claim(k, n, d)
    PROVE  DataMeans'
BY DEF DataMeans

LEMMA FreshIsNobodys == ASSUME LineInv, NEW d, Unused(d) PROVE \A k, n : ~Claim(k, n, d)
BY DEF Unused, Claim, RegClaim, RowClaim, OpClaim, InLine

LEMMA ClaimsFresh ==
    ASSUME DataMeans, LineInv, NEW x, NEW y, NEW z, Unused(z),
           \A d \in Data : \A k, n : Solid(k) /\ Claim(k, n, d)' => Claim(k, n, d) \/ (k = x /\ n = y /\ d = z)
    PROVE  DataMeans'
<1>1. \A k, n : ~Claim(k, n, z)
  BY FreshIsNobodys
<1> QED BY <1>1 DEF DataMeans

LEMMA DataOfIs ==
    ASSUME StoreTyped, NEW k, NEW n, RegOf(k, n) # {}
    PROVE  /\ RegClaim(k, n, DataOf(k, n)) /\ DataOf(k, n) \in Data \cup {None}
           /\ k # "compute" => DataOf(k, n) \in Data
           /\ \A e \in reg : e.kind = k /\ e.name = n => e = [kind |-> k, name |-> n, data |-> DataOf(k, n)]
<1>1. PICK e \in RegOf(k, n) : DataOf(k, n) = e.data
  BY DEF DataOf
<1>2. e \in reg /\ e.kind = k /\ e.name = n /\ e \in RegSet
  BY <1>1 DEF RegOf, StoreTyped
<1>3. e = [kind |-> k, name |-> n, data |-> DataOf(k, n)]
  BY <1>1, <1>2 DEF RegSet
<1> QED BY <1>1, <1>2, <1>3 DEF RegClaim, StoreTyped, RegSet

LEMMA DataOfNone == ASSUME NEW k, NEW n, RegOf(k, n) = {} PROVE DataOf(k, n) = None
BY DEF DataOf

\* The rows of a branch that name the same bytes are one.
LEMMA OneOwner ==
    ASSUME ServicesInv, NEW r \in rows, NEW s \in rows, Solid(r.kind), Solid(s.kind),
           r.branch = s.branch, r.data = s.data, r.data # None
    PROVE  r = s
<1>1. r.data \in Data /\ r \in RowSet /\ s \in RowSet
  BY DEF ServicesInv, StateInv, StoreTyped, RowSet
<1>2. PICK n : Named(r, n)
  BY DEF Named
<1>3. PICK m : Named(s, m)
  BY DEF Named
<1>4. r.kind = s.kind /\ n = m
  BY <1>1, <1>2, <1>3 DEF ServicesInv, StateInv, DataMeans, Claim, RowClaim
<1>5. r.name = s.name
  <2>1. ASSUME NEW t \in rows, NEW u \in rows, t.branch = u.branch, t.kind = u.kind, NEW q,
               Named(t, q), Named(u, q), t.name # q
        PROVE  t.name = u.name
    <3>1. PICK o \in AtRename : o.kind = "postgres" /\ t.kind = "postgres" /\ o.to = t.name /\ o.name = q
      BY <2>1 DEF Named
    <3>2. RenameHolds(o) /\ o.verb = "rename" /\ Live(o)
      BY DEF AtRename, ServicesInv, Holds
    <3>3. t.branch \notin o.todo
      BY <3>1, <3>2 DEF RenameHolds
    <3>4. u.name # q
      BY <2>1, <3>1, <3>2, <3>3 DEF RenameHolds
    <3>5. PICK p \in AtRename : p.to = u.name
      BY <2>1, <3>4 DEF Named
    <3> QED BY <3>1, <3>5, OneRename
  <2> QED BY <1>2, <1>3, <1>4, <2>1
<1> QED BY <1>4, <1>5 DEF ServicesInv, StateInv, RowsTyped

-----------------------------------------------------------------------------
\* A step: what it leaves of the line, and what it has to show.

\* N is what is left of line[i] in the line.
LeftOf(i, N) == N \subseteq Op /\ LineInv' /\ \A o : InLine(o)' <=> o \in N \/ Besides(i, o)

LEMMA InLineIs == ASSUME NEW i \in DOMAIN line PROVE \A o : InLine(o) <=> o = line[i] \/ Besides(i, o)
BY DEF InLine, Besides

LEMMA LeaveIs == ASSUME LineInv, NEW i \in DOMAIN line, Leave(i) PROVE LeftOf(i, {})
BY LeaveKeepsLine DEF LeftOf

LEMMA BecomeIs ==
    ASSUME LineInv, NEW i \in DOMAIN line, NEW n \in Op, Shape(n), Become(i, n),
           n.keys = line[i].keys, n.branch = line[i].branch,
           Live(line[i]) \/ Granted(i),
           ChainStage(n) => ChainStage(line[i]) \/ ChainFree,
           IsNew(n) => IsNew(line[i])
    PROVE  LeftOf(i, {n})
BY MoveLine DEF LeftOf, Become

LEMMA Assemble ==
    ASSUME ServicesInv, NEW i \in DOMAIN line, NEW N, LeftOf(i, N), StateInv',
           \A n \in N : Holds(n)', \A o \in Op : Besides(i, o) => Holds(o)'
    PROVE  ServicesInv'
BY DEF ServicesInv, LeftOf

\* A step of anything but a rename.
LEMMA RenamingStays ==
    ASSUME NEW i \in DOMAIN line, NEW N, LeftOf(i, N), line[i].verb # "rename",
           \A n \in N : n.verb # "rename"
    PROVE  AtRename' = AtRename
BY InLineIs DEF LeftOf, AtRename

LEMMA StillHolds ==
    ASSUME UNCHANGED <<branches, reg, rows, box>>, NEW o, Holds(o),
           o.verb = "rename" /\ Live(o) => reserved \subseteq reserved'
    PROVE  Holds(o)'
<1>1. AddHolds(o)' /\ DeployHolds(o)' /\ CloneHolds(o)'
  BY DEF Holds, AddHolds, DeployHolds, CloneHolds, RegClaim, RegOf, Carries, RowsOf
<1>2. RemoveHolds(o)'
  BY DEF Holds, RemoveHolds, RegOf, Carries, RowsOf, InBox
<1>3. RenameHolds(o)'
  <2> SUFFICES ASSUME o.verb = "rename", Live(o) PROVE RenameHolds(o)'
    BY DEF RenameHolds
  <2>1. reserved \subseteq reserved' /\ RenameHolds(o)
    BY DEF Holds
  <2> QED BY <2>1 DEF RenameHolds, RegOf, Carries, RowsOf, InBox
<1> QED BY <1>1, <1>2, <1>3 DEF Holds

\* What the operations in the line say of bytes.
LEMMA OpClaims ==
    ASSUME NEW i \in DOMAIN line, NEW N, LeftOf(i, N),
           \A o : Besides(i, o) /\ Holder(o)' => Holder(o)
    PROVE  \A k, n, d : OpClaim(k, n, d)' =>
              OpClaim(k, n, d) \/ \E o \in N : Holder(o)' /\ o.kind = k /\ o.name = n /\ o.data = d
BY InLineIs DEF LeftOf, OpClaim

LEMMA SameRows ==
    ASSUME UNCHANGED <<reg, rows>>, \A r \in rows : \A n : Named(r, n)' => Named(r, n)
    PROVE  \A k, n, d : RegClaim(k, n, d)' \/ RowClaim(k, n, d)' => RegClaim(k, n, d) \/ RowClaim(k, n, d)
BY DEF RegClaim, RowClaim

\* A step that leaves rows, containers and bytes as they are.
LEMMA QuietStep ==
    ASSUME ServicesInv, NEW i \in DOMAIN line, NEW N, LeftOf(i, N),
           UNCHANGED <<branches, reg, rows, wired, box, bytes>>,
           \A n \in N : Holds(n)',
           \A o : Besides(i, o) /\ o.verb = "rename" /\ Live(o) => reserved \subseteq reserved',
           \A r \in rows : Emptied(r) => Emptied(r)',
           \A r \in rows : \A n : Named(r, n)' <=> Named(r, n),
           \A x \in box : \A r \in rows : Matches(x, r) => Matches(x, r)',
           \/ \A o \in N : Holder(o) /\ o.data \in Data /\ Solid(o.kind) => Claim(o.kind, o.name, o.data)
           \/ \E o \in N : Unused(o.data) /\ N = {o}
    PROVE  ServicesInv'
<1>1. \A o \in Op : Besides(i, o) => Holds(o)'
  <2> SUFFICES ASSUME NEW o \in Op, Besides(i, o) PROVE Holds(o)'
    OBVIOUS
  <2>1. Holds(o)
    BY InLineIs DEF ServicesInv
  <2> QED BY <2>1, StillHolds
<1>2. \A k, n, d : Claim(k, n, d)' =>
          Claim(k, n, d) \/ \E o \in N : Holder(o) /\ o.kind = k /\ o.name = n /\ o.data = d
  <2>1. \A o : Holder(o)' <=> Holder(o)
    BY DEF Holder
  <2> QED BY <2>1, OpClaims, SameRows DEF Claim
<1>3. DataMeans'
  <2>1. DataMeans
    BY DEF ServicesInv, StateInv
  <2>2. CASE \A o \in N : Holder(o) /\ o.data \in Data /\ Solid(o.kind) => Claim(o.kind, o.name, o.data)
    <3>1. \A d \in Data : \A k, n : Solid(k) /\ Claim(k, n, d)' => Claim(k, n, d)
      BY <1>2, <2>2
    <3> QED BY <2>1, <3>1, ClaimsKeep
  <2>3. CASE \E o \in N : Unused(o.data) /\ N = {o}
    <3>1. PICK o \in N : Unused(o.data) /\ N = {o}
      BY <2>3
    <3>2. \A d \in Data : \A k, n : Solid(k) /\ Claim(k, n, d)' =>
              Claim(k, n, d) \/ (k = o.kind /\ n = o.name /\ d = o.data)
      BY <1>2, <3>1
    <3>3. LineInv
      BY DEF ServicesInv
    <3> QED BY <2>1, <3>1, <3>2, <3>3, ClaimsFresh
  <2> QED BY <2>2, <2>3
<1>4. StoreTyped' /\ RowsTyped' /\ HostsApart' /\ RowsHaveBytes' /\ WiresHold'
  BY DEF ServicesInv, StateInv, StoreTyped, RowsTyped, HostsApart, RowsHaveBytes, WiresHold, Carries, RowsOf
<1>5. Registered'
  BY DEF ServicesInv, StateInv, Registered
<1>6. Boxed'
  <2>1. \A x \in box : Solid(x.kind) /\ x.data # None => \E r \in rows : Matches(x, r)'
    BY DEF ServicesInv, StateInv, Boxed
  <2>2. \A x \in box : x.kind = "postgres" => x.data # None
    BY DEF ServicesInv, StateInv, Boxed
  <2>3. \A r \in rows : r.kind = "postgres" => InBox(r.branch, "postgres", r.name)' # {} \/ Emptied(r)'
    BY DEF ServicesInv, StateInv, Boxed, InBox
  <2> QED BY <2>1, <2>2, <2>3 DEF Boxed
<1> QED BY <1>1, <1>3, <1>4, <1>5, <1>6, Assemble DEF StateInv

-----------------------------------------------------------------------------
\* Whoever has a branch to itself.

LEMMA WithStar ==
    ASSUME ServicesInv, NEW i \in DOMAIN line, Live(line[i]) \/ Granted(i), line[i].verb # "rename",
           NEW b \in branches, Star(b) \in line[i].keys
    PROVE  /\ AtRename = {}
           /\ \A o : Besides(i, o) /\ Live(o) =>
                 /\ o.verb # "rename"
                 /\ o.verb \in {"add", "deploy"} => o.branch # b
                 /\ o.verb = "clone" => o.branch # b /\ o.source # b
<1>1. AtRename = {}
  <2> SUFFICES ASSUME NEW o \in AtRename PROVE FALSE
    OBVIOUS
  <2>1. o = line[i]
    BY AloneWithStar
  <2> QED BY <2>1 DEF AtRename
<1>2. ASSUME NEW o, Besides(i, o), Live(o)
      PROVE  /\ o.verb # "rename"
             /\ o.verb \in {"add", "deploy"} => o.branch # b
             /\ o.verb = "clone" => o.branch # b /\ o.source # b
  <2>1. o \in Op /\ InLine(o) /\ Shape(o) /\ line[i].keys \cap o.keys = {}
    BY <1>2, OthersApart DEF ServicesInv
  <2>2. Star(b) \notin o.keys
    BY <2>1
  <2>3. o.verb # "rename"
    BY <1>1, <1>2, <2>1 DEF AtRename
  <2> QED BY <2>1, <2>2, <2>3 DEF Shape
<1> QED BY <1>1, <1>2

\* With no rename at work every row that answers has its registration.
LEMMA HostIsFree ==
    ASSUME ServicesInv, AtRename = {}, NEW b, NEW k, NEW n, NEW owner, Solid(k), HostFree(b, k, n, owner)
    PROVE  \A r \in rows : r.branch = b /\ Solid(r.kind) => Label[r.kind][r.name] # Label[k][n]
<1> SUFFICES ASSUME NEW r \in rows, r.branch = b, Solid(r.kind) PROVE r \in Answering(b)
  BY DEF HostFree, Solid
<1>1. r.kind = "managed" => RegOf("managed", r.name) # {}
  BY NoRename DEF ServicesInv, StateInv, Registered, Told, RegOf
<1> QED BY <1>1 DEF Answering, Solid

\* A registration that is new.
LEMMA NewReg ==
    ASSUME ServicesInv, LineInv', NEW k \in Kind, NEW n \in Name, NEW d \in Data \cup {None},
           k # "compute" => d \in Data, k # "managed", RegOf(k, n) = {}, d \in Data => Unused(d),
           reg' = reg \cup {[kind |-> k, name |-> n, data |-> d]},
           UNCHANGED <<branches, rows, wired, box, bytes>>, reserved \subseteq reserved',
           AtRename' = AtRename, \A o \in AtRename : o.kind = k => o.to # n,
           \A o : InLine(o)' => InLine(o) \/ (o.kind = k /\ o.name = n /\ o.data = d),
           \A o : InLine(o) /\ o.verb = "remove" /\ o.pc = "bytes" => InLine(o)'
    PROVE  StateInv' /\ \A o \in Op : InLine(o) => Holds(o)'
<1> DEFINE e == [kind |-> k, name |-> n, data |-> d]
<1>1. /\ StoreTyped /\ RowsTyped /\ DataMeans /\ HostsApart /\ Registered /\ RowsHaveBytes /\ Boxed /\ WiresHold
      /\ LineInv
  BY DEF ServicesInv, StateInv
<1>2. /\ \A r, m : Named(r, m)' <=> Named(r, m)
      /\ \A x, r : Matches(x, r)' <=> Matches(x, r)
  BY SameRename
<1>3. StoreTyped'
  <2>1. e \in RegSet
    BY DEF RegSet
  <2>2. \A f \in reg : ~(f.kind = k /\ f.name = n)
    BY DEF RegOf
  <2>3. reg' \subseteq RegSet /\ \A f \in reg' : f.kind # "compute" => f.data # None
    BY <1>1, <2>1, ServicesAssumption DEF StoreTyped
  <2>4. \A f, g \in reg' : f.kind = g.kind /\ f.name = g.name => f = g
    <3> SUFFICES ASSUME NEW f \in reg', NEW g \in reg', f.kind = g.kind, f.name = g.name PROVE f = g
      OBVIOUS
    <3>1. CASE f \in reg /\ g \in reg
      BY <1>1, <3>1 DEF StoreTyped
    <3>2. CASE f = e
      BY <2>2, <3>2
    <3>3. CASE g = e
      BY <2>2, <3>3
    <3> QED BY <3>1, <3>2, <3>3
  <2> QED BY <1>1, <2>3, <2>4 DEF StoreTyped
<1>4. RowsTyped' /\ HostsApart' /\ RowsHaveBytes' /\ WiresHold'
  BY <1>1 DEF RowsTyped, HostsApart, RowsHaveBytes, WiresHold, Carries, RowsOf
<1>5. Registered'
  BY <1>1, <1>2 DEF Registered
<1>6. Boxed'
  <2>1. \A r \in rows : Emptied(r) => Emptied(r)'
    BY DEF Emptied
  <2>2. \A b, h : InBox(b, "postgres", h)' = InBox(b, "postgres", h)
    BY DEF InBox
  <2>3. \A r \in rows : r.kind = "postgres" => InBox(r.branch, "postgres", r.name)' # {} \/ Emptied(r)'
    BY <1>1, <2>1, <2>2 DEF Boxed
  <2> QED BY <1>1, <1>2, <2>3 DEF Boxed
<1>7. DataMeans'
  <2>1. \A m, q, z : RegClaim(m, q, z)' => RegClaim(m, q, z) \/ (m = k /\ q = n /\ z = d)
    BY DEF RegClaim
  <2>2. \A m, q, z : RowClaim(m, q, z)' => RowClaim(m, q, z)
    BY <1>2 DEF RowClaim
  <2>3. \A m, q, z : OpClaim(m, q, z)' => OpClaim(m, q, z) \/ (m = k /\ q = n /\ z = d)
    BY DEF OpClaim, Holder
  <2>4. \A z : \A m, q : Claim(m, q, z)' => Claim(m, q, z) \/ (m = k /\ q = n /\ z = d)
    BY <2>1, <2>2, <2>3 DEF Claim
  <2>5. CASE d \in Data
    BY <1>1, <2>4, <2>5, ClaimsFresh
  <2>6. CASE d \notin Data
    BY <1>1, <2>4, <2>6, ClaimsKeep
  <2> QED BY <2>5, <2>6
<1>8. ASSUME NEW o \in Op, InLine(o) PROVE Holds(o)'
  <2>1. Holds(o)
    BY <1>8 DEF ServicesInv
  <2>2. AddHolds(o)'
    <3>1. \A m, q, z : RegClaim(m, q, z) => RegClaim(m, q, z)'
      BY DEF RegClaim
    <3>2. \A q : RegOf("managed", q)' = RegOf("managed", q)
      BY DEF RegOf
    <3>3. AddHolds(o)
      BY <2>1 DEF Holds
    <3> QED BY <3>1, <3>2, <3>3 DEF AddHolds, Carries, RowsOf
  <2>3. DeployHolds(o)' /\ CloneHolds(o)'
    BY <2>1 DEF Holds, DeployHolds, CloneHolds
  <2>4. RemoveHolds(o)'
    <3>1. \A m, q : RegOf(m, q) # {} => RegOf(m, q)' # {}
      BY DEF RegOf
    <3> QED BY <2>1, <3>1 DEF Holds, RemoveHolds, Carries, RowsOf, InBox
  <2>5. RenameHolds(o)'
    <3> SUFFICES ASSUME o.verb = "rename", Live(o) PROVE RenameHolds(o)'
      BY DEF RenameHolds
    <3>1. o.kind = k => o.to # n
      BY <1>8 DEF AtRename
    <3>2. RegOf(o.kind, o.to) = {} => RegOf(o.kind, o.to)' = {}
      BY <3>1 DEF RegOf
    <3>3. RenameHolds(o)
      BY <2>1 DEF Holds
    <3> QED BY <3>2, <3>3 DEF RenameHolds, Carries, RowsOf, InBox
  <2> QED BY <2>2, <2>3, <2>4, <2>5 DEF Holds
<1> QED BY <1>3, <1>4, <1>5, <1>6, <1>7, <1>8 DEF StateInv

-----------------------------------------------------------------------------
\* Adds.

LEMMA SameLine == ASSUME UNCHANGED line PROVE (LineInv' <=> LineInv) /\ AtRename' = AtRename /\ \A o : InLine(o)' <=> InLine(o)
BY DEF LineInv, AtRename, InLine

LEMMA AddGroupKeeps == ASSUME ServicesInv, NEW n \in Name, AddGroup(n) PROVE ServicesInv'
<1>1. PICK d \in {None} \cup {z \in Data : Unused(z)} :
        reg' = reg \cup {[kind |-> "compute", name |-> n, data |-> d]}
  BY DEF AddGroup
<1>2. /\ <<"add", "compute", n>> \in Calls /\ ~Known("compute", n)
      /\ \A b \in branches : HostFree(b, "compute", n, None)
      /\ UNCHANGED <<branches, rows, wired, reserved, box, bytes, line>>
  BY DEF AddGroup
<1>3. "compute" \in Kind
  BY <1>2, ServicesAssumption
<1>4. RegOf("compute", n) = {}
  BY <1>2 DEF Known
<1>5. /\ d \in Data \cup {None} /\ d \in Data => Unused(d)
  BY <1>1, ServicesAssumption
<1>6. LineInv' /\ AtRename' = AtRename /\ \A o : InLine(o)' <=> InLine(o)
  BY <1>2, SameLine DEF ServicesInv
<1>7. \A o \in AtRename : o.kind = "compute" => o.to # n
  <2> SUFFICES ASSUME NEW o \in AtRename, o.kind = "compute", o.to = n PROVE FALSE
    OBVIOUS
  <2>1. o \in Op /\ o.verb = "rename" /\ RenameHolds(o) /\ Live(o)
    BY DEF AtRename, ServicesInv, Holds
  <2>2. PICK h \in reserved : h.branch \in branches /\ h.label = Label["compute"][o.to] /\ h.owner = Owner(o)
    BY <2>1 DEF RenameHolds
  <2>3. Owner(o) = None
    BY <1>2, <2>2 DEF HostFree
  <2>4. o.name \in Name \cup {None} /\ o.to \in Name \cup {None}
    BY DEF Op, AtRename
  <2> QED BY <1>3, <2>1, <2>3, <2>4, ServicesAssumption DEF Owner, Verbs
<1>8. StateInv' /\ \A o \in Op : InLine(o) => Holds(o)'
  BY <1>1, <1>2, <1>3, <1>4, <1>5, <1>6, <1>7, NewReg
<1> QED BY <1>6, <1>8 DEF ServicesInv

LEMMA StartAddKeeps == ASSUME ServicesInv, NEW i \in DOMAIN line, StartAdd(i) PROVE ServicesInv'
<1>0. PICK me : me = line[i]
  OBVIOUS
<1> DEFINE k == me.kind
           q == me.name
           b == me.branch
<1>1. /\ me.verb = "add" /\ me.pc = "queued" /\ Granted(i) /\ ChainFree
      /\ UNCHANGED <<branches, rows, wired, box, bytes>>
  BY <1>0 DEF StartAdd, Starts
<1>2. me \in Op /\ Shape(me) /\ InLine(me) /\ LineInv
  BY <1>0 DEF ServicesInv, LineInv, InLine
<1>3. \A N : LeftOf(i, N) /\ (\A o \in N : o.verb # "rename") =>
          /\ AtRename' = AtRename
          /\ \A r \in rows : \A n : Named(r, n)' <=> Named(r, n)
          /\ \A x \in box : \A r \in rows : Matches(x, r) => Matches(x, r)'
          /\ \A r \in rows : Emptied(r) => Emptied(r)'
          /\ \A o : InLine(o) /\ o.verb = "remove" /\ o.pc = "bytes" => InLine(o)'
  <2> SUFFICES ASSUME NEW N, LeftOf(i, N), \A o \in N : o.verb # "rename"
               PROVE  /\ AtRename' = AtRename
                      /\ \A o : InLine(o) /\ o.verb = "remove" /\ o.pc = "bytes" => InLine(o)'
    BY <1>1, SameRename DEF Emptied
  <2>1. AtRename' = AtRename
    BY <1>0, <1>1, RenamingStays
  <2> QED BY <1>0, <1>1, <2>1, InLineIs DEF LeftOf
<1>4. CASE Leave(i) /\ UNCHANGED <<reg, reserved>>
  <2> DEFINE N == {}
  <2>1. LeftOf(i, N)
    BY <1>2, <1>4, LeaveIs
  <2> QED BY <1>1, <1>3, <1>4, <2>1, QuietStep
<1>5. CASE /\ b \in branches /\ ~Carries(b, k, q) /\ HostFree(b, k, q, Owner(me))
           /\ \E z \in IF DataOf(k, q) # None THEN {DataOf(k, q)} ELSE {y \in Data : Unused(y)} : Entered(i, z)
  <2>1. PICK z \in IF DataOf(k, q) # None THEN {DataOf(k, q)} ELSE {y \in Data : Unused(y)} : Entered(i, z)
    BY <1>5
  <2>2. Star(b) \in me.keys /\ k \in Kind \ {"compute"} /\ q \in Name /\ b \in Branch
    BY <1>1, <1>2 DEF Shape
  <2>3. AtRename = {}
    <3>1. me.verb # "rename"
      BY <1>1
    <3> QED BY <1>0, <1>1, <1>5, <2>2, <3>1, WithStar
  <2>4. /\ z \in Data
        /\ RegOf(k, q) # {} => RegClaim(k, q, z)
        /\ RegOf(k, q) = {} => Unused(z)
        /\ RegOf(k, q) # {} => [kind |-> k, name |-> q, data |-> z] \in reg
    <3>1. CASE RegOf(k, q) = {}
      BY <2>1, <3>1, DataOfNone
    <3>2. CASE RegOf(k, q) # {}
      <4>1. StoreTyped
        BY DEF ServicesInv, StateInv
      <4>2. /\ RegClaim(k, q, DataOf(k, q)) /\ DataOf(k, q) \in Data
            /\ \A e \in reg : e.kind = k /\ e.name = q => e = [kind |-> k, name |-> q, data |-> DataOf(k, q)]
        BY <2>2, <3>2, <4>1, DataOfIs
      <4>3. z = DataOf(k, q)
        BY <2>1, <4>2, ServicesAssumption
      <4> QED BY <3>2, <4>2, <4>3 DEF RegOf
    <3> QED BY <3>1, <3>2
  <2>50. PICK n : n = [me EXCEPT !.pc = "provision", !.data = z, !.first = (RegOf(k, q) = {})]
    OBVIOUS
  <2> DEFINE N == {n}
  <2>5. /\ n \in Op /\ n.verb = "add" /\ n.pc = "provision" /\ n.kind = k /\ n.name = q /\ n.branch = b
        /\ n.keys = me.keys /\ n.data = z /\ (n.first <=> RegOf(k, q) = {})
    <3>1. PICK f : f = (RegOf(k, q) = {})
      OBVIOUS
    <3>2. f \in BOOLEAN /\ (f <=> RegOf(k, q) = {})
      BY <3>1, Zenon
    <3>3. n = [me EXCEPT !.pc = "provision", !.data = z, !.first = f]
      BY <2>50, <3>1, Zenon
    <3>4. /\ n \in Op /\ n.verb = "add" /\ n.pc = "provision" /\ n.kind = k /\ n.name = q /\ n.branch = b
          /\ n.keys = me.keys /\ n.data = z /\ n.first = f
      BY <1>1, <1>2, <2>4, <3>2, <3>3 DEF Op, AtWork
    <3> QED BY <3>2, <3>4
  <2>6. Become(i, n)
    BY <1>0, <2>1, <2>50 DEF Entered
  <2>7. Shape(n)
    BY <1>1, <1>2, <2>4, <2>5 DEF Shape, At1, Live
  <2>8. LeftOf(i, N)
    <3>1. (ChainStage(n) => ChainStage(me) \/ ChainFree) /\ (IsNew(n) => IsNew(me))
      BY <1>1, <2>5 DEF IsNew
    <3> QED BY <1>0, <1>1, <1>2, <2>5, <2>6, <2>7, <3>1, BecomeIs
  <2>9. \A r \in rows : r.branch = b /\ Solid(r.kind) /\ Solid(k) => Label[r.kind][r.name] # Label[k][q]
    <3>1. CASE Solid(k)
      BY <1>5, <2>3, <3>1, HostIsFree
    <3> QED BY <3>1
  <2>10. RegOf(k, q) = {} /\ Solid(k) => \A r \in rows : ~(r.kind = k /\ r.name = q)
    BY <2>2, <2>3, NoRename DEF ServicesInv, StateInv, Registered, Told, Solid, RegOf
  <2>11. ASSUME k = "managed" => RegOf(k, q)' = RegOf(k, q), k # "managed" => RegClaim(k, q, z)' PROVE Holds(n)'
    <3>1. AddHolds(n)'
      BY <1>1, <1>5, <2>5, <2>9, <2>10, <2>11 DEF AddHolds, Carries, RowsOf
    <3> QED BY <2>5, <3>1 DEF Holds, DeployHolds, RemoveHolds, RenameHolds, CloneHolds
  <2>12. reserved \subseteq reserved'
    BY <2>1 DEF Entered, Reserve
  <2>13. CASE reg' = reg
    <3>1. Holds(n)'
      <4>1. k # "managed" => RegClaim(k, q, z)'
        <5>1. k # "managed" => [kind |-> k, name |-> q, data |-> z] \in reg'
          BY <1>0, <2>1 DEF Entered
        <5> QED BY <5>1 DEF RegClaim
      <4>2. RegOf(k, q)' = RegOf(k, q)
        BY <2>13 DEF RegOf
      <4> QED BY <2>11, <4>1, <4>2
    <3>2. \/ \A o \in N : Holder(o) /\ o.data \in Data /\ Solid(o.kind) => Claim(o.kind, o.name, o.data)
          \/ \E o \in N : Unused(o.data) /\ N = {o}
      BY <2>4, <2>5 DEF Claim
    <3> QED BY <1>1, <1>3, <2>5, <2>8, <2>12, <2>13, <3>1, <3>2, QuietStep
  <2>14. CASE reg' # reg
    <3>1. /\ reg' = reg \cup {[kind |-> k, name |-> q, data |-> z]} /\ k # "managed"
          /\ UNCHANGED reserved
      BY <1>0, <2>1, <2>14 DEF Entered
    <3>2. RegOf(k, q) = {}
      BY <2>4, <2>14, <3>1
    <3>3. LineInv' /\ AtRename' = AtRename
      <4>1. \A o \in N : o.verb # "rename"
        BY <2>5
      <4>2. LineInv'
        BY <2>8 DEF LeftOf
      <4> QED BY <1>0, <1>1, <2>8, <4>1, <4>2, RenamingStays
    <3>4. \A o : InLine(o)' => InLine(o) \/ (o.kind = k /\ o.name = q /\ o.data = z)
      BY <1>0, <2>5, <2>8, InLineIs DEF LeftOf
    <3>5. \A o : InLine(o) /\ o.verb = "remove" /\ o.pc = "bytes" => InLine(o)'
      BY <1>3, <2>5, <2>8
    <3>6. StateInv' /\ \A o \in Op : InLine(o) => Holds(o)'
      BY <1>1, <2>2, <2>3, <2>4, <3>1, <3>2, <3>3, <3>4, <3>5, NewReg
    <3>7. Holds(n)'
      <4>1. RegClaim(k, q, z)'
        <5>1. [kind |-> k, name |-> q, data |-> z] \in reg'
          BY <3>1
        <5> QED BY <5>1 DEF RegClaim
      <4> QED BY <2>11, <3>1, <4>1
    <3> QED BY <2>8, <3>6, <3>7, Assemble, InLineIs
  <2> QED BY <2>13, <2>14
<1> QED BY <1>0, <1>4, <1>5 DEF StartAdd

\* What others rely on stands when rows change on a branch that line[i] has to itself.
LEMMA OthersOnBranch ==
    ASSUME ServicesInv, NEW i \in DOMAIN line, Live(line[i]) \/ Granted(i), line[i].verb # "rename",
           NEW b \in branches, Star(b) \in line[i].keys, branches' = branches,
           \A r : r.branch # b => (r \in rows' <=> r \in rows),
           \A o \in Op : Besides(i, o) /\ Live(o) /\ o.verb = "add" => AddHolds(o)',
           \A o \in Op : Besides(i, o) /\ Live(o) /\ o.verb = "remove" => RemoveHolds(o)'
    PROVE  \A o \in Op : Besides(i, o) => Holds(o)'
<1> SUFFICES ASSUME NEW o \in Op, Besides(i, o) PROVE Holds(o)'
  OBVIOUS
<1>1. Holds(o)
  BY InLineIs DEF ServicesInv
<1>2. Live(o) => /\ o.verb # "rename"
                 /\ o.verb \in {"add", "deploy"} => o.branch # b
                 /\ o.verb = "clone" => o.branch # b /\ o.source # b
  BY WithStar
<1>3. AddHolds(o)'
  BY DEF AddHolds
<1>4. RemoveHolds(o)'
  BY DEF RemoveHolds
<1>5. RenameHolds(o)'
  BY <1>2 DEF RenameHolds
<1>6. DeployHolds(o)'
  BY <1>1, <1>2 DEF Holds, DeployHolds
<1>7. CloneHolds(o)'
  <2> SUFFICES ASSUME o.verb = "clone", Live(o) PROVE CloneHolds(o)'
    BY <1>1 DEF Holds, CloneHolds
  <2>1. CloneHolds(o) /\ o.branch # b /\ o.source # b
    BY <1>1, <1>2 DEF Holds
  <2>2. \A t \in o.todo : t.branch = o.source => (t \in rows' <=> t \in rows)
    BY <2>1
  <2>3. \A t \in o.todo : Copy(o, t).branch = o.branch /\ (Copy(o, t) \in rows' <=> Copy(o, t) \in rows)
    <3> TAKE t \in o.todo
    <3>1. t \in RowSet
      BY <2>1 DEF CloneHolds
    <3>2. Copy(o, t).branch = o.branch
      BY <3>1 DEF Copy, RowSet
    <3> QED BY <2>1, <3>2
  <2>4. \A r : r.branch \in {o.source, o.branch} => (r \in rows' <=> r \in rows)
    BY <2>1
  <2> QED BY <2>1, <2>2, <2>3, <2>4 DEF CloneHolds
<1> QED BY <1>3, <1>4, <1>5, <1>6, <1>7 DEF Holds

LEMMA ProvisionKeeps == ASSUME ServicesInv, NEW i \in DOMAIN line, Provision(i) PROVE ServicesInv'
<1>0. PICK me : me = line[i]
  OBVIOUS
<1> DEFINE k == me.kind
           q == me.name
           b == me.branch
<1>1. /\ me.verb = "add" /\ me.pc = "provision" /\ Live(me) /\ branches' = branches /\ wired' = wired /\ Leave(i)
  BY <1>0 DEF Provision, At, Live
<1>2. me \in Op /\ Shape(me) /\ InLine(me) /\ LineInv /\ AddHolds(me)
  BY <1>0 DEF ServicesInv, LineInv, InLine, Holds
<1>3. /\ StoreTyped /\ RowsTyped /\ DataMeans /\ HostsApart /\ Registered /\ RowsHaveBytes /\ Boxed /\ WiresHold
  BY DEF ServicesInv, StateInv
<1>4. /\ Star(b) \in me.keys /\ k \in Kind \ {"compute"} /\ q \in Name /\ b \in branches /\ b \in Branch
      /\ me.data \in Data
  BY <1>1, <1>2 DEF Shape, AddHolds
<1>5. /\ AtRename = {}
      /\ \A o : Besides(i, o) /\ Live(o) =>
            /\ o.verb # "rename"
            /\ o.verb \in {"add", "deploy"} => o.branch # b
            /\ o.verb = "clone" => o.branch # b /\ o.source # b
  <2>1. line[i].verb # "rename"
    BY <1>0, <1>1
  <2> QED BY <1>0, <1>1, <1>4, <2>1, WithStar
<1> DEFINE N == {}
<1>6. LeftOf(i, N)
  BY <1>1, <1>2, LeaveIs
<1>7. AtRename' = {}
  BY <1>0, <1>1, <1>5, <1>6, RenamingStays
<1>8. /\ \A r, n : Named(r, n) <=> r.name = n
      /\ \A r, n : Named(r, n)' <=> r.name = n
      /\ \A x, r : Matches(x, r) <=> r.branch = x.branch /\ r.kind = x.kind /\ r.data = x.data /\ x.handle = r.name
      /\ \A x, r : Matches(x, r)' <=> r.branch = x.branch /\ r.kind = x.kind /\ r.data = x.data /\ x.handle = r.name
  BY <1>5, <1>7, NoRename DEF Named, Matches, Ahead, NotAhead
<1>9. PICK made : made = Provisioned(me)
  OBVIOUS
<1>10. PICK nr : nr = Row(b, k, q, q, made.data)
  OBVIOUS
<1>11. /\ made \in BoxSet /\ made.branch = b /\ made.kind = k /\ made.handle = q
       /\ Solid(k) => made.data = me.data
       /\ nr \in RowSet /\ nr.branch = b /\ nr.kind = k /\ nr.name = q /\ nr.handle = q /\ nr.data = made.data
  <2>1. /\ made \in BoxSet /\ made.branch = b /\ made.kind = k /\ made.handle = q
        /\ Solid(k) => made.data = me.data
    <3>1. CASE k = "storage" /\ Taken(me) # {}
      <4>1. made \in Taken(me)
        BY <1>9, <3>1 DEF Provisioned
      <4> QED BY <1>3, <3>1, <4>1 DEF Taken, InBox, StoreTyped, Solid
    <3>2. CASE ~(k = "storage" /\ Taken(me) # {})
      <4>1. made = Thing(b, k, q, me.data)
        BY <1>9, <3>2 DEF Provisioned
      <4> QED BY <1>4, <4>1 DEF Thing, BoxSet
    <3> QED BY <3>1, <3>2
  <2> QED BY <1>4, <1>10, <2>1 DEF Row, RowSet, BoxSet
<1>12. /\ box' = (box \ InBox(b, k, q)) \cup {made} /\ rows' = rows \cup {nr}
       /\ bytes' = IF k = "storage" THEN bytes ELSE bytes \cup {<<b, me.data>>}
       /\ reg' = IF k = "managed" /\ me.first
                 THEN reg \cup {[kind |-> k, name |-> q, data |-> me.data]} ELSE reg
       /\ reserved' = Released(me)
  BY <1>0, <1>9, <1>10 DEF Provision, Taken
<1>13. Solid(k) =>
          /\ ~Carries(b, k, q)
          /\ \A r \in rows : r.branch = b /\ Solid(r.kind) => Label[r.kind][r.name] # Label[k][q]
          /\ k # "managed" => RegClaim(k, q, me.data)
          /\ k = "managed" => (me.first <=> RegOf(k, q) = {})
  BY <1>1, <1>2 DEF AddHolds
<1>14. \A r \in rows : Solid(k) /\ r.branch = b /\ r.kind = k => r.name # q
  BY <1>13 DEF Carries, RowsOf
<1>15. \A m, p, z : RegClaim(m, p, z)' => RegClaim(m, p, z) \/ (m = k /\ p = q /\ z = me.data)
  BY <1>12 DEF RegClaim
<1>16. reg \subseteq reg'
  BY <1>12
<1>17. StoreTyped'
  <2>1. reg' \subseteq RegSet /\ \A e \in reg' : e.kind # "compute" => e.data # None
    BY <1>3, <1>4, <1>12, ServicesAssumption DEF StoreTyped, RegSet
  <2>2. \A e, f \in reg' : e.kind = f.kind /\ e.name = f.name => e = f
    <3>1. CASE reg' = reg
      BY <1>3, <3>1 DEF StoreTyped
    <3>2. CASE reg' # reg
      <4>1. k = "managed" /\ me.first
        BY <1>12, <3>2
      <4>2. RegOf(k, q) = {}
        BY <1>13, <4>1 DEF Solid
      <4>3. \A e \in reg : ~(e.kind = k /\ e.name = q)
        BY <4>2 DEF RegOf
      <4> QED BY <1>3, <1>12, <4>1, <4>3 DEF StoreTyped
    <3> QED BY <3>1, <3>2
  <2> QED BY <1>1, <1>3, <1>11, <1>12, <2>1, <2>2 DEF StoreTyped
<1>18. RowsTyped'
  <2>1. \A r \in rows' : r.branch \in branches'
    BY <1>1, <1>3, <1>4, <1>11, <1>12 DEF RowsTyped
  <2>2. \A r \in rows' : (Solid(r.kind) => r.handle = r.name) /\ (Told(r.kind) => r.data # None)
    BY <1>3, <1>4, <1>11, <1>12, ServicesAssumption DEF RowsTyped, Told, Solid
  <2>3. \A r, s \in rows' : Solid(r.kind) /\ r.branch = s.branch /\ r.kind = s.kind /\ r.name = s.name => r = s
    BY <1>3, <1>11, <1>12, <1>14 DEF RowsTyped
  <2> QED BY <2>1, <2>2, <2>3 DEF RowsTyped
<1>19. HostsApart'
  BY <1>3, <1>11, <1>12, <1>13 DEF HostsApart
<1>20. Registered'
  <2>1. \A r \in rows : Told(r.kind) => \E e \in reg : e.kind = r.kind /\ r.name = e.name
    BY <1>3, <1>8 DEF Registered
  <2>2. Told(k) => \E e \in reg' : e.kind = k /\ q = e.name
    <3>1. CASE k = "managed" /\ me.first
      <4>1. [kind |-> k, name |-> q, data |-> me.data] \in reg'
        BY <1>12, <3>1
      <4> QED BY <4>1
    <3>2. CASE Told(k) /\ ~(k = "managed" /\ me.first)
      BY <1>13, <1>16, <3>2 DEF Told, Solid, RegClaim, RegOf
    <3> QED BY <3>1, <3>2
  <2> QED BY <1>8, <1>11, <1>12, <1>16, <2>1, <2>2 DEF Registered
<1>21. RowsHaveBytes'
  BY <1>3, <1>11, <1>12 DEF RowsHaveBytes, Solid
<1>22. WiresHold'
  BY <1>1, <1>3, <1>12 DEF WiresHold, Carries, RowsOf
<1>23. Boxed'
  <2>1. \A x \in box' : Solid(x.kind) /\ x.data # None => \E r \in rows' : Matches(x, r)'
    <3>1. \A x \in box : Solid(x.kind) /\ x.data # None => \E r \in rows' : Matches(x, r)'
      BY <1>3, <1>8, <1>12 DEF Boxed
    <3>2. Matches(made, nr)'
      BY <1>8, <1>11
    <3> QED BY <1>12, <3>1, <3>2
  <2>2. \A x \in box' : x.kind = "postgres" => x.data # None
    BY <1>3, <1>4, <1>11, <1>12, ServicesAssumption DEF Boxed, Solid
  <2>3. \A r \in rows' : r.kind = "postgres" => InBox(r.branch, "postgres", r.name)' # {} \/ Emptied(r)'
    <3>1. CASE k = "postgres"
      <4>1. made \in InBox(b, "postgres", q)'
        BY <1>11, <1>12, <3>1 DEF InBox
      <4>2. ASSUME NEW r \in rows, r.kind = "postgres"
            PROVE  InBox(r.branch, "postgres", r.name)' # {} \/ Emptied(r)'
        <5>1. ~(r.branch = b /\ r.name = q)
          BY <1>14, <3>1, <4>2 DEF Solid
        <5>2. InBox(r.branch, "postgres", r.name) \subseteq InBox(r.branch, "postgres", r.name)'
          BY <1>12, <5>1 DEF InBox
        <5>3. Emptied(r) => Emptied(r)'
          BY <1>0, <1>1, <1>6, InLineIs DEF Emptied, LeftOf
        <5> QED BY <1>3, <4>2, <5>2, <5>3 DEF Boxed
      <4> QED BY <1>11, <1>12, <4>1, <4>2
    <3>2. CASE k # "postgres"
      <4> SUFFICES ASSUME NEW r \in rows, r.kind = "postgres"
                   PROVE  InBox(r.branch, "postgres", r.name)' # {} \/ Emptied(r)'
        BY <1>11, <1>12, <3>2
      <4>2. InBox(r.branch, "postgres", r.name) \subseteq InBox(r.branch, "postgres", r.name)'
        BY <1>12, <3>2 DEF InBox
      <4>3. Emptied(r) => Emptied(r)'
        BY <1>0, <1>1, <1>6, InLineIs DEF Emptied, LeftOf
      <4> QED BY <1>3, <4>2, <4>3 DEF Boxed
    <3> QED BY <3>1, <3>2
  <2> QED BY <2>1, <2>2, <2>3 DEF Boxed
<1>24. DataMeans'
  <2>1. OpClaim(k, q, me.data)
    BY <1>1, <1>2, <1>4 DEF OpClaim, Holder
  <2>2. \A m, p, z : Solid(m) /\ RowClaim(m, p, z)' => RowClaim(m, p, z) \/ (m = k /\ p = q /\ z = me.data)
    BY <1>8, <1>11, <1>12 DEF RowClaim
  <2>3. \A m, p, z : OpClaim(m, p, z)' => OpClaim(m, p, z)
    BY <1>1, <1>6, OpClaims DEF Holder
  <2>4. \A z \in Data : \A m, p : Solid(m) /\ Claim(m, p, z)' => Claim(m, p, z)
    BY <1>15, <2>1, <2>2, <2>3 DEF Claim
  <2> QED BY <1>3, <2>4, ClaimsKeep
<1>25. \A o \in Op : Besides(i, o) => Holds(o)'
  <2>1. \A r : r.branch # b => (r \in rows' <=> r \in rows)
    BY <1>11, <1>12
  <2>2. \A o \in Op : Besides(i, o) /\ Live(o) /\ o.verb = "add" => AddHolds(o)'
    <3> SUFFICES ASSUME NEW o \in Op, Besides(i, o), Live(o), o.verb = "add" PROVE FALSE
      OBVIOUS
    <3>1. Shape(o) /\ ~(ChainStage(me) /\ ChainStage(o))
      BY <1>0, <1>2, OthersApart
    <3>2. ChainStage(me) /\ ChainStage(o)
      BY <1>1, <3>1 DEF ChainStage, Chained, Shape, At1, Live
    <3> QED BY <3>1, <3>2
  <2>3. \A o \in Op : Besides(i, o) /\ Live(o) /\ o.verb = "remove" => RemoveHolds(o)'
    <3> SUFFICES ASSUME NEW o \in Op, Besides(i, o), Live(o), o.verb = "remove" PROVE RemoveHolds(o)'
      OBVIOUS
    <3>1. RemoveHolds(o) /\ Shape(o)
      BY <1>2, OthersApart, InLineIs DEF ServicesInv, Holds
    <3>2. Carries(o.branch, o.kind, o.name) => Carries(o.branch, o.kind, o.name)'
      BY <1>12 DEF Carries, RowsOf
    <3>3. RegOf(o.kind, o.name) # {} => RegOf(o.kind, o.name)' # {}
      BY <1>16 DEF RegOf
    <3>4. o.pc = "bytes" => InBox(o.branch, o.kind, o.name)' = {}
      <4> SUFFICES ASSUME o.pc = "bytes", NEW x \in box', x.branch = o.branch, x.kind = o.kind, x.handle = o.name
                   PROVE  FALSE
        BY DEF InBox
      <4>1. Carries(o.branch, o.kind, o.name) /\ InBox(o.branch, o.kind, o.name) = {} /\ Solid(o.kind)
        BY <3>1 DEF RemoveHolds, Shape, Solid
      <4>2. x \notin box
        BY <4>1 DEF InBox
      <4>3. x = made
        BY <1>12, <4>2
      <4> QED BY <1>11, <1>13, <4>1, <4>3
    <3> QED BY <3>1, <3>2, <3>3, <3>4 DEF RemoveHolds
  <2>4. line[i].verb # "rename"
    BY <1>0, <1>1
  <2> QED BY <1>0, <1>1, <1>4, <2>1, <2>2, <2>3, <2>4, OthersOnBranch
<1>26. StateInv'
  BY <1>17, <1>18, <1>19, <1>20, <1>21, <1>22, <1>23, <1>24 DEF StateInv
<1> QED BY <1>6, <1>25, <1>26, Assemble

\* An add or a deploy that fails leaves the rows, and the registrations of what has a directory.
LEMMA FailureKeeps ==
    ASSUME ServicesInv, NEW i \in DOMAIN line, line[i].verb \in {"add", "deploy"}, Live(line[i]), Leave(i),
           UNCHANGED <<branches, rows, wired>>, bytes \subseteq bytes', reg' \subseteq reg,
           \A e \in reg : Solid(e.kind) => e \in reg', box' \subseteq BoxSet,
           \A x \in box' : x \in box \/ ~Solid(x.kind) \/ (x.kind # "postgres" /\ x.data = None),
           \A x \in box : x.kind = "postgres" => x \in box',
           \A o \in Op : Besides(i, o) /\ o.verb = "remove" /\ o.pc = "bytes" =>
              \A x \in box' : x \in box \/ ~(x.branch = o.branch /\ x.kind = o.kind /\ x.handle = o.name)
    PROVE  ServicesInv'
<1>0. PICK me : me = line[i]
  OBVIOUS
<1>1. me \in Op /\ Shape(me) /\ InLine(me) /\ LineInv /\ AddHolds(me) /\ DeployHolds(me)
  BY <1>0 DEF ServicesInv, LineInv, InLine, Holds
<1>2. me.branch \in branches /\ Star(me.branch) \in me.keys /\ Live(me)
  BY <1>0, <1>1 DEF Shape, AddHolds, DeployHolds
<1> DEFINE N == {}
           b == me.branch
<1>3. LeftOf(i, N)
  BY <1>1, LeaveIs
<1>4. AtRename = {} /\ AtRename' = AtRename
  BY <1>0, <1>2, <1>3, WithStar, RenamingStays
<1>5. /\ \A r, n : Named(r, n)' <=> Named(r, n)
      /\ \A x, r : Matches(x, r)' <=> Matches(x, r)
  BY <1>4, SameRename
<1>6. /\ StoreTyped /\ RowsTyped /\ DataMeans /\ HostsApart /\ Registered /\ RowsHaveBytes /\ Boxed /\ WiresHold
  BY DEF ServicesInv, StateInv
<1>7. StoreTyped'
  BY <1>6 DEF StoreTyped
<1>8. RowsTyped' /\ HostsApart' /\ RowsHaveBytes' /\ WiresHold'
  BY <1>6 DEF RowsTyped, HostsApart, RowsHaveBytes, WiresHold, Carries, RowsOf
<1>9. Registered'
  BY <1>5, <1>6 DEF Registered, Told, Solid
<1>10. Boxed'
  <2>1. \A x \in box' : Solid(x.kind) /\ x.data # None => \E r \in rows' : Matches(x, r)'
    BY <1>5, <1>6 DEF Boxed
  <2>2. \A x \in box' : x.kind = "postgres" => x.data # None
    BY <1>6 DEF Boxed, Solid
  <2>3. \A r \in rows' : r.kind = "postgres" => InBox(r.branch, "postgres", r.name)' # {} \/ Emptied(r)'
    <3> SUFFICES ASSUME NEW r \in rows, r.kind = "postgres"
                 PROVE  InBox(r.branch, "postgres", r.name)' # {} \/ Emptied(r)'
      OBVIOUS
    <3>1. InBox(r.branch, "postgres", r.name) \subseteq InBox(r.branch, "postgres", r.name)'
      BY DEF InBox
    <3>2. Emptied(r) => Emptied(r)'
      BY <1>3, InLineIs DEF Emptied, LeftOf
    <3> QED BY <1>6, <3>1, <3>2 DEF Boxed
  <2> QED BY <2>1, <2>2, <2>3 DEF Boxed
<1>11. DataMeans'
  <2>1. \A m, p, z : RegClaim(m, p, z)' => RegClaim(m, p, z)
    BY DEF RegClaim
  <2>2. \A m, p, z : RowClaim(m, p, z)' => RowClaim(m, p, z)
    BY <1>5 DEF RowClaim
  <2>3. \A m, p, z : OpClaim(m, p, z)' => OpClaim(m, p, z)
    BY <1>3, OpClaims DEF Holder
  <2> QED BY <1>6, <2>1, <2>2, <2>3, ClaimsKeep DEF Claim
<1>12. \A o \in Op : Besides(i, o) => Holds(o)'
  <2>1. \A r : r.branch # b => (r \in rows' <=> r \in rows)
    OBVIOUS
  <2>2. \A m, p : Solid(m) => RegOf(m, p)' = RegOf(m, p)
    BY DEF RegOf
  <2>3. \A m, p, z : Solid(m) => (RegClaim(m, p, z)' <=> RegClaim(m, p, z))
    BY DEF RegClaim
  <2>4. ASSUME NEW o \in Op, Besides(i, o) PROVE AddHolds(o)'
    <3>1. AddHolds(o)
      BY <2>4, InLineIs DEF ServicesInv, Holds
    <3>2. o.kind = "managed" => RegOf(o.kind, o.name)' = RegOf(o.kind, o.name)
      BY <2>2 DEF Solid
    <3>3. Solid(o.kind) => (RegClaim(o.kind, o.name, o.data)' <=> RegClaim(o.kind, o.name, o.data))
      BY <2>3
    <3> QED BY <3>1, <3>2, <3>3 DEF AddHolds, Carries, RowsOf
  <2>5. ASSUME NEW o \in Op, Besides(i, o), o.verb = "remove", Live(o) PROVE RemoveHolds(o)'
    <3>1. RemoveHolds(o)
      BY <2>5, InLineIs DEF ServicesInv, Holds
    <3>2. Told(o.kind) => RegOf(o.kind, o.name)' = RegOf(o.kind, o.name)
      BY <2>2 DEF Told, Solid
    <3>3. o.pc = "bytes" /\ InBox(o.branch, o.kind, o.name) = {} => InBox(o.branch, o.kind, o.name)' = {}
      BY <2>5 DEF InBox
    <3>4. Carries(o.branch, o.kind, o.name)' <=> Carries(o.branch, o.kind, o.name)
      BY DEF Carries, RowsOf
    <3> QED BY <3>1, <3>2, <3>3, <3>4 DEF RemoveHolds
  <2>6. line[i].verb # "rename"
    OBVIOUS
  <2> QED BY <1>0, <1>2, <2>1, <2>4, <2>5, <2>6, OthersOnBranch
<1>13. StateInv'
  BY <1>7, <1>8, <1>9, <1>10, <1>11 DEF StateInv
<1> QED BY <1>3, <1>12, <1>13, Assemble

LEMMA ProvisionFailsKeeps ==
    ASSUME PostgresSound, ServicesInv, NEW i \in DOMAIN line, ProvisionFails(i)
    PROVE  ServicesInv'
<1>0. PICK me : me = line[i]
  OBVIOUS
<1>1. /\ me.verb = "add" /\ Live(me) /\ UNCHANGED <<branches, rows, wired>> /\ Leave(i)
      /\ me.kind # "postgres"
  BY <1>0 DEF ProvisionFails, At, Live, Fails, PostgresSound
<1>2. me \in Op /\ Shape(me) /\ InLine(me) /\ LineInv /\ AddHolds(me)
  BY <1>0 DEF ServicesInv, LineInv, InLine, Holds
<1>3. /\ me.kind \in Kind /\ me.kind \in {"managed", "storage"} /\ me.name \in Name /\ me.branch \in Branch /\ me.data \in Data
  BY <1>1, <1>2, ServicesAssumption DEF Shape
<1>4. PICK left : left = Thing(me.branch, me.kind, me.name, IF me.kind = "managed" THEN None ELSE me.data)
  OBVIOUS
<1>5. /\ box' \in {box, box \cup {left}}
      /\ bytes' \in {bytes, bytes \cup {<<me.branch, me.data>>}}
      /\ reg' = IF me.first /\ me.kind # "managed" THEN reg \ RegOf(me.kind, me.name) ELSE reg
  BY <1>0, <1>3, <1>4 DEF ProvisionFails
<1>6. /\ left \in BoxSet /\ left.branch = me.branch /\ left.kind = me.kind /\ left.handle = me.name
      /\ me.kind = "managed" => left.data = None
  BY <1>3, <1>4 DEF Thing, BoxSet
<1>7. bytes \subseteq bytes' /\ reg' \subseteq reg /\ box' \subseteq BoxSet /\ box \subseteq box'
  BY <1>5, <1>6 DEF ServicesInv, StateInv, StoreTyped
<1>8. \A e \in reg : Solid(e.kind) => e \in reg'
  BY <1>3, <1>5 DEF RegOf, Solid
<1>9. \A x \in box' : x \in box \/ ~Solid(x.kind) \/ (x.kind # "postgres" /\ x.data = None)
  BY <1>3, <1>5, <1>6 DEF Solid
<1>10. ASSUME NEW o \in Op, Besides(i, o), o.verb = "remove", o.pc = "bytes", NEW x \in box', x \notin box,
              x.branch = o.branch, x.kind = o.kind, x.handle = o.name
       PROVE  FALSE
  <2>1. RemoveHolds(o) /\ Shape(o) /\ Live(o)
    BY <1>2, <1>10, OthersApart, InLineIs DEF ServicesInv, Holds, Live
  <2>2. Carries(o.branch, o.kind, o.name) /\ Solid(o.kind)
    BY <1>10, <2>1 DEF RemoveHolds, Shape, Solid
  <2>3. x = left
    BY <1>5, <1>10
  <2> QED BY <1>1, <1>2, <1>6, <1>10, <2>2, <2>3 DEF AddHolds
<1> QED BY <1>0, <1>1, <1>7, <1>8, <1>9, <1>10, FailureKeeps

-----------------------------------------------------------------------------
\* Deploys.

LEMMA StartDeployKeeps == ASSUME ServicesInv, NEW i \in DOMAIN line, StartDeploy(i) PROVE ServicesInv'
<1>0. PICK me : me = line[i]
  OBVIOUS
<1> DEFINE q == me.name
           b == me.branch
<1>1. /\ me.verb = "deploy" /\ me.pc = "queued" /\ Granted(i)
      /\ UNCHANGED <<branches, reg, rows, wired, box, bytes>>
  BY <1>0 DEF StartDeploy, Starts
<1>2. me \in Op /\ Shape(me) /\ InLine(me) /\ LineInv
  BY <1>0 DEF ServicesInv, LineInv, InLine
<1>3. ASSUME NEW N, LeftOf(i, N), \A o \in N : o.verb # "rename"
      PROVE  /\ \A r \in rows : \A n : Named(r, n)' <=> Named(r, n)
             /\ \A x \in box : \A r \in rows : Matches(x, r) => Matches(x, r)'
             /\ \A r \in rows : Emptied(r) => Emptied(r)'
  <2>1. AtRename' = AtRename
    BY <1>0, <1>1, <1>3, RenamingStays
  <2>2. \A o : InLine(o) /\ o.verb = "remove" => InLine(o)'
    BY <1>0, <1>1, <1>3, InLineIs DEF LeftOf
  <2> QED BY <1>1, <2>1, <2>2, SameRename DEF Emptied
<1>4. CASE Leave(i) /\ UNCHANGED reserved
  <2> DEFINE N == {}
  <2>1. LeftOf(i, N)
    BY <1>2, <1>4, LeaveIs
  <2> QED BY <1>1, <1>3, <1>4, <2>1, QuietStep
<1>5. PICK n : n = [me EXCEPT !.pc = "docker", !.data = DataOf("compute", q), !.first = ~Carries(b, "compute", q)]
  OBVIOUS
<1>6. CASE /\ b \in branches
           /\ n.first => HostFree(b, "compute", q, Owner(n))
           /\ Become(i, n) /\ reserved \subseteq reserved'
  <2>1. Star(b) \in me.keys /\ me.kind = "compute" /\ q \in Name /\ b \in Branch /\ "compute" \in Kind
    BY <1>1, <1>2 DEF Shape
  <2>2. AtRename = {}
    <3>1. line[i].verb # "rename"
      BY <1>0, <1>1
    <3> QED BY <1>0, <1>1, <1>6, <2>1, <3>1, WithStar
  <2>3. /\ DataOf("compute", q) \in Data \cup {None}
        /\ DataOf("compute", q) \in Data => RegClaim("compute", q, DataOf("compute", q))
    <3>1. CASE RegOf("compute", q) = {}
      BY <3>1, DataOfNone, ServicesAssumption
    <3>2. CASE RegOf("compute", q) # {}
      BY <3>2, DataOfIs DEF ServicesInv, StateInv
    <3> QED BY <3>1, <3>2
  <2>4. /\ n \in Op /\ n.verb = "deploy" /\ n.pc = "docker" /\ n.kind = "compute" /\ n.name = q /\ n.branch = b
        /\ n.keys = me.keys /\ n.data = DataOf("compute", q) /\ (n.first <=> ~Carries(b, "compute", q))
    <3>1. PICK f : f = ~Carries(b, "compute", q)
      OBVIOUS
    <3>2. f \in BOOLEAN /\ (f <=> ~Carries(b, "compute", q))
      BY <3>1, Zenon
    <3>3. n = [me EXCEPT !.pc = "docker", !.data = DataOf("compute", q), !.first = f]
      BY <1>5, <3>1, Zenon
    <3>4. /\ n \in Op /\ n.verb = "deploy" /\ n.pc = "docker" /\ n.kind = "compute" /\ n.name = q /\ n.branch = b
          /\ n.keys = me.keys /\ n.data = DataOf("compute", q) /\ n.first = f
      BY <1>1, <1>2, <2>1, <2>3, <3>2, <3>3 DEF Op, AtWork
    <3> QED BY <3>2, <3>4
  <2>5. Shape(n)
    BY <1>1, <1>2, <2>4 DEF Shape, At1, Live
  <2> DEFINE N == {n}
  <2>6. LeftOf(i, N)
    <3>1. (ChainStage(n) => ChainStage(me) \/ ChainFree) /\ (IsNew(n) => IsNew(me))
      BY <2>4 DEF IsNew, ChainStage
    <3> QED BY <1>0, <1>1, <1>2, <1>6, <2>4, <2>5, <3>1, BecomeIs
  <2>7. \A r \in rows : r.branch = b /\ Solid(r.kind) /\ Label[r.kind][r.name] = Label["compute"][q] =>
            r.kind = "compute" /\ r.name = q
    <3>1. CASE n.first
      BY <1>6, <2>2, <3>1, HostIsFree DEF Solid
    <3>2. CASE ~n.first
      <4>1. PICK s \in rows : s.branch = b /\ s.kind = "compute" /\ s.name = q
        BY <2>4, <3>2 DEF Carries, RowsOf
      <4> QED BY <4>1 DEF ServicesInv, StateInv, HostsApart, Solid
    <3> QED BY <3>1, <3>2
  <2>8. Holds(n)'
    <3>1. DeployHolds(n)'
      BY <1>1, <1>6, <2>4, <2>7 DEF DeployHolds
    <3> QED BY <2>4, <3>1 DEF Holds, AddHolds, RemoveHolds, RenameHolds, CloneHolds
  <2>9. \A o \in N : Holder(o) /\ o.data \in Data /\ Solid(o.kind) => Claim(o.kind, o.name, o.data)
    BY <2>3, <2>4 DEF Claim
  <2>10. \A o \in N : o.verb # "rename"
    BY <2>4
  <2> QED BY <1>1, <1>3, <1>6, <2>6, <2>8, <2>9, <2>10, QuietStep
<1>7. \/ Leave(i) /\ UNCHANGED reserved
      \/ b \in branches /\ (n.first => HostFree(b, "compute", q, Owner(n))) /\ Become(i, n) /\ reserved \subseteq reserved'
  <2>1. n.branch = b /\ n.name = q
    BY <1>2, <1>5 DEF Op
  <2>2. n = [line[i] EXCEPT !.pc = "docker", !.data = DataOf("compute", line[i].name),
                            !.first = ~Carries(line[i].branch, "compute", line[i].name)]
    BY <1>0, <1>5
  <2> QED BY <2>1, <2>2 DEF StartDeploy, Reserve
<1> QED BY <1>4, <1>6, <1>7

LEMMA DeployFailsKeeps == ASSUME ServicesInv, NEW i \in DOMAIN line, DeployFails(i) PROVE ServicesInv'
<1>0. PICK me : me = line[i]
  OBVIOUS
<1>1. /\ me.verb = "deploy" /\ Live(me) /\ UNCHANGED <<branches, reg, rows, wired>> /\ Leave(i)
      /\ bytes' = IF me.data = None THEN bytes ELSE bytes \cup {<<me.branch, me.data>>}
  BY <1>0 DEF DeployFails, At, Live
<1>2. me \in Op /\ Shape(me) /\ InLine(me) /\ LineInv
  BY <1>0 DEF ServicesInv, LineInv, InLine
<1>3. me.kind = "compute" /\ me.kind \in Kind /\ me.name \in Name /\ me.branch \in Branch
      /\ Key(me.branch, "compute", me.name) \in me.keys
  BY <1>1, <1>2 DEF Shape
<1>4. PICK left : left = Thing(me.branch, "compute", me.name, None)
  OBVIOUS
<1>5. box' \in {box \ InBox(me.branch, "compute", me.name), (box \ InBox(me.branch, "compute", me.name)) \cup {left}}
  BY <1>0, <1>3, <1>4 DEF DeployFails, Taken
<1>6. /\ left \in BoxSet /\ left.branch = me.branch /\ left.kind = "compute" /\ left.handle = me.name /\ left.data = None
  BY <1>3, <1>4 DEF Thing, BoxSet
<1>7. bytes \subseteq bytes' /\ box' \subseteq BoxSet
  BY <1>1, <1>5, <1>6 DEF ServicesInv, StateInv, StoreTyped
<1>8. \A x \in box' : x \in box \/ ~Solid(x.kind) \/ (x.kind # "postgres" /\ x.data = None)
  BY <1>5, <1>6
<1>9. \A x \in box : x.kind = "postgres" => x \in box'
  BY <1>5 DEF InBox
<1>10. ASSUME NEW o \in Op, Besides(i, o), o.verb = "remove", o.pc = "bytes", NEW x \in box', x \notin box,
              x.branch = o.branch, x.kind = o.kind, x.handle = o.name
       PROVE  FALSE
  <2>1. Shape(o) /\ me.keys \cap o.keys = {}
    <3>1. Live(o)
      BY <1>10 DEF Live
    <3> QED BY <1>0, <1>1, <1>2, <1>10, <3>1, OthersApart
  <2>2. Key(o.branch, o.kind, o.name) \in o.keys
    BY <1>10, <2>1 DEF Shape
  <2>3. x = left
    BY <1>5, <1>10
  <2> QED BY <1>3, <1>6, <1>10, <2>1, <2>2, <2>3
<1> QED BY <1>0, <1>1, <1>7, <1>8, <1>9, <1>10, FailureKeeps

LEMMA DeployKeeps == ASSUME ServicesInv, NEW i \in DOMAIN line, Deploy(i) PROVE ServicesInv'
<1>0. PICK me : me = line[i]
  OBVIOUS
<1> DEFINE q == me.name
           b == me.branch
<1>1. /\ me.verb = "deploy" /\ me.pc = "docker" /\ Live(me) /\ branches' = branches /\ wired' = wired /\ reg' = reg
      /\ Leave(i)
  BY <1>0 DEF Deploy, At, Live
<1>2. me \in Op /\ Shape(me) /\ InLine(me) /\ LineInv /\ DeployHolds(me)
  BY <1>0 DEF ServicesInv, LineInv, InLine, Holds
<1>3. /\ StoreTyped /\ RowsTyped /\ DataMeans /\ HostsApart /\ Registered /\ RowsHaveBytes /\ Boxed /\ WiresHold
  BY DEF ServicesInv, StateInv
<1>4. /\ Star(b) \in me.keys /\ Key(b, "compute", q) \in me.keys /\ me.kind = "compute" /\ "compute" \in Kind
      /\ q \in Name /\ b \in branches /\ b \in Branch /\ me.data \in Data \cup {None}
      /\ \A r \in rows : r.branch = b /\ Solid(r.kind)
                         /\ Label[r.kind][r.name] = Label["compute"][q] => r.kind = "compute" /\ r.name = q
  BY <1>1, <1>2 DEF Shape, DeployHolds, Op
<1>5. AtRename = {}
  <2>1. line[i].verb # "rename"
    BY <1>0, <1>1
  <2> QED BY <1>0, <1>1, <1>4, <2>1, WithStar
<1> DEFINE N == {}
<1>6. LeftOf(i, N)
  BY <1>1, <1>2, LeaveIs
<1>7. AtRename' = {}
  BY <1>0, <1>1, <1>5, <1>6, RenamingStays
<1>8. /\ \A r, n : Named(r, n) <=> r.name = n
      /\ \A r, n : Named(r, n)' <=> r.name = n
      /\ \A x, r : Matches(x, r) <=> r.branch = x.branch /\ r.kind = x.kind /\ r.data = x.data /\ x.handle = r.name
      /\ \A x, r : Matches(x, r)' <=> r.branch = x.branch /\ r.kind = x.kind /\ r.data = x.data /\ x.handle = r.name
  BY <1>5, <1>7, NoRename DEF Named, Matches, Ahead, NotAhead
<1>9. PICK made : made = Thing(b, "compute", q, me.data)
  OBVIOUS
<1>10. PICK nr : nr = Row(b, "compute", q, q, me.data)
  OBVIOUS
<1>11. /\ made \in BoxSet /\ made.branch = b /\ made.kind = "compute" /\ made.handle = q /\ made.data = me.data
       /\ nr \in RowSet /\ nr.branch = b /\ nr.kind = "compute" /\ nr.name = q /\ nr.handle = q /\ nr.data = me.data
  BY <1>4, <1>9, <1>10 DEF Row, RowSet, BoxSet, Thing
<1>12. /\ box' = (box \ InBox(b, "compute", q)) \cup {made}
       /\ rows' = (rows \ RowsOf(b, "compute", q)) \cup {nr}
       /\ bytes' = IF me.data = None THEN bytes ELSE bytes \cup {<<b, me.data>>}
  BY <1>0, <1>4, <1>9, <1>10 DEF Deploy, Taken
<1>13. /\ \A r \in rows' : r = nr \/ (r \in rows /\ ~(r.branch = b /\ r.kind = "compute" /\ r.name = q))
       /\ \A r \in rows : r.kind # "compute" \/ r.branch # b \/ r.name # q => r \in rows'
       /\ nr \in rows'
  BY <1>12 DEF RowsOf
<1>14. \A p, m, n : Carries(p, m, n) => Carries(p, m, n)'
  <2> SUFFICES ASSUME NEW p, NEW m, NEW n, NEW r \in rows, r.branch = p, r.kind = m, r.name = n
               PROVE  \E s \in rows' : s.branch = p /\ s.kind = m /\ s.name = n
    BY DEF Carries, RowsOf
  <2> QED BY <1>11, <1>13
<1>15. StoreTyped'
  BY <1>1, <1>3, <1>11, <1>12 DEF StoreTyped
<1>16. RowsTyped'
  <2>1. \A r \in rows' : r.branch \in branches'
    BY <1>1, <1>3, <1>4, <1>11, <1>13 DEF RowsTyped
  <2>2. \A r \in rows' : (Solid(r.kind) => r.handle = r.name) /\ (Told(r.kind) => r.data # None)
    BY <1>3, <1>11, <1>13 DEF RowsTyped, Told, Solid
  <2>3. \A r, s \in rows' : Solid(r.kind) /\ r.branch = s.branch /\ r.kind = s.kind /\ r.name = s.name => r = s
    BY <1>3, <1>11, <1>13 DEF RowsTyped
  <2> QED BY <2>1, <2>2, <2>3 DEF RowsTyped
<1>17. HostsApart'
  BY <1>3, <1>4, <1>11, <1>13 DEF HostsApart
<1>18. Registered'
  BY <1>1, <1>3, <1>8, <1>11, <1>13 DEF Registered, Told
<1>19. RowsHaveBytes'
  BY <1>3, <1>11, <1>12, <1>13 DEF RowsHaveBytes
<1>20. WiresHold'
  BY <1>1, <1>3, <1>14 DEF WiresHold
<1>21. Boxed'
  <2>1. \A x \in box' : Solid(x.kind) /\ x.data # None => \E r \in rows' : Matches(x, r)'
    <3> SUFFICES ASSUME NEW x \in box', Solid(x.kind), x.data # None PROVE \E r \in rows' : Matches(x, r)'
      OBVIOUS
    <3>1. CASE x = made
      BY <1>8, <1>11, <1>13, <3>1
    <3>2. CASE x # made
      <4>1. x \in box /\ ~(x.branch = b /\ x.kind = "compute" /\ x.handle = q)
        BY <1>12, <3>2 DEF InBox
      <4>2. PICK r \in rows : r.branch = x.branch /\ r.kind = x.kind /\ r.data = x.data /\ x.handle = r.name
        BY <1>3, <1>8, <4>1 DEF Boxed
      <4> QED BY <1>8, <1>13, <4>1, <4>2
    <3> QED BY <3>1, <3>2
  <2>2. \A x \in box' : x.kind = "postgres" => x.data # None
    BY <1>3, <1>11, <1>12 DEF Boxed
  <2>3. \A r \in rows' : r.kind = "postgres" => InBox(r.branch, "postgres", r.name)' # {} \/ Emptied(r)'
    <3> SUFFICES ASSUME NEW r \in rows, r.kind = "postgres"
                 PROVE  InBox(r.branch, "postgres", r.name)' # {} \/ Emptied(r)'
      BY <1>11, <1>13
    <3>1. InBox(r.branch, "postgres", r.name) \subseteq InBox(r.branch, "postgres", r.name)'
      BY <1>12 DEF InBox
    <3>2. Emptied(r) => Emptied(r)'
      BY <1>0, <1>1, <1>6, InLineIs DEF Emptied, LeftOf
    <3> QED BY <1>3, <3>1, <3>2 DEF Boxed
  <2> QED BY <2>1, <2>2, <2>3 DEF Boxed
<1>22. DataMeans'
  <2>1. me.data \in Data => OpClaim("compute", q, me.data)
    BY <1>1, <1>2, <1>4 DEF OpClaim, Holder
  <2>2. \A m, p, z : RowClaim(m, p, z)' => RowClaim(m, p, z) \/ (m = "compute" /\ p = q /\ z = me.data)
    BY <1>8, <1>11, <1>13 DEF RowClaim
  <2>3. \A m, p, z : OpClaim(m, p, z)' => OpClaim(m, p, z)
    BY <1>1, <1>6, OpClaims DEF Holder
  <2>4. \A z \in Data : \A m, p : Solid(m) /\ Claim(m, p, z)' => Claim(m, p, z)
    BY <1>1, <2>1, <2>2, <2>3 DEF Claim, RegClaim
  <2> QED BY <1>3, <2>4, ClaimsKeep
<1>23. \A o \in Op : Besides(i, o) => Holds(o)'
  <2>1. \A r : r.branch # b => (r \in rows' <=> r \in rows)
    BY <1>11, <1>12 DEF RowsOf
  <2>2. \A o \in Op : Besides(i, o) /\ Live(o) /\ o.verb = "add" => AddHolds(o)'
    <3> SUFFICES ASSUME NEW o \in Op, Besides(i, o), Live(o), o.verb = "add" PROVE AddHolds(o)'
      OBVIOUS
    <3>1. AddHolds(o) /\ Shape(o)
      BY <1>2, OthersApart, InLineIs DEF ServicesInv, Holds
    <3>2. o.branch # b /\ o.kind # "compute"
      <4>1. line[i].verb # "rename"
        BY <1>0, <1>1
      <4>2. o.branch # b
        BY <1>0, <1>1, <1>4, <4>1, WithStar
      <4> QED BY <3>1, <4>2 DEF Shape
    <3>3. ~Carries(o.branch, o.kind, o.name) => ~Carries(o.branch, o.kind, o.name)'
      BY <1>13, <1>11, <3>2 DEF Carries, RowsOf
    <3>4. \A r \in rows' : r.branch = o.branch \/ r.kind = o.kind => r \in rows
      BY <1>11, <1>13, <3>2
    <3> QED BY <1>1, <3>1, <3>3, <3>4 DEF AddHolds, RegClaim, RegOf
  <2>3. \A o \in Op : Besides(i, o) /\ Live(o) /\ o.verb = "remove" => RemoveHolds(o)'
    <3> SUFFICES ASSUME NEW o \in Op, Besides(i, o), Live(o), o.verb = "remove" PROVE RemoveHolds(o)'
      OBVIOUS
    <3>1. RemoveHolds(o) /\ Shape(o) /\ me.keys \cap o.keys = {}
      BY <1>0, <1>1, <1>2, OthersApart, InLineIs DEF ServicesInv, Holds
    <3>2. ~(o.branch = b /\ o.kind = "compute" /\ o.name = q)
      BY <1>4, <3>1 DEF Shape
    <3>3. InBox(o.branch, o.kind, o.name) = {} => InBox(o.branch, o.kind, o.name)' = {}
      BY <1>11, <1>12, <3>2 DEF InBox
    <3> QED BY <1>1, <1>14, <3>1, <3>3 DEF RemoveHolds, RegOf
  <2>4. line[i].verb # "rename"
    BY <1>0, <1>1
  <2> QED BY <1>0, <1>1, <1>4, <2>1, <2>2, <2>3, <2>4, OthersOnBranch
<1>24. StateInv'
  BY <1>15, <1>16, <1>17, <1>18, <1>19, <1>20, <1>21, <1>22 DEF StateInv
<1> QED BY <1>6, <1>23, <1>24, Assemble

-----------------------------------------------------------------------------
\* Calls.

\* A step that changes neither the store nor docker leaves the state as it was, whatever is in line.
LEMMA SameState ==
    ASSUME ServicesInv, UNCHANGED <<branches, reg, rows, wired, box, bytes>>, AtRename' = AtRename,
           \A o \in Op : InLine(o)' /\ Holder(o)' => InLine(o) /\ Holder(o),
           \A o \in Op : InLine(o) /\ o.verb = "remove" /\ o.pc = "bytes" => InLine(o)'
    PROVE  StateInv'
<1>1. /\ StoreTyped /\ RowsTyped /\ DataMeans /\ HostsApart /\ Registered /\ RowsHaveBytes /\ Boxed /\ WiresHold
  BY DEF ServicesInv, StateInv
<1>2. /\ \A r, m : Named(r, m)' <=> Named(r, m)
      /\ \A x, r : Matches(x, r)' <=> Matches(x, r)
  BY SameRename
<1>3. StoreTyped' /\ RowsTyped' /\ HostsApart' /\ RowsHaveBytes' /\ WiresHold'
  BY <1>1 DEF StoreTyped, RowsTyped, HostsApart, RowsHaveBytes, WiresHold, Carries, RowsOf
<1>4. Registered'
  BY <1>1, <1>2 DEF Registered
<1>5. Boxed'
  <2>1. \A r \in rows : Emptied(r) => Emptied(r)'
    BY DEF Emptied
  <2>2. \A b, h : InBox(b, "postgres", h)' = InBox(b, "postgres", h)
    BY DEF InBox
  <2>3. \A r \in rows : r.kind = "postgres" => InBox(r.branch, "postgres", r.name)' # {} \/ Emptied(r)'
    BY <1>1, <2>1, <2>2 DEF Boxed
  <2> QED BY <1>1, <1>2, <2>3 DEF Boxed
<1>6. DataMeans'
  <2>1. \A m, q, z : RegClaim(m, q, z)' => RegClaim(m, q, z)
    BY DEF RegClaim
  <2>2. \A m, q, z : RowClaim(m, q, z)' => RowClaim(m, q, z)
    BY <1>2 DEF RowClaim
  <2>3. \A m, q, z : OpClaim(m, q, z)' => OpClaim(m, q, z)
    BY DEF OpClaim
  <2> QED BY <1>1, <2>1, <2>2, <2>3, ClaimsKeep DEF Claim
<1> QED BY <1>3, <1>4, <1>5, <1>6 DEF StateInv

LEMMA AskKeeps ==
    ASSUME ServicesInv, NEW n \in Op, n.pc = "queued", Shape(n), Enter(n), UNCHANGED <<store, box, bytes>>,
           CloneHolds(n),
           \A j \in DOMAIN line : IsNew(n) \/ IsNew(line[j]) => n.branch # line[j].branch
    PROVE  ServicesInv'
<1>1. \A j \in DOMAIN line : Ordered(line[j], n)
  BY DEF Ordered, Live, ChainStage
<1>2. LineInv' /\ \A o : InLine(o)' <=> o = n \/ InLine(o)
  BY <1>1, EnterKeepsLine DEF ServicesInv
<1>3. UNCHANGED <<branches, reg, rows, wired, reserved, box, bytes>>
  BY DEF store
<1>4. AtRename' = AtRename
  BY <1>2 DEF AtRename, Live
<1>5. StateInv'
  <2>1. \A o \in Op : InLine(o)' /\ Holder(o)' => InLine(o) /\ Holder(o)
    BY <1>2, <1>3 DEF Holder, Live
  <2>2. \A o \in Op : InLine(o) /\ o.verb = "remove" /\ o.pc = "bytes" => InLine(o)'
    BY <1>2
  <2> QED BY <1>3, <1>4, <2>1, <2>2, SameState
<1>6. \A o \in Op : InLine(o) => Holds(o)'
  <2> SUFFICES ASSUME NEW o \in Op, InLine(o) PROVE Holds(o)'
    OBVIOUS
  <2>1. Holds(o)
    BY DEF ServicesInv
  <2> QED BY <1>3, <2>1, StillHolds
<1>7. Holds(n)'
  <2>1. Holds(n)
    BY DEF Holds, AddHolds, DeployHolds, RemoveHolds, RenameHolds, Live
  <2> QED BY <1>3, <2>1, StillHolds
<1> QED BY <1>2, <1>5, <1>6, <1>7 DEF ServicesInv

\* The branch of a clone in line is none of those there are.
LEMMA NewIsElsewhere ==
    ASSUME ServicesInv, NEW j \in DOMAIN line, IsNew(line[j])
    PROVE  line[j].branch \in Branch \ branches
BY DEF ServicesInv, LineInv, Shape, Holds, CloneHolds, InLine, IsNew

LEMMA AskAddKeeps ==
    ASSUME ServicesInv, NEW b \in Branch, NEW k \in Kind, NEW q \in Name, AskAdd(b, k, q)
    PROVE  ServicesInv'
<1>1. PICK n : n = [NewOp EXCEPT !.kind = k, !.name = q, !.branch = b, !.keys = {Star(b)}]
  OBVIOUS
<1>2. /\ n \in Op /\ n.verb = "add" /\ n.kind = k /\ n.name = q /\ n.branch = b /\ n.keys = {Star(b)} /\ n.pc = "queued"
  <2>1. {Star(b)} \in SUBSET (Branch \X (Kind \cup {"*branch"}) \X (Name \cup {"*branch"}))
    BY DEF Star
  <2> QED BY <1>1, <2>1 DEF NewOp, Op, Verbs
<1>3. k # "compute" /\ b \in branches /\ Enter(n) /\ UNCHANGED <<store, box, bytes>>
  BY <1>1 DEF AskAdd
<1>4. Shape(n) /\ CloneHolds(n) /\ ~IsNew(n)
  BY <1>2, <1>3 DEF Shape, At1, CloneHolds, IsNew, Live
<1>5. \A j \in DOMAIN line : IsNew(n) \/ IsNew(line[j]) => n.branch # line[j].branch
  BY <1>2, <1>3, <1>4, NewIsElsewhere
<1> QED BY <1>2, <1>3, <1>4, <1>5, AskKeeps

LEMMA AskDeployKeeps ==
    ASSUME ServicesInv, NEW b \in Branch, NEW q \in Name, AskDeploy(b, q)
    PROVE  ServicesInv'
<1>1. PICK n : n = [NewOp EXCEPT !.verb = "deploy", !.name = q, !.branch = b,
                                 !.keys = {Star(b), Key(b, "compute", q)}]
  OBVIOUS
<1>0. "compute" \in Kind
  BY ServicesAssumption DEF AskDeploy
<1>2. /\ n \in Op /\ n.verb = "deploy" /\ n.kind = "compute" /\ n.name = q /\ n.branch = b
      /\ n.keys = {Star(b), Key(b, "compute", q)} /\ n.pc = "queued"
  <2>1. {Star(b), Key(b, "compute", q)} \in SUBSET (Branch \X (Kind \cup {"*branch"}) \X (Name \cup {"*branch"}))
    BY <1>0 DEF Star, Key
  <2> QED BY <1>0, <1>1, <2>1 DEF NewOp, Op, Verbs
<1>3. b \in branches /\ Enter(n) /\ UNCHANGED <<store, box, bytes>>
  BY <1>1 DEF AskDeploy
<1>4. Shape(n) /\ CloneHolds(n) /\ ~IsNew(n)
  BY <1>0, <1>2, <1>3 DEF Shape, At1, CloneHolds, IsNew, Live
<1>5. \A j \in DOMAIN line : IsNew(n) \/ IsNew(line[j]) => n.branch # line[j].branch
  BY <1>2, <1>3, <1>4, NewIsElsewhere
<1> QED BY <1>2, <1>3, <1>4, <1>5, AskKeeps

LEMMA DataOfTyped == ASSUME StoreTyped, NEW k, NEW n PROVE DataOf(k, n) \in Data \cup {None}
<1>1. CASE RegOf(k, n) = {}
  BY <1>1, DataOfNone
<1>2. CASE RegOf(k, n) # {}
  BY <1>2, DataOfIs
<1> QED BY <1>1, <1>2

LEMMA AskRemoveKeeps ==
    ASSUME ServicesInv, NEW b \in Branch, NEW k \in Kind, NEW q \in Name, AskRemove(b, k, q)
    PROVE  ServicesInv'
<1>1. PICK n : n = [NewOp EXCEPT !.verb = "remove", !.kind = k, !.name = q, !.branch = b,
                                 !.keys = {Key(b, k, q)}, !.data = DataOf(k, q)]
  OBVIOUS
<1>0. DataOf(k, q) \in Data \cup {None}
  BY DataOfTyped DEF ServicesInv, StateInv
<1>2. /\ n \in Op /\ n.verb = "remove" /\ n.kind = k /\ n.name = q /\ n.branch = b
      /\ n.keys = {Key(b, k, q)} /\ n.pc = "queued"
  <2>1. {Key(b, k, q)} \in SUBSET (Branch \X (Kind \cup {"*branch"}) \X (Name \cup {"*branch"}))
    BY DEF Key
  <2> QED BY <1>0, <1>1, <2>1 DEF NewOp, Op, Verbs
<1>3. b \in branches /\ Enter(n) /\ UNCHANGED <<store, box, bytes>>
  <2>1. Enter(n) /\ UNCHANGED <<store, box, bytes>> /\ Removable(n)
    BY <1>1 DEF AskRemove
  <2> QED BY <1>2, <2>1 DEF Removable
<1>4. Shape(n) /\ CloneHolds(n) /\ ~IsNew(n)
  BY <1>2, <1>3 DEF Shape, At1, CloneHolds, IsNew, Live
<1>5. \A j \in DOMAIN line : IsNew(n) \/ IsNew(line[j]) => n.branch # line[j].branch
  BY <1>2, <1>3, <1>4, NewIsElsewhere
<1> QED BY <1>2, <1>3, <1>4, <1>5, AskKeeps

LEMMA AskRenameKeeps ==
    ASSUME ServicesInv, NEW k \in Kind, NEW q \in Name, NEW m \in Name, AskRename(k, q, m)
    PROVE  ServicesInv'
<1>1. PICK n : n = [NewOp EXCEPT !.verb = "rename", !.kind = k, !.name = q, !.to = m,
                                 !.branch = None, !.keys = RenameKeys(k, q)]
  OBVIOUS
<1>0. RenameKeys(k, q) \in SUBSET (Branch \X (Kind \cup {"*branch"}) \X (Name \cup {"*branch"}))
  BY DEF RenameKeys, Star, Key, ServicesInv, StateInv, StoreTyped
<1>2. /\ n \in Op /\ n.verb = "rename" /\ n.kind = k /\ n.name = q /\ n.to = m /\ n.branch = None /\ n.pc = "queued"
      /\ n.done = {}
  BY <1>0, <1>1 DEF NewOp, Op, Verbs
<1>3. q # m /\ Enter(n) /\ UNCHANGED <<store, box, bytes>>
  BY <1>1 DEF AskRename
<1>4. Shape(n) /\ CloneHolds(n) /\ ~IsNew(n)
  BY <1>2, <1>3 DEF Shape, At1, CloneHolds, IsNew, Live
<1>5. \A j \in DOMAIN line : IsNew(n) \/ IsNew(line[j]) => n.branch # line[j].branch
  BY <1>2, <1>3, <1>4, NewIsElsewhere, ServicesAssumption
<1> QED BY <1>2, <1>3, <1>4, <1>5, AskKeeps

LEMMA CloneKeysTyped ==
    ASSUME StoreTyped, NEW s \in Branch, NEW c \in Branch
    PROVE  CloneKeys(s, c) \in SUBSET (Branch \X (Kind \cup {"*branch"}) \X (Name \cup {"*branch"}))
BY DEF CloneKeys, Star, Key, StoreTyped, RowSet

LEMMA AskCloneKeeps ==
    ASSUME ServicesInv, NEW s \in Branch, NEW c \in Branch, AskClone(s, c)
    PROVE  ServicesInv'
<1>1. PICK n : n = [NewOp EXCEPT !.verb = "clone", !.kind = "branch", !.branch = c, !.source = s, !.keys = CloneKeys(s, c)]
  OBVIOUS
<1>0. CloneKeys(s, c) \in SUBSET (Branch \X (Kind \cup {"*branch"}) \X (Name \cup {"*branch"}))
  BY CloneKeysTyped DEF ServicesInv, StateInv
<1>2. /\ n \in Op /\ n.verb = "clone" /\ n.kind = "branch" /\ n.branch = c /\ n.source = s /\ n.pc = "queued"
      /\ n.keys = CloneKeys(s, c)
  BY <1>0, <1>1 DEF NewOp, Op, Verbs
<1>3. /\ s \in branches /\ c \notin branches /\ Main \in branches
      /\ \A i \in DOMAIN line : line[i].branch # c
      /\ Enter(n) /\ UNCHANGED <<store, box, bytes>>
  BY <1>1 DEF AskClone, ServicesInv, StateInv, StoreTyped
<1>4. Star(c) \in n.keys /\ Star(s) \in n.keys
  BY <1>2 DEF CloneKeys
<1>5. Shape(n) /\ CloneHolds(n)
  BY <1>2, <1>3, <1>4 DEF Shape, At1, CloneHolds, IsNew, Live
<1> QED BY <1>2, <1>3, <1>5, AskKeeps

LEMMA WireKeeps ==
    ASSUME DatabasesBound, ServicesInv, NEW b \in Branch, NEW k \in Kind, NEW q \in Name, Wire(b, k, q)
    PROVE  ServicesInv'
<1>1. /\ <<"bind", k, q>> \in Calls /\ b \in branches /\ Carries(b, k, q)
      /\ wired' = wired \cup {[branch |-> b, kind |-> k, name |-> q]}
      /\ UNCHANGED <<branches, reg, rows, reserved, box, bytes, line>>
  BY DEF Wire
<1>2. k = "postgres"
  BY <1>1 DEF DatabasesBound
<1>3. LineInv' /\ AtRename' = AtRename /\ \A o : InLine(o)' <=> InLine(o)
  BY <1>1, SameLine DEF ServicesInv
<1>4. /\ StoreTyped /\ RowsTyped /\ DataMeans /\ HostsApart /\ Registered /\ RowsHaveBytes /\ Boxed /\ WiresHold
  BY DEF ServicesInv, StateInv
<1>5. /\ \A r, m : Named(r, m)' <=> Named(r, m)
      /\ \A x, r : Matches(x, r)' <=> Matches(x, r)
  BY <1>3, SameRename
<1>6. StoreTyped' /\ RowsTyped' /\ HostsApart' /\ RowsHaveBytes'
  BY <1>1, <1>2, <1>4 DEF StoreTyped, RowsTyped, HostsApart, RowsHaveBytes
<1>7. Registered'
  BY <1>1, <1>4, <1>5 DEF Registered
<1>8. WiresHold'
  BY <1>1, <1>4 DEF WiresHold, Carries, RowsOf
<1>9. Boxed'
  <2>1. \A r \in rows : Emptied(r) => Emptied(r)'
    BY <1>3 DEF Emptied
  <2>2. \A p, h : InBox(p, "postgres", h)' = InBox(p, "postgres", h)
    BY <1>1 DEF InBox
  <2>3. \A r \in rows : r.kind = "postgres" => InBox(r.branch, "postgres", r.name)' # {} \/ Emptied(r)'
    BY <1>4, <2>1, <2>2 DEF Boxed
  <2> QED BY <1>1, <1>4, <1>5, <2>3 DEF Boxed
<1>10. DataMeans'
  <2>1. \A m, p, z : RegClaim(m, p, z)' => RegClaim(m, p, z)
    BY <1>1 DEF RegClaim
  <2>2. \A m, p, z : RowClaim(m, p, z)' => RowClaim(m, p, z)
    BY <1>1, <1>5 DEF RowClaim
  <2>3. \A m, p, z : OpClaim(m, p, z)' => OpClaim(m, p, z)
    BY <1>1, <1>3 DEF OpClaim, Holder
  <2> QED BY <1>4, <2>1, <2>2, <2>3, ClaimsKeep DEF Claim
<1>11. ASSUME NEW o \in Op, InLine(o) PROVE Holds(o)'
  <2>1. Holds(o)
    BY <1>11 DEF ServicesInv
  <2> QED BY <1>1, <2>1, StillHolds
<1> QED BY <1>3, <1>6, <1>7, <1>8, <1>9, <1>10, <1>11 DEF ServicesInv, StateInv

-----------------------------------------------------------------------------
\* Removals.

\* No rename at work touches the rows that a removal takes.
LEMMA Untouched ==
    ASSUME ServicesInv, NEW i \in DOMAIN line, line[i].verb = "remove", Live(line[i]),
           Carries(line[i].branch, line[i].kind, line[i].name)
    PROVE  /\ line[i].branch \in branches
           /\ \A o \in AtRename : o.kind = line[i].kind => o.name # line[i].name /\ o.to # line[i].name
<1>0. PICK me : me = line[i]
  OBVIOUS
<1>1. me \in Op /\ Shape(me) /\ InLine(me) /\ LineInv /\ RemoveHolds(me)
  BY <1>0 DEF ServicesInv, LineInv, InLine, Holds
<1>2. PICK r \in rows : r.branch = me.branch /\ r.kind = me.kind /\ r.name = me.name
  BY <1>0 DEF Carries, RowsOf
<1>3. me.branch \in branches /\ Key(me.branch, me.kind, me.name) \in me.keys
  BY <1>0, <1>1, <1>2 DEF Shape, ServicesInv, StateInv, RowsTyped
<1>4. ASSUME NEW o \in AtRename, o.kind = me.kind PROVE o.name # me.name /\ o.to # me.name
  <2>1. o \in Op /\ InLine(o) /\ Live(o) /\ o.verb = "rename" /\ RenameHolds(o) /\ Shape(o)
    BY DEF AtRename, ServicesInv, Holds, InLine, LineInv
  <2>2. Besides(i, o)
    BY <1>0, <2>1, InLineIs
  <2>3. me.keys \cap o.keys = {}
    BY <1>0, <1>1, <2>1, <2>2, OthersApart
  <2>4. o.name # me.name
    BY <1>3, <1>4, <2>1, <2>3 DEF RenameHolds
  <2>5. ASSUME o.to = me.name PROVE FALSE
    <3>1. me.kind = "postgres"
      BY <1>2, <1>4, <2>1, <2>5 DEF RenameHolds
    <3>2. RegOf(me.kind, me.name) # {}
      BY <1>0, <1>1, <3>1 DEF RemoveHolds, Told
    <3> QED BY <1>4, <2>1, <2>5, <3>2 DEF RenameHolds
  <2> QED BY <2>4, <2>5
<1> QED BY <1>0, <1>3, <1>4

LEMMA TakenAwayKeeps ==
    ASSUME ServicesInv, Undisturbed, NEW i \in DOMAIN line, line[i].verb = "remove", Live(line[i]), TakenAway(i),
           box' \subseteq box, \A x \in box : Solid(x.kind) => x \in box',
           Solid(line[i].kind) => \/ InBox(line[i].branch, line[i].kind, line[i].name) = {}
                                  \/ ~Carries(line[i].branch, line[i].kind, line[i].name),
           \A r \in rows : r \notin RowsOf(line[i].branch, line[i].kind, line[i].name)
                           /\ r.data # None /\ Solid(r.kind) => <<r.branch, r.data>> \in bytes'
    PROVE  ServicesInv'
<1>0. PICK me : me = line[i]
  OBVIOUS
<1> DEFINE b == me.branch
           k == me.kind
           q == me.name
           mine == RowsOf(b, k, q)
<1>1. me \in Op /\ Shape(me) /\ InLine(me) /\ LineInv /\ RemoveHolds(me) /\ Live(me) /\ me.verb = "remove"
  BY <1>0 DEF ServicesInv, LineInv, InLine, Holds
<1>2. /\ rows' = rows \ mine /\ wired' = wired \ {[branch |-> b, kind |-> k, name |-> q]}
      /\ reg' = IF Carriers(k, q) \subseteq {b} THEN reg \ RegOf(k, q) ELSE reg
      /\ Leave(i) /\ UNCHANGED <<branches, reserved>>
  BY <1>0 DEF TakenAway
<1>3. /\ StoreTyped /\ RowsTyped /\ DataMeans /\ HostsApart /\ Registered /\ RowsHaveBytes /\ Boxed /\ WiresHold
  BY DEF ServicesInv, StateInv
<1>4. Key(b, k, q) \in me.keys /\ k \in Kind /\ q \in Name /\ b \in Branch
  BY <1>1 DEF Shape
<1>5. /\ \A r \in rows' : r \in rows /\ ~(r.branch = b /\ r.kind = k /\ r.name = q)
      /\ \A r \in rows : r.branch # b \/ r.kind # k \/ r.name # q => r \in rows'
      /\ \A r \in mine : r \in rows /\ r.branch = b /\ r.kind = k /\ r.name = q
      /\ rows' \subseteq rows /\ reg' \subseteq reg
      /\ \A e \in reg : e.kind # k \/ e.name # q => e \in reg'
  BY <1>2 DEF RowsOf, RegOf
<1>6. mine # {} => /\ b \in branches
                   /\ \A o \in AtRename : o.kind = k => o.name # q /\ o.to # q
  BY <1>0, <1>1, Untouched DEF Carries
<1>7. ASSUME NEW r \in rows, r.kind = k, r.name = q, r.branch # b
      PROVE  reg' = reg
  BY <1>2, <1>3, <1>7 DEF Carriers, Carries, RowsOf, RowsTyped
<1> DEFINE N == {}
<1>8. LeftOf(i, N)
  BY <1>1, <1>2, LeaveIs
<1>9. AtRename' = AtRename
  BY <1>0, <1>1, <1>8, RenamingStays
<1>10. /\ \A r, n : Named(r, n)' <=> Named(r, n)
       /\ \A x, r : Matches(x, r)' <=> Matches(x, r)
  BY <1>9, SameRename
<1>11. Told(k) => mine # {}
  BY <1>1 DEF RemoveHolds, Carries
<1>12. StoreTyped' /\ RowsTyped' /\ HostsApart'
  BY <1>2, <1>3, <1>5 DEF StoreTyped, RowsTyped, HostsApart
<1>13. RowsHaveBytes'
  <2> SUFFICES ASSUME NEW r \in rows', r.data # None, r.kind # "storage" PROVE <<r.branch, r.data>> \in bytes'
    BY DEF RowsHaveBytes
  <2>1. r \in rows /\ r \notin mine /\ Solid(r.kind)
    BY <1>2 DEF Solid
  <2> QED BY <1>0, <2>1
<1>14. Registered'
  <2> SUFFICES ASSUME NEW r \in rows', Told(r.kind) PROVE \E e \in reg' : e.kind = r.kind /\ Named(r, e.name)
    BY <1>10 DEF Registered
  <2>1. PICK e \in reg : e.kind = r.kind /\ Named(r, e.name)
    BY <1>3, <1>5 DEF Registered
  <2>2. CASE e \in reg'
    BY <2>1, <2>2
  <2>3. CASE e \notin reg'
    <3>1. e.kind = k /\ e.name = q /\ reg' # reg
      BY <1>5, <2>3
    <3>2. \A o \in AtRename : o.kind = k => o.name # q /\ o.to # q
      BY <1>6, <1>11, <2>1, <3>1
    <3>3. r.name = q
      BY <2>1, <3>1, <3>2 DEF Named
    <3> QED BY <1>5, <1>7, <2>1, <3>1, <3>3
  <2> QED BY <2>2, <2>3
<1>15. Boxed'
  <2>1. \A x \in box' : Solid(x.kind) /\ x.data # None => \E r \in rows' : Matches(x, r)'
    <3> SUFFICES ASSUME NEW x \in box', Solid(x.kind), x.data # None PROVE \E r \in rows' : Matches(x, r)
      BY <1>10
    <3>1. PICK r \in rows : Matches(x, r)
      BY <1>3 DEF Boxed
    <3>2. CASE r \in rows'
      BY <3>1, <3>2
    <3>3. CASE r \notin rows'
      <4>1. r \in mine /\ r.branch = b /\ r.kind = k /\ r.name = q
        BY <1>2, <1>5, <3>3
      <4>2. x.branch = b /\ x.kind = k /\ x.handle = q
        BY <1>6, <3>1, <4>1 DEF Matches, Ahead
      <4>3. Carries(b, k, q) /\ InBox(b, k, q) # {}
        BY <4>1, <4>2 DEF Carries, InBox
      <4> QED BY <1>0, <4>2, <4>3
    <3> QED BY <3>2, <3>3
  <2>2. \A x \in box' : x.kind = "postgres" => x.data # None
    BY <1>3 DEF Boxed
  <2>3. ASSUME NEW r \in rows', r.kind = "postgres"
        PROVE  InBox(r.branch, "postgres", r.name)' # {} \/ Emptied(r)'
    <3>1. InBox(r.branch, "postgres", r.name)' = InBox(r.branch, "postgres", r.name)
      BY DEF InBox, Solid
    <3>2. Emptied(r) => Emptied(r)'
      <4> SUFFICES ASSUME NEW o \in Op, InLine(o), o.verb = "remove", o.pc = "bytes",
                          o.branch = r.branch, o.kind = "postgres", o.name = r.name
                   PROVE  InLine(o)'
        BY DEF Emptied
      <4>1. o # me
        BY <1>5, <2>3
      <4> QED BY <1>0, <1>8, <4>1, InLineIs DEF LeftOf
    <3> QED BY <1>3, <1>5, <2>3, <3>1, <3>2 DEF Boxed
  <2> QED BY <2>1, <2>2, <2>3 DEF Boxed
<1>16. WiresHold'
  <2> SUFFICES ASSUME NEW w \in wired' PROVE Carries(w.branch, w.kind, w.name)'
    BY DEF WiresHold
  <2>1. w \in wired /\ w # [branch |-> b, kind |-> k, name |-> q]
    BY <1>2
  <2>2. w \in [branch : Branch, kind : {"postgres"}, name : Name]
    BY <1>3, <2>1 DEF StoreTyped
  <2>3. ~(w.branch = b /\ w.kind = k /\ w.name = q)
    BY <2>1, <2>2
  <2>4. PICK r \in rows : r.branch = w.branch /\ r.kind = w.kind /\ r.name = w.name
    BY <1>3, <2>1 DEF WiresHold, Carries, RowsOf
  <2> QED BY <1>5, <2>3, <2>4 DEF Carries, RowsOf
<1>17. DataMeans'
  <2>1. \A m, p, z : RegClaim(m, p, z)' => RegClaim(m, p, z)
    BY <1>5 DEF RegClaim
  <2>2. \A m, p, z : RowClaim(m, p, z)' => RowClaim(m, p, z)
    BY <1>5, <1>10 DEF RowClaim
  <2>3. \A m, p, z : OpClaim(m, p, z)' => OpClaim(m, p, z)
    BY <1>2, <1>8, OpClaims DEF Holder
  <2> QED BY <1>3, <2>1, <2>2, <2>3, ClaimsKeep DEF Claim
<1>18. ASSUME NEW o \in Op, Besides(i, o) PROVE Holds(o)'
  <2>1. Holds(o) /\ Shape(o)
    BY <1>1, <1>18, OthersApart, InLineIs DEF ServicesInv
  <2>2. Live(o) => me.keys \cap o.keys = {}
    BY <1>0, <1>1, <1>18, OthersApart
  <2>3. AddHolds(o)'
    <3> SUFFICES ASSUME o.verb = "add", Live(o) PROVE AddHolds(o)'
      BY DEF AddHolds
    <3>1. o.kind # k \/ o.name # q
      <4>1. PICK j \in DOMAIN line : line[j] = o
        BY <1>18 DEF Besides
      <4>2. o.pc = "provision"
        BY <2>1 DEF Shape, At1, Live
      <4> QED BY <1>0, <4>1, <4>2 DEF Undisturbed, At
    <3>2. AddHolds(o)
      BY <2>1 DEF Holds
    <3>3. RegClaim(o.kind, o.name, o.data) => RegClaim(o.kind, o.name, o.data)'
      BY <1>5, <3>1 DEF RegClaim
    <3>4. RegOf(o.kind, o.name)' = RegOf(o.kind, o.name)
      BY <1>5, <3>1 DEF RegOf
    <3>5. ~Carries(o.branch, o.kind, o.name) => ~Carries(o.branch, o.kind, o.name)'
      BY <1>5 DEF Carries, RowsOf
    <3> QED BY <1>2, <1>5, <3>2, <3>3, <3>4, <3>5 DEF AddHolds
  <2>4. DeployHolds(o)'
    BY <1>2, <1>5, <2>1 DEF Holds, DeployHolds
  <2>5. RemoveHolds(o)'
    <3> SUFFICES ASSUME o.verb = "remove", Live(o) PROVE RemoveHolds(o)'
      BY DEF RemoveHolds
    <3>1. RemoveHolds(o) /\ Key(o.branch, o.kind, o.name) \in o.keys
      BY <2>1 DEF Holds, Shape
    <3>2. ~(o.branch = b /\ o.kind = k /\ o.name = q)
      BY <1>4, <2>2, <3>1
    <3>3. Carries(o.branch, o.kind, o.name) => Carries(o.branch, o.kind, o.name)'
      BY <1>5, <3>2 DEF Carries, RowsOf
    <3>4. Carries(o.branch, o.kind, o.name) /\ RegOf(o.kind, o.name) # {} => RegOf(o.kind, o.name)' # {}
      <4>1. CASE o.kind = k /\ o.name = q
        <5>1. Carries(o.branch, o.kind, o.name) => reg' = reg
          BY <1>7, <3>2, <4>1 DEF Carries, RowsOf
        <5> QED BY <5>1 DEF RegOf
      <4>2. CASE ~(o.kind = k /\ o.name = q)
        <5>1. RegOf(o.kind, o.name)' = RegOf(o.kind, o.name)
          BY <1>5, <4>2 DEF RegOf
        <5> QED BY <5>1
      <4> QED BY <4>1, <4>2
    <3>5. InBox(o.branch, o.kind, o.name) = {} => InBox(o.branch, o.kind, o.name)' = {}
      BY DEF InBox
    <3> QED BY <3>1, <3>3, <3>4, <3>5 DEF RemoveHolds
  <2>6. RenameHolds(o)'
    <3> SUFFICES ASSUME o.verb = "rename", Live(o) PROVE RenameHolds(o)'
      BY DEF RenameHolds
    <3>1. RenameHolds(o) /\ o \in AtRename
      BY <1>18, <2>1, InLineIs DEF Holds, AtRename
    <3>2. RegOf(o.kind, o.to) = {} => RegOf(o.kind, o.to)' = {}
      BY <1>5 DEF RegOf
    <3>3. \A p : Carries(p, o.kind, o.name) => Carries(p, o.kind, o.name)'
      <4> SUFFICES ASSUME NEW p, NEW r \in rows, r.branch = p, r.kind = o.kind, r.name = o.name
                   PROVE  \E s \in rows' : s.branch = p /\ s.kind = o.kind /\ s.name = o.name
        BY DEF Carries, RowsOf
      <4>1. r \in rows'
        <5> SUFFICES ASSUME r \in mine PROVE FALSE
          BY <1>2
        <5> QED BY <1>5, <1>6, <3>1
      <4> QED BY <4>1
    <3>4. \A p : InBox(p, o.kind, o.name) = {} => InBox(p, o.kind, o.name)' = {}
      BY DEF InBox
    <3> QED BY <1>2, <1>5, <3>1, <3>2, <3>3, <3>4 DEF RenameHolds
  <2>7. CloneHolds(o)'
    <3> SUFFICES ASSUME o.verb = "clone" PROVE CloneHolds(o)'
      BY DEF CloneHolds
    <3>1. CloneHolds(o)
      BY <2>1 DEF Holds
    <3>2. ASSUME Live(o), NEW t \in o.todo, Solid(t.kind)
          PROVE  t \in rows' /\ Key(o.source, t.kind, t.name) \in o.keys /\ Key(o.branch, t.kind, t.name) \in o.keys
      <4>1. t \in rows /\ Key(o.source, t.kind, t.name) \in o.keys /\ Key(o.branch, t.kind, t.name) \in o.keys
            /\ t.branch = o.source
        BY <3>1, <3>2 DEF CloneHolds
      <4>2. ~(t.branch = b /\ t.kind = k /\ t.name = q)
        BY <1>4, <2>2, <3>2, <4>1
      <4> QED BY <1>5, <4>1, <4>2
    <3>3. ASSUME Live(o), NEW t \in o.todo, Told(t.kind), Copy(o, t) \in rows
          PROVE  Copy(o, t) \in rows'
      <4>1. t \in RowSet /\ Solid(t.kind)
        BY <3>1, <3>3 DEF CloneHolds, Told, Solid
      <4>2. Copy(o, t).branch = o.branch /\ Copy(o, t).kind = t.kind /\ Copy(o, t).name = t.name
        BY <4>1 DEF Copy, RowSet
      <4>3. Key(o.branch, t.kind, t.name) \in o.keys
        BY <3>2, <3>3, <4>1
      <4>4. ~(o.branch = b /\ t.kind = k /\ t.name = q)
        BY <1>4, <2>2, <3>3, <4>3
      <4> QED BY <1>5, <3>3, <4>2, <4>4
    <3> QED BY <1>2, <1>5, <3>1, <3>2, <3>3 DEF CloneHolds
  <2> QED BY <2>3, <2>4, <2>5, <2>6, <2>7 DEF Holds
<1>19. StateInv'
  BY <1>12, <1>13, <1>14, <1>15, <1>16, <1>17 DEF StateInv
<1> QED BY <1>8, <1>18, <1>19, Assemble

LEMMA StartRemoveKeeps == ASSUME ServicesInv, NEW i \in DOMAIN line, StartRemove(i) PROVE ServicesInv'
<1>0. PICK me : me = line[i]
  OBVIOUS
<1>1. /\ me.verb = "remove" /\ me.pc = "queued" /\ Granted(i)
      /\ UNCHANGED <<branches, reg, rows, wired, reserved, box, bytes>>
  BY <1>0 DEF StartRemove, Starts, store
<1>2. me \in Op /\ Shape(me) /\ InLine(me) /\ LineInv /\ StoreTyped
  BY <1>0 DEF ServicesInv, LineInv, InLine, StateInv
<1>3. ASSUME NEW N, LeftOf(i, N), \A o \in N : o.verb # "rename"
      PROVE  /\ \A r \in rows : \A n : Named(r, n)' <=> Named(r, n)
             /\ \A x \in box : \A r \in rows : Matches(x, r) => Matches(x, r)'
             /\ \A r \in rows : Emptied(r) => Emptied(r)'
  <2>1. AtRename' = AtRename
    BY <1>0, <1>1, <1>3, RenamingStays
  <2>2. \A o : InLine(o) /\ o.pc = "bytes" => InLine(o)'
    BY <1>0, <1>1, <1>3, InLineIs DEF LeftOf
  <2> QED BY <1>1, <2>1, <2>2, SameRename DEF Emptied
<1>4. CASE Leave(i)
  <2> DEFINE N == {}
  <2>1. LeftOf(i, N)
    BY <1>2, <1>4, LeaveIs
  <2> QED BY <1>1, <1>3, <2>1, QuietStep
<1>5. PICK n : n = [me EXCEPT !.pc = "container", !.data = DataOf(me.kind, me.name)]
  OBVIOUS
<1>6. CASE Removable(me) /\ Become(i, n)
  <2>1. DataOf(me.kind, me.name) \in Data \cup {None}
    BY <1>2, DataOfTyped
  <2>2. /\ n \in Op /\ n.verb = "remove" /\ n.pc = "container" /\ n.kind = me.kind /\ n.name = me.name
        /\ n.branch = me.branch /\ n.keys = me.keys /\ n.data = DataOf(me.kind, me.name)
    BY <1>1, <1>2, <1>5, <2>1 DEF Op, AtWork
  <2>3. Shape(n)
    BY <1>1, <1>2, <2>2 DEF Shape, At1, Live
  <2> DEFINE N == {n}
  <2>4. LeftOf(i, N)
    <3>1. (ChainStage(n) => ChainStage(me) \/ ChainFree) /\ (IsNew(n) => IsNew(me))
      BY <2>2 DEF IsNew, ChainStage
    <3> QED BY <1>0, <1>1, <1>2, <1>6, <2>2, <2>3, <3>1, BecomeIs
  <2>5. Holds(n)'
    <3>1. RemoveHolds(n)'
      BY <1>1, <1>6, <2>2 DEF RemoveHolds, Removable, Told, Carries, RowsOf, RegOf
    <3> QED BY <2>2, <3>1 DEF Holds, AddHolds, DeployHolds, RenameHolds, CloneHolds
  <2>6. \A o \in N : Holder(o) /\ o.data \in Data /\ Solid(o.kind) => Claim(o.kind, o.name, o.data)
    <3>1. CASE RegOf(me.kind, me.name) = {}
      BY <2>2, <3>1, DataOfNone, ServicesAssumption
    <3>2. CASE RegOf(me.kind, me.name) # {}
      BY <1>2, <2>2, <3>2, DataOfIs DEF Claim
    <3> QED BY <3>1, <3>2
  <2>7. \A o \in N : o.verb # "rename"
    BY <2>2
  <2> QED BY <1>1, <1>3, <2>4, <2>5, <2>6, <2>7, QuietStep
<1> QED BY <1>0, <1>4, <1>5, <1>6 DEF StartRemove

\* One that fails leaves what there is: the container of a database is never gone then.
LEMMA RemovalFailsKeeps ==
    ASSUME ServicesInv, NEW i \in DOMAIN line, line[i].verb = "remove", Leave(i), UNCHANGED <<store, box, bytes>>,
           line[i].pc = "container" \/ line[i].kind # "postgres"
    PROVE  ServicesInv'
<1>0. PICK me : me = line[i]
  OBVIOUS
<1>1. me \in Op /\ InLine(me) /\ LineInv /\ UNCHANGED <<branches, reg, rows, wired, reserved, box, bytes>>
  BY <1>0 DEF ServicesInv, LineInv, InLine, store
<1> DEFINE N == {}
<1>2. LeftOf(i, N)
  BY <1>1, LeaveIs
<1>3. AtRename' = AtRename
  BY <1>0, <1>2, RenamingStays
<1>4. /\ \A r \in rows : \A n : Named(r, n)' <=> Named(r, n)
      /\ \A x \in box : \A r \in rows : Matches(x, r) => Matches(x, r)'
  BY <1>3, SameRename
<1>5. \A r \in rows : Emptied(r) => Emptied(r)'
  BY <1>0, <1>2, InLineIs DEF Emptied, LeftOf
<1> QED BY <1>1, <1>2, <1>4, <1>5, QuietStep

LEMMA RemoveContainerKeeps ==
    ASSUME ServicesInv, Undisturbed, NEW i \in DOMAIN line, RemoveContainer(i)
    PROVE  ServicesInv'
<1>0. PICK me : me = line[i]
  OBVIOUS
<1> DEFINE b == me.branch
           k == me.kind
           q == me.name
<1>1. me.verb = "remove" /\ me.pc = "container" /\ Live(me) /\ bytes' = bytes
  BY <1>0 DEF RemoveContainer, At, Live
<1>2. me \in Op /\ Shape(me) /\ InLine(me) /\ LineInv /\ RemoveHolds(me) /\ Key(b, k, q) \in me.keys
  BY <1>0, <1>1 DEF ServicesInv, LineInv, InLine, Holds, Shape
<1>3. /\ StoreTyped /\ RowsTyped /\ DataMeans /\ HostsApart /\ Registered /\ RowsHaveBytes /\ Boxed /\ WiresHold
  BY DEF ServicesInv, StateInv
<1>4. CASE Fails("remove", line[i]) /\ Leave(i) /\ UNCHANGED <<store, box>>
  BY <1>0, <1>1, <1>4, RemovalFailsKeeps
<1>5. CASE k = "storage" /\ box' = box \ Targets(me) /\ TakenAway(i)
  <2>1. \A x \in Targets(me) : x.kind = k
    BY DEF Targets, InBox
  <2>2. box' \subseteq box /\ \A x \in box : Solid(x.kind) => x \in box'
    BY <1>5, <2>1 DEF Solid
  <2>3. \A r \in rows : r.data # None /\ Solid(r.kind) => <<r.branch, r.data>> \in bytes'
    BY <1>1, <1>3 DEF RowsHaveBytes, Solid
  <2> QED BY <1>0, <1>1, <1>5, <2>2, <2>3, TakenAwayKeeps DEF Solid
<1>6. CASE k = "compute" /\ ~Carries(b, k, q) /\ TakenAway(i) /\ box' = box
  <2>3. \A r \in rows : r.data # None /\ Solid(r.kind) => <<r.branch, r.data>> \in bytes'
    BY <1>1, <1>3 DEF RowsHaveBytes, Solid
  <2> QED BY <1>0, <1>1, <1>6, <2>3, TakenAwayKeeps
<1>7. CASE /\ k # "storage" /\ (k # "compute" \/ Carries(b, k, q)) /\ box' = box \ Targets(me)
           /\ Goto(i, "bytes") /\ UNCHANGED store
  <2>1. Carries(b, k, q) /\ Solid(k)
    BY <1>1, <1>2, <1>7 DEF RemoveHolds, Told, Solid
  <2>2. box' = box \ InBox(b, k, q)
    <3>1. Handles(me) = {q}
      <4>1. Handles(me) = {r.handle : r \in RowsOf(b, k, q)}
        BY <2>1 DEF Handles
      <4>2. \A r \in RowsOf(b, k, q) : r.handle = q
        BY <1>3, <2>1 DEF RowsOf, RowsTyped
      <4>3. RowsOf(b, k, q) # {}
        BY <2>1 DEF Carries
      <4> QED BY <4>1, <4>2, <4>3
    <3>2. Targets(me) = InBox(b, k, q)
      BY <3>1 DEF Targets
    <3> QED BY <1>7, <3>2
  <2>3. UNCHANGED <<branches, reg, rows, wired, reserved, bytes>> /\ box' \subseteq box
    BY <1>1, <1>7, <2>2 DEF store
  <2>4. PICK n : n = [me EXCEPT !.pc = "bytes"]
    OBVIOUS
  <2>5. /\ n \in Op /\ n.verb = "remove" /\ n.pc = "bytes" /\ n.kind = k /\ n.name = q
        /\ n.branch = b /\ n.keys = me.keys /\ n.data = me.data
    BY <1>1, <1>2, <2>4 DEF Op, AtWork
  <2>6. Shape(n)
    BY <1>1, <1>2, <1>7, <2>5 DEF Shape, At1, Live
  <2> DEFINE N == {n}
  <2>7. LeftOf(i, N)
    <3>1. (ChainStage(n) => ChainStage(me) \/ ChainFree) /\ (IsNew(n) => IsNew(me))
      BY <2>5 DEF IsNew, ChainStage
    <3>2. Become(i, n)
      BY <1>0, <1>7, <2>4 DEF Goto
    <3> QED BY <1>0, <1>1, <1>2, <2>5, <2>6, <3>1, <3>2, BecomeIs
  <2>8. AtRename' = AtRename
    BY <1>0, <1>1, <2>5, <2>7, RenamingStays
  <2>9. /\ \A r, m : Named(r, m)' <=> Named(r, m)
        /\ \A x, r : Matches(x, r)' <=> Matches(x, r)
    BY <2>8, SameRename
  <2>10. \A p, m, h : InBox(p, m, h)' \subseteq InBox(p, m, h)
    BY <2>3 DEF InBox
  <2>11. Holds(n)'
    <3>1. Carries(b, k, q)' /\ (RegOf(k, q)' = RegOf(k, q)) /\ InBox(b, k, q)' = {}
      BY <2>1, <2>2, <2>3 DEF Carries, RowsOf, RegOf, InBox
    <3>2. Told(k) => RegOf(k, q) # {}
      BY <1>1, <1>2 DEF RemoveHolds
    <3>3. RemoveHolds(n)'
      BY <2>5, <3>1, <3>2 DEF RemoveHolds
    <3> QED BY <2>5, <3>3 DEF Holds, AddHolds, DeployHolds, RenameHolds, CloneHolds
  <2>12. ASSUME NEW o \in Op, Besides(i, o) PROVE Holds(o)'
    <3>1. Holds(o)
      BY <2>12, InLineIs DEF ServicesInv
    <3>2. AddHolds(o)' /\ DeployHolds(o)' /\ CloneHolds(o)'
      BY <2>3, <3>1 DEF Holds, AddHolds, DeployHolds, CloneHolds, RegClaim, RegOf, Carries, RowsOf
    <3>3. RemoveHolds(o)'
      <4>1. InBox(o.branch, o.kind, o.name) = {} => InBox(o.branch, o.kind, o.name)' = {}
        BY <2>10
      <4> QED BY <2>3, <3>1, <4>1 DEF Holds, RemoveHolds, RegOf, Carries, RowsOf
    <3>4. RenameHolds(o)'
      <4> SUFFICES ASSUME o.verb = "rename", Live(o) PROVE RenameHolds(o)'
        BY DEF RenameHolds
      <4>1. \A p : InBox(p, o.kind, o.name) = {} => InBox(p, o.kind, o.name)' = {}
        BY <2>10
      <4> QED BY <2>3, <3>1, <4>1 DEF Holds, RenameHolds, RegOf, Carries, RowsOf
    <3> QED BY <3>2, <3>3, <3>4 DEF Holds
  <2>13. StoreTyped' /\ RowsTyped' /\ HostsApart' /\ RowsHaveBytes' /\ WiresHold'
    BY <1>3, <2>3 DEF StoreTyped, RowsTyped, HostsApart, RowsHaveBytes, WiresHold, Carries, RowsOf
  <2>14. Registered'
    BY <1>3, <2>3, <2>9 DEF Registered
  <2>15. Boxed'
    <3>1. \A x \in box' : Solid(x.kind) /\ x.data # None => \E r \in rows' : Matches(x, r)'
      BY <1>3, <2>3, <2>9 DEF Boxed
    <3>2. \A x \in box' : x.kind = "postgres" => x.data # None
      BY <1>3, <2>3 DEF Boxed
    <3>3. ASSUME NEW r \in rows', r.kind = "postgres"
          PROVE  InBox(r.branch, "postgres", r.name)' # {} \/ Emptied(r)'
      <4>1. CASE r.branch = b /\ k = "postgres" /\ r.name = q
        <5>1. InLine(n)'
          BY <2>7 DEF LeftOf
        <5> QED BY <2>5, <4>1, <5>1 DEF Emptied
      <4>2. CASE ~(r.branch = b /\ k = "postgres" /\ r.name = q)
        <5>1. InBox(r.branch, "postgres", r.name) \subseteq InBox(r.branch, "postgres", r.name)'
          BY <2>2, <4>2 DEF InBox
        <5>2. Emptied(r) => Emptied(r)'
          BY <1>0, <1>1, <2>7, InLineIs DEF Emptied, LeftOf
        <5> QED BY <1>3, <2>3, <3>3, <5>1, <5>2 DEF Boxed
      <4> QED BY <4>1, <4>2
    <3> QED BY <3>1, <3>2, <3>3 DEF Boxed
  <2>16. DataMeans'
    <3>1. \A m, p, z : RegClaim(m, p, z)' \/ RowClaim(m, p, z)' => RegClaim(m, p, z) \/ RowClaim(m, p, z)
      BY <2>3, <2>9, SameRows
    <3>2. \A m, p, z : OpClaim(m, p, z)' => OpClaim(m, p, z)
      <4>1. \A o : Holder(o)' <=> Holder(o)
        BY <2>3 DEF Holder
      <4>2. Holder(n) => Holder(me) /\ InLine(me)
        BY <1>1, <1>2, <2>5 DEF Holder
      <4>3. \A m, p, z : OpClaim(m, p, z)' =>
              OpClaim(m, p, z) \/ \E o \in N : Holder(o)' /\ o.kind = m /\ o.name = p /\ o.data = z
        BY <2>7, <4>1, OpClaims
      <4> QED BY <1>2, <2>5, <4>1, <4>2, <4>3 DEF OpClaim
    <3> QED BY <1>3, <3>1, <3>2, ClaimsKeep DEF Claim
  <2>17. StateInv'
    BY <2>13, <2>14, <2>15, <2>16 DEF StateInv
  <2> QED BY <2>7, <2>11, <2>12, <2>17, Assemble
<1> QED BY <1>0, <1>4, <1>5, <1>6, <1>7 DEF RemoveContainer

LEMMA RemoveBytesKeeps ==
    ASSUME PostgresSound, ServicesInv, Undisturbed, NEW i \in DOMAIN line, RemoveBytes(i)
    PROVE  ServicesInv'
<1>0. PICK me : me = line[i]
  OBVIOUS
<1> DEFINE b == me.branch
           k == me.kind
           q == me.name
<1>1. me.verb = "remove" /\ me.pc = "bytes" /\ Live(me) /\ box' = box
  BY <1>0 DEF RemoveBytes, At, Live
<1>2. me \in Op /\ Shape(me) /\ InLine(me) /\ LineInv /\ RemoveHolds(me) /\ Solid(k)
  BY <1>0, <1>1 DEF ServicesInv, LineInv, InLine, Holds, Shape, Solid
<1>3. /\ StoreTyped /\ RowsTyped /\ DataMeans /\ RowsHaveBytes
  BY DEF ServicesInv, StateInv
<1>4. Carries(b, k, q) /\ InBox(b, k, q) = {}
  BY <1>1, <1>2 DEF RemoveHolds
<1>5. CASE Fails("bytes", line[i]) /\ Leave(i) /\ UNCHANGED <<store, bytes>>
  <2>1. k # "postgres"
    BY <1>0, <1>5 DEF Fails, PostgresSound
  <2> QED BY <1>0, <1>1, <1>5, <2>1, RemovalFailsKeeps
<1>6. CASE TakenAway(i) /\ bytes' = bytes \ {<<b, me.data>>}
  <2>1. b \in branches /\ \A o \in AtRename : o.kind = k => o.name # q /\ o.to # q
    BY <1>0, <1>1, <1>4, Untouched
  <2>2. ASSUME NEW r \in rows, r \notin RowsOf(b, k, q), r.data # None, Solid(r.kind)
        PROVE  <<r.branch, r.data>> \in bytes'
    <3>1. <<r.branch, r.data>> \in bytes
      BY <1>3, <2>2 DEF RowsHaveBytes, Solid
    <3>2. ASSUME r.branch = b, r.data = me.data PROVE FALSE
      <4>1. r.data \in Data
        BY <1>3, <2>2 DEF StoreTyped, RowSet
      <4>2. OpClaim(k, q, r.data)
        BY <1>1, <1>2, <2>1, <3>2 DEF OpClaim, Holder
      <4>3. PICK n : Named(r, n)
        BY DEF Named
      <4>4. r.kind = k /\ n = q
        BY <1>2, <1>3, <2>2, <4>1, <4>2, <4>3 DEF DataMeans, Claim, RowClaim
      <4>5. r.name = q
        BY <2>1, <4>3, <4>4 DEF Named
      <4> QED BY <2>2, <3>2, <4>4, <4>5 DEF RowsOf
    <3> QED BY <1>6, <3>1, <3>2
  <2> QED BY <1>0, <1>1, <1>4, <1>6, <2>2, TakenAwayKeeps
<1> QED BY <1>0, <1>5, <1>6 DEF RemoveBytes

-----------------------------------------------------------------------------
\* Renames.

Everywhere(o) == \A b \in branches : Star(b) \in o.keys /\ Key(b, o.kind, o.name) \in o.keys

\* Beside a rename that may work only other services are being removed.
LEMMA RenameAlone ==
    ASSUME ServicesInv, NEW i \in DOMAIN line, line[i].verb = "rename", Live(line[i]) \/ Granted(i),
           Everywhere(line[i])
    PROVE  /\ \A o : Besides(i, o) /\ Live(o) =>
                 /\ o.verb = "remove"
                 /\ o.branch \in branches => o.kind # line[i].kind \/ o.name # line[i].name
           /\ AtRename = IF Live(line[i]) THEN {line[i]} ELSE {}
<1>0. Main \in branches /\ LineInv
  BY DEF ServicesInv, StateInv, StoreTyped
<1>1. ASSUME NEW o, Besides(i, o), Live(o)
      PROVE  /\ o.verb = "remove"
             /\ o.branch \in branches => o.kind # line[i].kind \/ o.name # line[i].name
  <2>1. o \in Op /\ InLine(o) /\ Shape(o) /\ line[i].keys \cap o.keys = {} /\ Holds(o)
    BY <1>0, <1>1, OthersApart DEF ServicesInv
  <2>2. \A b \in branches : Star(b) \notin o.keys /\ Key(b, line[i].kind, line[i].name) \notin o.keys
    BY <2>1 DEF Everywhere
  <2>3. o.verb # "add"
    BY <1>1, <2>1, <2>2 DEF Shape, Holds, AddHolds
  <2>4. o.verb # "deploy"
    BY <1>1, <2>1, <2>2 DEF Shape, Holds, DeployHolds
  <2>5. o.verb # "clone"
    BY <1>1, <2>1, <2>2 DEF Shape, Holds, CloneHolds
  <2>6. o.verb # "rename"
    BY <1>0, <1>1, <2>1, <2>2 DEF Holds, RenameHolds
  <2>7. o.verb = "remove"
    BY <2>1, <2>3, <2>4, <2>5, <2>6 DEF Op, Shape, Verbs
  <2>8. o.branch \in branches => o.kind # line[i].kind \/ o.name # line[i].name
    BY <2>1, <2>2, <2>7 DEF Shape
  <2> QED BY <2>7, <2>8
<1>2. AtRename \subseteq {line[i]}
  BY <1>1, InLineIs DEF AtRename
<1>3. line[i] \in Op /\ InLine(line[i])
  BY <1>0 DEF InLine, LineInv
<1> QED BY <1>1, <1>2, <1>3 DEF AtRename

LEMMA LiveRename ==
    ASSUME ServicesInv, NEW i \in DOMAIN line, line[i].verb = "rename", Live(line[i])
    PROVE  /\ Everywhere(line[i]) /\ RenameHolds(line[i]) /\ Shape(line[i]) /\ line[i] \in Op
           /\ line[i].kind \in Kind \ {"storage"}
           /\ line[i].name \in Name /\ line[i].to \in Name /\ line[i].to # line[i].name
<1>1. line[i] \in Op /\ Shape(line[i]) /\ InLine(line[i]) /\ LineInv
  BY DEF ServicesInv, LineInv, InLine
<1>2. RenameHolds(line[i])
  BY <1>1 DEF ServicesInv, Holds
<1> QED BY <1>1, <1>2 DEF RenameHolds, Everywhere, Shape

LEMMA RedriveKeeps ==
    ASSUME ServicesInv, NEW i \in DOMAIN line, line[i].verb \in {"rename", "clone"}, line[i].pc = "queued",
           NEW needed \in SUBSET (Branch \X (Kind \cup {"*branch"}) \X (Name \cup {"*branch"})),
           Redrive(i, needed), UNCHANGED <<store, box, bytes>>
    PROVE  ServicesInv'
<1>0. PICK me : me = line[i]
  OBVIOUS
<1>1. me \in Op /\ Shape(me) /\ InLine(me) /\ LineInv /\ Holds(me) /\ ~Live(me)
  BY <1>0 DEF ServicesInv, LineInv, InLine, Live
<1>2. UNCHANGED <<branches, reg, rows, wired, reserved, box, bytes>>
  BY DEF store
<1>3. ASSUME NEW N, LeftOf(i, N), \A o \in N : ~Live(o) /\ Holds(o)
      PROVE  ServicesInv'
  <2>1. AtRename' = AtRename
    BY <1>0, <1>1, <1>3, InLineIs DEF LeftOf, AtRename, Live
  <2>2. /\ \A r \in rows : \A n : Named(r, n)' <=> Named(r, n)
        /\ \A x \in box : \A r \in rows : Matches(x, r) => Matches(x, r)'
    BY <2>1, SameRename
  <2>3. \A r \in rows : Emptied(r) => Emptied(r)'
    BY <1>0, <1>1, <1>3, InLineIs DEF Emptied, LeftOf, Live
  <2>4. \A n \in N : Holds(n)'
    BY <1>2, <1>3, StillHolds
  <2>5. \A o \in N : Holder(o) /\ o.data \in Data /\ Solid(o.kind) => Claim(o.kind, o.name, o.data)
    BY <1>3 DEF Holder
  <2> QED BY <1>2, <1>3, <2>2, <2>3, <2>4, <2>5, QuietStep
<1>4. CASE Leave(i)
  <2> DEFINE N == {}
  <2>1. LeftOf(i, N)
    BY <1>1, <1>4, LeaveIs
  <2> QED BY <1>3, <2>1
<1>5. PICK n : n = [me EXCEPT !.keys = @ \cup needed, !.round = @ + 1]
  OBVIOUS
<1>6. CASE line' = Append(RemoveAt(line, i), n)
  <2>1. /\ n \in Op /\ n.verb = me.verb /\ n.kind = me.kind /\ n.name = me.name /\ n.to = me.to
        /\ n.branch = me.branch /\ n.source = me.source /\ n.pc = "queued" /\ me.keys \subseteq n.keys
        /\ n.done = me.done /\ n.todo = me.todo
    <3>1. PICK all : all = me.keys \cup needed
      OBVIOUS
    <3>2. /\ all \in SUBSET (Branch \X (Kind \cup {"*branch"}) \X (Name \cup {"*branch"}))
          /\ me.keys \subseteq all /\ me.round + 1 \in Nat
      BY <1>1, <3>1 DEF Op
    <3>3. n = [me EXCEPT !.keys = all, !.round = me.round + 1]
      BY <1>5, <3>1
    <3> QED BY <1>0, <1>1, <3>2, <3>3 DEF Op
  <2>2. Shape(n)
    BY <1>0, <1>1, <2>1 DEF Shape, At1, Live
  <2>3. \A j \in DOMAIN line : j # i => Ordered(line[j], n)
    <3> SUFFICES ASSUME NEW j \in DOMAIN line, j # i PROVE Ordered(line[j], n)
      OBVIOUS
    <3>1. Besides(i, line[j])
      BY DEF Besides
    <3>2. (IsNew(me) \/ IsNew(line[j])) => me.branch # line[j].branch
      BY <1>0, <1>1, <3>1, OthersApart
    <3> QED BY <1>0, <2>1, <3>2 DEF Ordered, Live, ChainStage, IsNew
  <2> DEFINE N == {n}
  <2>4. LeftOf(i, N)
    BY <1>1, <1>6, <2>1, <2>2, <2>3, RequeueKeepsLine DEF LeftOf
  <2>5. ~Live(n) /\ Holds(n)
    BY <1>0, <1>1, <2>1 DEF Live, Holds, AddHolds, DeployHolds, RemoveHolds, RenameHolds, CloneHolds, IsNew
  <2> QED BY <1>3, <2>4, <2>5
<1> QED BY <1>0, <1>4, <1>5, <1>6 DEF Redrive

\* One that gives up before it began.
LEMMA GivesUpKeeps ==
    ASSUME ServicesInv, NEW i \in DOMAIN line, line[i].pc = "queued", Leave(i), UNCHANGED <<store, box, bytes>>
    PROVE  ServicesInv'
<1>0. LineInv /\ ~Live(line[i])
  BY DEF ServicesInv, Live
<1> DEFINE N == {}
<1>1. LeftOf(i, N)
  BY <1>0, LeaveIs
<1>2. AtRename' = AtRename
  BY <1>0, <1>1, InLineIs DEF LeftOf, AtRename, Live
<1>3. /\ \A r \in rows : \A n : Named(r, n)' <=> Named(r, n)
      /\ \A x \in box : \A r \in rows : Matches(x, r) => Matches(x, r)'
  BY <1>2, SameRename
<1>4. \A r \in rows : Emptied(r) => Emptied(r)'
  BY <1>1, InLineIs DEF Emptied, LeftOf
<1>5. UNCHANGED <<branches, reg, rows, wired, reserved, box, bytes>>
  BY DEF store
<1> QED BY <1>1, <1>3, <1>4, <1>5, QuietStep

\* The one mutate at the end.
LEMMA RenamedKeeps ==
    ASSUME ServicesInv, NEW i \in DOMAIN line, line[i].verb = "rename", Live(line[i]) \/ Granted(i),
           Everywhere(line[i]), RegOf(line[i].kind, line[i].to) = {}, Renamed(i), UNCHANGED <<box, bytes>>,
           Solid(line[i].kind) => \A r \in rows : r.kind = line[i].kind =>
               /\ r.name = line[i].name =>
                     /\ line[i].kind # "postgres" /\ InBox(r.branch, line[i].kind, line[i].name) = {}
                     /\ \A s \in rows : s.branch = r.branch /\ Solid(s.kind) =>
                           Label[s.kind][s.name] # Label[line[i].kind][line[i].to]
               /\ r.name = line[i].to => line[i].kind = "postgres" /\ Live(line[i])
    PROVE  ServicesInv'
<1>0. PICK me : me = line[i]
  OBVIOUS
<1> DEFINE k == me.kind
           q == me.name
           t == me.to
           bs == Carriers(k, q)
<1>1. me \in Op /\ Shape(me) /\ InLine(me) /\ LineInv /\ me.verb = "rename"
  BY <1>0 DEF ServicesInv, LineInv, InLine
<1>2. k \in Kind /\ q \in Name /\ t \in Name /\ t # q
  BY <1>1 DEF Shape
<1>3. /\ reg' = {IF e.kind = k /\ e.name = q THEN [e EXCEPT !.name = t] ELSE e : e \in reg}
      /\ rows' = {Moved(r, k, q, t) : r \in rows}
      /\ wired' = Wires(me, bs) /\ Leave(i) /\ branches' = branches
  BY <1>0 DEF Renamed
<1>4. /\ StoreTyped /\ RowsTyped /\ DataMeans /\ HostsApart /\ Registered /\ RowsHaveBytes /\ Boxed /\ WiresHold
  BY DEF ServicesInv, StateInv
<1>5. /\ \A o : Besides(i, o) /\ Live(o) => o.verb = "remove" /\ (o.branch \in branches => o.kind # k \/ o.name # q)
      /\ AtRename = IF Live(me) THEN {me} ELSE {}
  BY <1>0, RenameAlone
<1> DEFINE N == {}
<1>6. LeftOf(i, N)
  BY <1>1, <1>3, LeaveIs
<1>7. AtRename' = {}
  BY <1>5, <1>6 DEF AtRename, LeftOf
<1>8. /\ \A r, n : Named(r, n)' <=> r.name = n
      /\ \A x, r : Matches(x, r)' <=> r.branch = x.branch /\ r.kind = x.kind /\ r.data = x.data /\ x.handle = r.name
  BY <1>7, NoRename DEF Named, Matches, Ahead, NotAhead
<1>9. Solid(k) => \A r \in rows : r.kind = k =>
         /\ r.name = q => k # "postgres" /\ InBox(r.branch, k, q) = {}
         /\ r.name = q => \A s \in rows : s.branch = r.branch /\ Solid(s.kind) => Label[s.kind][s.name] # Label[k][t]
         /\ r.name = t => k = "postgres" /\ Live(me)
  BY <1>0
<1>10. ASSUME NEW r \in rows
       PROVE  /\ Moved(r, k, q, t) \in RowSet
              /\ Moved(r, k, q, t).branch = r.branch /\ Moved(r, k, q, t).kind = r.kind /\ Moved(r, k, q, t).data = r.data
              /\ r.kind = k /\ r.name = q => Moved(r, k, q, t).name = t
              /\ r.kind = k /\ r.name = q /\ Solid(k) => Moved(r, k, q, t).handle = t
              /\ ~(r.kind = k /\ r.name = q) => Moved(r, k, q, t) = r
              /\ Moved(r, k, q, t) \in rows'
  <2>1. r \in RowSet
    BY <1>4 DEF StoreTyped
  <2> QED BY <1>2, <1>3, <2>1 DEF Moved, RowSet, Solid
<1>11. ASSUME NEW s \in rows'
       PROVE  \E r \in rows : s = Moved(r, k, q, t) /\ s \in RowSet
                   /\ s.branch = r.branch /\ s.kind = r.kind /\ s.data = r.data
                   /\ (r.kind = k /\ r.name = q => s.name = t)
                   /\ (r.kind = k /\ r.name = q /\ Solid(k) => s.handle = t)
                   /\ (~(r.kind = k /\ r.name = q) => s = r)
  BY <1>3, <1>10
<1>12. \A e \in reg : ~(e.kind = k /\ e.name = t)
  BY <1>0 DEF RegOf
<1>13. ASSUME NEW f \in reg'
       PROVE  \/ f \in reg /\ ~(f.kind = k /\ f.name = q)
              \/ \E e \in reg : e.kind = k /\ e.name = q /\ f.kind = k /\ f.name = t /\ f.data = e.data /\ f \in RegSet
  <2>1. PICK e \in reg : f = IF e.kind = k /\ e.name = q THEN [e EXCEPT !.name = t] ELSE e
    BY <1>3
  <2>2. e \in RegSet
    BY <1>4 DEF StoreTyped
  <2> QED BY <1>2, <2>1, <2>2 DEF RegSet
<1>14. ASSUME NEW e \in reg PROVE \E f \in reg' : f.kind = e.kind /\ f.name = IF e.kind = k /\ e.name = q THEN t ELSE e.name
  <2>1. e \in RegSet
    BY <1>4 DEF StoreTyped
  <2>2. PICK f : f = IF e.kind = k /\ e.name = q THEN [e EXCEPT !.name = t] ELSE e
    OBVIOUS
  <2>3. f \in reg'
    BY <1>3, <2>2
  <2>4. f.kind = e.kind /\ f.name = IF e.kind = k /\ e.name = q THEN t ELSE e.name
    BY <1>2, <2>1, <2>2 DEF RegSet
  <2> QED BY <2>3, <2>4
<1>15. wired' = wired
  <2>1. ASSUME NEW w \in wired, k \in {"postgres", "storage"} PROVE MovedWire(w, me, bs) = w
    <3>1. w \in [branch : Branch, kind : {"postgres"}, name : Name]
      BY <1>4 DEF StoreTyped
    <3>2. CASE k = "storage"
      BY <3>1, <3>2 DEF MovedWire
    <3>3. CASE k = "postgres"
      <4>1. bs = {}
        BY <1>9, <3>3 DEF Carriers, Carries, RowsOf, Solid
      <4> QED BY <4>1 DEF MovedWire
    <3> QED BY <2>1, <3>2, <3>3
  <2> QED BY <1>3, <2>1 DEF Wires
<1>16. StoreTyped'
  <2>1. rows' \subseteq RowSet
    BY <1>11
  <2>2. reg' \subseteq RegSet /\ \A f \in reg' : f.kind # "compute" => f.data # None
    BY <1>4, <1>13 DEF StoreTyped
  <2>3. \A f, g \in reg' : f.kind = g.kind /\ f.name = g.name => f = g
    <3> SUFFICES ASSUME NEW f \in reg', NEW g \in reg', f.kind = g.kind, f.name = g.name PROVE f = g
      OBVIOUS
    <3>1. CASE f \in reg /\ g \in reg
      BY <1>4, <3>1 DEF StoreTyped
    <3>2. CASE ~(f \in reg /\ g \in reg)
      <4>1. f.kind = k /\ f.name = t /\ f \notin reg /\ g \notin reg
        BY <1>12, <1>13, <3>2
      <4>2. PICK e \in reg : e.kind = k /\ e.name = q /\ f.data = e.data /\ f \in RegSet
        BY <1>13, <4>1
      <4>3. PICK h \in reg : h.kind = k /\ h.name = q /\ g.data = h.data /\ g \in RegSet
        BY <1>13, <4>1
      <4>4. e = h
        BY <1>4, <4>2, <4>3 DEF StoreTyped
      <4> QED BY <4>2, <4>3, <4>4 DEF RegSet
    <3> QED BY <3>1, <3>2
  <2> QED BY <1>3, <1>4, <1>15, <2>1, <2>2, <2>3 DEF StoreTyped
<1>17. RowsTyped'
  <2>1. \A s \in rows' : s.branch \in branches'
    BY <1>3, <1>4, <1>11 DEF RowsTyped
  <2>2. \A s \in rows' : (Solid(s.kind) => s.handle = s.name) /\ (Told(s.kind) => s.data # None)
    BY <1>4, <1>11 DEF RowsTyped
  <2>3. \A r, s \in rows' : Solid(r.kind) /\ r.branch = s.branch /\ r.kind = s.kind /\ r.name = s.name => r = s
    <3> SUFFICES ASSUME NEW r \in rows', NEW s \in rows', Solid(r.kind), r.branch = s.branch,
                        r.kind = s.kind, r.name = s.name
                 PROVE  r = s
      OBVIOUS
    <3>1. PICK r0 \in rows : /\ r = Moved(r0, k, q, t) /\ r.branch = r0.branch /\ r.kind = r0.kind
                             /\ (r0.kind = k /\ r0.name = q => r.name = t)
                             /\ (~(r0.kind = k /\ r0.name = q) => r = r0)
      BY <1>11
    <3>2. PICK s0 \in rows : /\ s = Moved(s0, k, q, t) /\ s.branch = s0.branch /\ s.kind = s0.kind
                             /\ (s0.kind = k /\ s0.name = q => s.name = t)
                             /\ (~(s0.kind = k /\ s0.name = q) => s = s0)
      BY <1>11
    <3>3. r0.name = s0.name
      BY <1>9, <3>1, <3>2
    <3>4. r0 = s0
      BY <1>4, <3>1, <3>2, <3>3 DEF RowsTyped
    <3> QED BY <3>1, <3>2, <3>4
  <2> QED BY <2>1, <2>2, <2>3 DEF RowsTyped
<1>18. HostsApart'
  <2> SUFFICES ASSUME NEW r \in rows', NEW s \in rows', Solid(r.kind), Solid(s.kind), r.branch = s.branch,
                      Label[r.kind][r.name] = Label[s.kind][s.name]
               PROVE  r = s
    BY DEF HostsApart
  <2>1. PICK r0 \in rows : /\ r = Moved(r0, k, q, t) /\ r.branch = r0.branch /\ r.kind = r0.kind
                           /\ (r0.kind = k /\ r0.name = q => r.name = t)
                           /\ (~(r0.kind = k /\ r0.name = q) => r = r0)
    BY <1>11
  <2>2. PICK s0 \in rows : /\ s = Moved(s0, k, q, t) /\ s.branch = s0.branch /\ s.kind = s0.kind
                           /\ (s0.kind = k /\ s0.name = q => s.name = t)
                           /\ (~(s0.kind = k /\ s0.name = q) => s = s0)
    BY <1>11
  <2>3. (r0.kind = k /\ r0.name = q) <=> (s0.kind = k /\ s0.name = q)
    BY <1>9, <2>1, <2>2
  <2>4. CASE r0.kind = k /\ r0.name = q
    <3>1. r0 = s0
      BY <1>4, <2>1, <2>2, <2>3, <2>4 DEF RowsTyped
    <3> QED BY <2>1, <2>2, <3>1
  <2>5. CASE ~(r0.kind = k /\ r0.name = q)
    BY <1>4, <2>1, <2>2, <2>3, <2>5 DEF HostsApart
  <2> QED BY <2>4, <2>5
<1>19. RowsHaveBytes'
  BY <1>4, <1>11 DEF RowsHaveBytes
<1>20. WiresHold'
  <2> SUFFICES ASSUME NEW w \in wired PROVE \E s \in rows' : s.branch = w.branch /\ s.kind = w.kind /\ s.name = w.name
    BY <1>15 DEF WiresHold, Carries, RowsOf
  <2>1. PICK r \in rows : r.branch = w.branch /\ r.kind = w.kind /\ r.name = w.name
    BY <1>4 DEF WiresHold, Carries, RowsOf
  <2>2. w.kind = "postgres"
    BY <1>4 DEF StoreTyped
  <2>3. ~(r.kind = k /\ r.name = q)
    BY <1>9, <2>1, <2>2 DEF Solid
  <2> QED BY <1>10, <2>1, <2>3
<1>21. Registered'
  <2> SUFFICES ASSUME NEW s \in rows', Told(s.kind) PROVE \E f \in reg' : f.kind = s.kind /\ f.name = s.name
    BY <1>8 DEF Registered
  <2>1. PICK r \in rows : /\ s.kind = r.kind
                          /\ (r.kind = k /\ r.name = q => s.name = t)
                          /\ (~(r.kind = k /\ r.name = q) => s = r)
    BY <1>11
  <2>2. PICK e \in reg : e.kind = r.kind /\ Named(r, e.name)
    BY <1>4, <2>1 DEF Registered
  <2>3. PICK f \in reg' : f.kind = e.kind /\ f.name = IF e.kind = k /\ e.name = q THEN t ELSE e.name
    BY <1>14
  <2>4. f.name = s.name
    <3>1. CASE r.kind = k /\ r.name = q
      <4>1. e.name = q
        BY <1>2, <1>5, <2>2, <3>1 DEF Named
      <4> QED BY <2>1, <2>2, <2>3, <3>1, <4>1
    <3>2. CASE r.kind = k /\ r.name = t
      <4>1. k = "postgres" /\ Live(me)
        BY <1>9, <2>1, <3>2 DEF Told, Solid
      <4>2. e.name = q
        BY <1>5, <2>2, <3>2, <4>1 DEF Named
      <4> QED BY <1>2, <2>1, <2>2, <2>3, <3>2, <4>2
    <3>3. CASE ~(r.kind = k /\ r.name = q) /\ ~(r.kind = k /\ r.name = t)
      <4>1. e.name = r.name
        BY <1>5, <2>2, <3>3 DEF Named
      <4> QED BY <2>1, <2>2, <2>3, <3>3, <4>1
    <3> QED BY <3>1, <3>2, <3>3
  <2> QED BY <2>1, <2>2, <2>3, <2>4
<1>22. Boxed'
  <2>1. ASSUME NEW x \in box', Solid(x.kind), x.data # None PROVE \E s \in rows' : Matches(x, s)'
    <3>1. PICK r \in rows : Matches(x, r)
      BY <1>4, <2>1 DEF Boxed
    <3>2. CASE r.kind = k /\ r.name = q
      <4>1. InBox(r.branch, k, q) = {}
        BY <1>9, <2>1, <3>1, <3>2 DEF Matches
      <4>2. x.handle # q
        BY <2>1, <3>1, <3>2, <4>1 DEF InBox, Matches
      <4>3. x.handle = t
        BY <1>5, <3>1, <3>2, <4>2 DEF Matches, Ahead
      <4>4. PICK s : s = Moved(r, k, q, t)
        OBVIOUS
      <4>5. s \in rows' /\ s.branch = r.branch /\ s.kind = r.kind /\ s.data = r.data /\ s.name = t
        BY <1>10, <3>2, <4>4
      <4>6. r.branch = x.branch /\ r.kind = x.kind /\ r.data = x.data
        BY <3>1 DEF Matches
      <4> QED BY <1>8, <4>3, <4>5, <4>6
    <3>3. CASE ~(r.kind = k /\ r.name = q)
      <4>1. x.handle = r.name
        BY <1>5, <3>1, <3>3 DEF Matches, Ahead
      <4> QED BY <1>8, <1>10, <3>1, <3>3, <4>1 DEF Matches
    <3> QED BY <3>2, <3>3
  <2>2. \A x \in box' : x.kind = "postgres" => x.data # None
    BY <1>4 DEF Boxed
  <2>3. ASSUME NEW s \in rows', s.kind = "postgres"
        PROVE  InBox(s.branch, "postgres", s.name)' # {} \/ Emptied(s)'
    <3>1. s \in rows
      BY <1>9, <1>11, <2>3 DEF Solid
    <3>2. InBox(s.branch, "postgres", s.name)' = InBox(s.branch, "postgres", s.name)
      BY DEF InBox
    <3>3. Emptied(s) => Emptied(s)'
      BY <1>0, <1>1, <1>6, InLineIs DEF Emptied, LeftOf
    <3> QED BY <1>4, <2>3, <3>1, <3>2, <3>3 DEF Boxed
  <2> QED BY <2>1, <2>2, <2>3 DEF Boxed
<1>23. DataMeans'
  <2>1. \A m, p, d : Solid(m) /\ Claim(m, p, d)' =>
          \/ Claim(m, p, d) /\ ~(m = k /\ p = q)
          \/ m = k /\ p = t /\ Claim(k, q, d)
    <3> SUFFICES ASSUME NEW m, NEW p, NEW d, Solid(m), Claim(m, p, d)'
                 PROVE  \/ Claim(m, p, d) /\ ~(m = k /\ p = q)
                        \/ m = k /\ p = t /\ Claim(k, q, d)
      OBVIOUS
    <3>1. CASE RegClaim(m, p, d)'
      BY <1>13, <3>1 DEF RegClaim, Claim
    <3>2. CASE RowClaim(m, p, d)'
      <4>1. PICK s \in rows' : s.kind = m /\ s.name = p /\ s.data = d
        BY <1>8, <3>2 DEF RowClaim
      <4>2. PICK r \in rows : /\ s.kind = r.kind /\ s.data = r.data
                              /\ (r.kind = k /\ r.name = q => s.name = t)
                              /\ (~(r.kind = k /\ r.name = q) => s = r)
        BY <1>11
      <4>3. CASE r.kind = k /\ r.name = q
        <5>1. Named(r, q)
          BY <1>2, <1>5, <4>3 DEF Named
        <5> QED BY <4>1, <4>2, <4>3, <5>1 DEF Claim, RowClaim
      <4>4. CASE r.kind = k /\ r.name = t
        <5>1. k = "postgres" /\ Live(me)
          BY <1>9, <4>1, <4>2, <4>4
        <5>2. Named(r, q)
          BY <1>5, <4>4, <5>1 DEF Named
        <5> QED BY <1>2, <4>1, <4>2, <4>4, <5>2 DEF Claim, RowClaim
      <4>5. CASE ~(r.kind = k /\ r.name = q) /\ ~(r.kind = k /\ r.name = t)
        <5>1. Named(r, r.name)
          BY <1>5, <4>5 DEF Named
        <5> QED BY <4>1, <4>2, <4>5, <5>1 DEF Claim, RowClaim
      <4> QED BY <4>3, <4>4, <4>5
    <3>3. CASE OpClaim(m, p, d)'
      <4>1. PICK o \in Op : InLine(o)' /\ Holder(o)' /\ o.kind = m /\ o.name = p /\ o.data = d
        BY <3>3 DEF OpClaim
      <4>2. Besides(i, o) /\ Holder(o) /\ Live(o) /\ o.branch \in branches
        BY <1>3, <1>6, <4>1 DEF LeftOf, Holder
      <4>3. OpClaim(m, p, d)
        BY <4>1, <4>2, InLineIs DEF OpClaim
      <4> QED BY <1>5, <4>1, <4>2, <4>3 DEF Claim
    <3> QED BY <3>1, <3>2, <3>3 DEF Claim
  <2> QED BY <1>4, <2>1 DEF DataMeans
<1>24. ASSUME NEW o \in Op, Besides(i, o) PROVE Holds(o)'
  <2>1. Holds(o) /\ Shape(o)
    BY <1>1, <1>24, OthersApart, InLineIs DEF ServicesInv
  <2>2. CASE ~Live(o)
    BY <1>3, <2>1, <2>2 DEF Live, Holds, AddHolds, DeployHolds, RemoveHolds, RenameHolds, CloneHolds
  <2>3. CASE Live(o)
    <3>1. o.verb = "remove" /\ (o.branch \in branches => o.kind # k \/ o.name # q)
      BY <1>5, <1>24, <2>3
    <3>2. RemoveHolds(o)'
      <4>1. ASSUME Carries(o.branch, o.kind, o.name)
            PROVE  Carries(o.branch, o.kind, o.name)' /\ (o.kind # k \/ o.name # q)
        <5>1. PICK r \in rows : r.branch = o.branch /\ r.kind = o.kind /\ r.name = o.name
          BY <4>1 DEF Carries, RowsOf
        <5>2. o.kind # k \/ o.name # q
          BY <1>4, <3>1, <5>1 DEF RowsTyped
        <5>3. r \in rows'
          BY <1>10, <5>1, <5>2
        <5> QED BY <5>1, <5>2, <5>3 DEF Carries, RowsOf
      <4>2. (o.kind # k \/ o.name # q) /\ RegOf(o.kind, o.name) # {} => RegOf(o.kind, o.name)' # {}
        <5> SUFFICES ASSUME o.kind # k \/ o.name # q, NEW e \in reg, e.kind = o.kind, e.name = o.name
                     PROVE  \E f \in reg' : f.kind = o.kind /\ f.name = o.name
          BY DEF RegOf
        <5> QED BY <1>14
      <4>3. InBox(o.branch, o.kind, o.name)' = InBox(o.branch, o.kind, o.name)
        BY DEF InBox
      <4> QED BY <2>1, <4>1, <4>2, <4>3 DEF Holds, RemoveHolds
    <3> QED BY <3>1, <3>2 DEF Holds, AddHolds, DeployHolds, RenameHolds, CloneHolds
  <2> QED BY <2>2, <2>3
<1>25. StateInv'
  BY <1>16, <1>17, <1>18, <1>19, <1>20, <1>21, <1>22, <1>23 DEF StateInv
<1> QED BY <1>6, <1>24, <1>25, Assemble

\* With no rename at work a registration that is not there has no row but a group's.
LEMMA NoRowsOf ==
    ASSUME ServicesInv, AtRename = {}, NEW k, NEW n, Solid(k), ~Known(k, n)
    PROVE  RegOf(k, n) = {} /\ \A r \in rows : ~(r.kind = k /\ r.name = n)
<1>1. RegOf(k, n) = {} /\ (k = "compute" => Carriers(k, n) = {})
  BY DEF Known
<1>2. ASSUME NEW r \in rows, r.kind = k, r.name = n PROVE FALSE
  <2>1. r.branch \in branches
    BY DEF ServicesInv, StateInv, RowsTyped
  <2>2. CASE k = "compute"
    BY <1>1, <1>2, <2>1, <2>2 DEF Carriers, Carries, RowsOf
  <2>3. CASE k # "compute"
    <3>1. PICK e \in reg : e.kind = k /\ Named(r, e.name)
      BY <1>2, <2>3 DEF ServicesInv, StateInv, Registered, Told, Solid
    <3>2. e.name = n
      BY <1>2, <3>1, NoRename
    <3> QED BY <1>1, <3>1, <3>2 DEF RegOf
  <2> QED BY <2>2, <2>3
<1> QED BY <1>1, <1>2

LEMMA StartRenameKeeps == ASSUME ServicesInv, NEW i \in DOMAIN line, StartRename(i) PROVE ServicesInv'
<1>0. PICK me : me = line[i]
  OBVIOUS
<1> DEFINE k == me.kind
           q == me.name
           t == me.to
           bs == Carriers(k, q)
           needed == RenameKeys(k, q)
<1>1. /\ me.verb = "rename" /\ me.pc = "queued" /\ Granted(i) /\ (Chained(me) => ChainFree)
      /\ UNCHANGED <<box, bytes>>
  BY <1>0 DEF StartRename, Starts
<1>2. me \in Op /\ Shape(me) /\ InLine(me) /\ LineInv /\ ~Live(me) /\ StoreTyped /\ RowsTyped
  BY <1>0, <1>1 DEF ServicesInv, LineInv, InLine, StateInv, Live
<1>3. k \in Kind /\ q \in Name /\ t \in Name /\ t # q /\ me.branch = None /\ me.done = {}
  BY <1>1, <1>2 DEF Shape
<1>4. needed \in SUBSET (Branch \X (Kind \cup {"*branch"}) \X (Name \cup {"*branch"}))
  BY <1>2, <1>3 DEF RenameKeys, Star, Key, StoreTyped
<1>5. CASE ~(needed \subseteq me.keys) /\ Redrive(i, needed) /\ UNCHANGED store
  BY <1>0, <1>1, <1>4, <1>5, RedriveKeeps
<1>6. CASE Leave(i) /\ UNCHANGED store
  BY <1>0, <1>1, <1>6, GivesUpKeeps
<1>7. CASE needed \subseteq me.keys /\ Renamable(me, bs)
  <2>1. Everywhere(me)
    BY <1>7 DEF Everywhere, RenameKeys
  <2>2. AtRename = {} /\ \A o : Besides(i, o) /\ Live(o) => o.verb = "remove"
    BY <1>0, <1>1, <1>2, <2>1, RenameAlone
  <2>3. ~Known(k, t) /\ RegOf(k, t) = {}
    BY <1>7 DEF Renamable, Known
  <2>4. Solid(k) => \A r \in rows : ~(r.kind = k /\ r.name = t)
    BY <2>2, <2>3, NoRowsOf
  <2>5. CASE (k = "storage" \/ bs = {}) /\ Renamed(i)
    <3>1. Solid(k) => \A r \in rows : ~(r.kind = k /\ r.name = q)
      BY <1>2, <2>5 DEF Solid, Carriers, Carries, RowsOf, RowsTyped
    <3> QED BY <1>0, <1>1, <2>1, <2>3, <2>4, <2>5, <3>1, RenamedKeeps
  <2>6. PICK n : n = [me EXCEPT !.pc = "renaming", !.todo = bs]
    OBVIOUS
  <2>7. CASE /\ k # "storage" /\ bs # {} /\ Become(i, n) /\ UNCHANGED <<branches, reg, rows, wired>>
             /\ k # "postgres" => Reserve(me, bs, t)
    <3>1. bs \in SUBSET Branch /\ bs \subseteq branches
      BY <1>2 DEF Carriers, StoreTyped
    <3>2. /\ n \in Op /\ n.verb = "rename" /\ n.pc = "renaming" /\ n.kind = k /\ n.name = q /\ n.to = t
          /\ n.branch = me.branch /\ n.keys = me.keys /\ n.done = {} /\ n.todo = bs
      BY <1>1, <1>2, <1>3, <2>6, <3>1 DEF Op, AtWork
    <3>3. Shape(n)
      BY <1>2, <1>3, <2>7, <3>2 DEF Shape, At1, Live
    <3> DEFINE N == {n}
    <3>4. LeftOf(i, N)
      <4>1. (ChainStage(n) => ChainStage(me) \/ ChainFree) /\ (IsNew(n) => IsNew(me))
        BY <1>1, <3>2 DEF IsNew, ChainStage, Chained
      <4> QED BY <1>0, <1>1, <1>2, <2>7, <3>2, <3>3, <4>1, BecomeIs
    <3>5. AtRename' = {n}
      BY <2>2, <3>2, <3>4 DEF AtRename, LeftOf, Live
    <3>6. \A r \in rows : \A m : Named(r, m)' <=> Named(r, m)
      BY <2>2, <2>4, <3>2, <3>5 DEF Named, Solid
    <3>7. \A x \in box : \A r \in rows : Matches(x, r) => Matches(x, r)'
      BY <2>2, <3>2, <3>5, NoRename DEF Matches, Ahead, NotAhead
    <3>8. \A r \in rows : Emptied(r) => Emptied(r)'
      BY <1>0, <1>1, <3>4, InLineIs DEF Emptied, LeftOf
    <3>9. \A o \in N : ~Holder(o)
      BY <3>2 DEF Holder
    <3>10. Holds(n)'
      <4>1. \A r \in rows : r.kind = k /\ r.name = q => r.branch \in bs
        BY <1>2 DEF Carriers, Carries, RowsOf, RowsTyped
      <4>2. ASSUME NEW r \in rows, r.kind = k, r.name = q, NEW s \in rows, s.branch = r.branch, Solid(s.kind)
            PROVE  Label[s.kind][s.name] # Label[k][t]
        <5>1. HostFree(r.branch, k, t, Owner(me))
          BY <1>2, <1>7, <4>1, <4>2 DEF Renamable, RowsTyped
        <5> QED BY <2>2, <2>7, <4>2, <5>1, HostIsFree DEF Solid
      <4>3. \A b \in bs : Carries(b, k, q)
        BY DEF Carriers
      <4>4. ASSUME k = "compute"
            PROVE  \E h \in reserved' : h.branch \in branches /\ h.label = Label["compute"][t] /\ h.owner = Owner(n)
        <5>1. PICK b \in bs : TRUE
          BY <2>7
        <5>2. Owner(n) = Owner(me)
          BY <1>1, <3>2 DEF Owner
        <5>3. [branch |-> b, label |-> Label[k][t], owner |-> Owner(me)] \in reserved'
          BY <2>7, <4>4, <5>1 DEF Reserve
        <5> QED BY <3>1, <4>4, <5>1, <5>2, <5>3
      <4>5. Everywhere(n)
        BY <2>1, <3>2 DEF Everywhere
      <4>6. RenameHolds(n)'
        <5>1. \A b \in branches' : Star(b) \in n.keys /\ Key(b, n.kind, n.name) \in n.keys
          BY <2>7, <4>5 DEF Everywhere
        <5>2. RegOf(k, t)' = {}
          BY <2>3, <2>7 DEF RegOf
        <5>3. n.todo \subseteq branches' /\ \A b \in n.todo : Carries(b, k, q)'
          BY <2>7, <3>1, <3>2, <4>3 DEF Carries, RowsOf
        <5>4. \A r \in rows' : ~(r.kind = k /\ r.name = t)
          BY <2>4, <2>7 DEF Solid
        <5>5. \A r \in rows' : r.kind = k /\ r.name = q =>
                 r.branch \in n.todo /\ \A s \in rows' : s.branch = r.branch /\ Solid(s.kind) => Label[s.kind][s.name] # Label[k][t]
          BY <2>7, <3>2, <4>1, <4>2
        <5> QED BY <2>7, <3>2, <4>4, <5>1, <5>2, <5>3, <5>4, <5>5 DEF RenameHolds
      <4> QED BY <3>2, <4>6 DEF Holds, AddHolds, DeployHolds, RemoveHolds, CloneHolds
    <3>11. \A o : Besides(i, o) /\ o.verb = "rename" /\ Live(o) => reserved \subseteq reserved'
      BY <2>2
    <3> QED BY <1>1, <2>7, <3>4, <3>6, <3>7, <3>8, <3>9, <3>10, <3>11, QuietStep
  <2>8. \/ (k = "storage" \/ bs = {}) /\ Renamed(i)
        \/ /\ k # "storage" /\ bs # {} /\ Become(i, n) /\ UNCHANGED <<branches, reg, rows, wired>>
           /\ k # "postgres" => Reserve(me, bs, t)
    BY <1>0, <1>7, <2>6 DEF StartRename
  <2> QED BY <2>5, <2>7, <2>8
<1> QED BY <1>0, <1>5, <1>6, <1>7 DEF StartRename

-----------------------------------------------------------------------------
\* A rename at work.

LEMMA FinishRenameKeeps == ASSUME ServicesInv, NEW i \in DOMAIN line, FinishRename(i) PROVE ServicesInv'
<1>0. PICK me : me = line[i]
  OBVIOUS
<1>1. /\ me.verb = "rename" /\ me.pc = "renaming" /\ Live(me) /\ me.todo = {} /\ Renamed(i) /\ UNCHANGED <<box, bytes>>
  BY <1>0 DEF FinishRename, At, Live
<1>2. Everywhere(me) /\ RenameHolds(me)
  BY <1>0, <1>1, LiveRename
<1>3. RegOf(me.kind, me.to) = {}
  BY <1>1, <1>2 DEF RenameHolds
<1>4. \A r \in rows : r.kind = me.kind =>
        /\ r.name = me.name =>
              /\ me.kind # "postgres" /\ InBox(r.branch, me.kind, me.name) = {}
              /\ \A s \in rows : s.branch = r.branch /\ Solid(s.kind) => Label[s.kind][s.name] # Label[me.kind][me.to]
        /\ r.name = me.to => me.kind = "postgres" /\ Live(me)
  BY <1>1, <1>2 DEF RenameHolds
<1> QED BY <1>0, <1>1, <1>2, <1>3, <1>4, RenamedKeeps

\* A rename that takes note of something and leaves everything else.
LEMMA NotesKeeps ==
    ASSUME ServicesInv, NEW i \in DOMAIN line, line[i].verb = "rename", Live(line[i]),
           NEW n \in Op, Shape(n), Live(n), n.verb = "rename", n.kind = line[i].kind, n.name = line[i].name,
           n.to = line[i].to, n.branch = line[i].branch, n.keys = line[i].keys, n.done = line[i].done,
           Become(i, n), UNCHANGED <<store, box, bytes>>, RenameHolds(n)
    PROVE  ServicesInv'
<1>0. PICK me : me = line[i]
  OBVIOUS
<1>1. me \in Op /\ LineInv /\ Everywhere(me)
  BY <1>0, LiveRename DEF ServicesInv
<1>2. UNCHANGED <<branches, reg, rows, wired, reserved, box, bytes>>
  BY DEF store
<1> DEFINE N == {n}
<1>3. LeftOf(i, N)
  <2>1. (ChainStage(n) => ChainStage(me) \/ ChainFree) /\ (IsNew(n) => IsNew(me))
    <3>1. Chained(n) <=> Chained(me)
      BY <1>0 DEF Chained
    <3>2. me.pc \in {"renaming", "undo"}
      BY <1>0, <1>1 DEF LineInv, Shape, At1, Live
    <3> QED BY <3>1, <3>2 DEF ChainStage, IsNew
  <2> QED BY <1>0, <1>1, <2>1, BecomeIs
<1>4. AtRename = {me} /\ \A o : Besides(i, o) /\ Live(o) => o.verb = "remove"
  BY <1>0, <1>1, RenameAlone
<1>5. AtRename' = {n}
  BY <1>3, <1>4 DEF AtRename, LeftOf
<1>6. /\ \A r, m : Named(r, m)' <=> Named(r, m)
      /\ \A x, r : Matches(x, r)' <=> Matches(x, r)
  BY <1>0, <1>4, <1>5 DEF Named, Matches, Ahead, NotAhead
<1>7. \A r \in rows : Emptied(r) => Emptied(r)'
  BY <1>0, <1>3, InLineIs DEF Emptied, LeftOf
<1>8. Holds(n)'
  <2>1. Holds(n)
    BY DEF Holds, AddHolds, DeployHolds, RemoveHolds, CloneHolds
  <2> QED BY <1>2, <2>1, StillHolds
<1>9. \A o \in N : ~Holder(o)
  BY DEF Holder
<1> QED BY <1>2, <1>3, <1>6, <1>7, <1>8, <1>9, QuietStep

LEMMA RenameNotNeededKeeps ==
    ASSUME ServicesInv, NEW i \in DOMAIN line, NEW b \in Branch, RenameNotNeeded(i, b)
    PROVE  ServicesInv'
<1>0. PICK me : me = line[i]
  OBVIOUS
<1>1. /\ me.verb = "rename" /\ me.pc = "renaming" /\ Live(me) /\ b \in me.todo
      /\ me.kind # "postgres" /\ InBox(b, me.kind, me.name) = {} /\ UNCHANGED <<store, box, bytes>>
  BY <1>0 DEF RenameNotNeeded, At, Live
<1>2. RenameHolds(me) /\ Shape(me) /\ me \in Op
  BY <1>0, <1>1, LiveRename
<1>3. PICK n : n = [me EXCEPT !.todo = @ \ {b}]
  OBVIOUS
<1>4. PICK left : left = me.todo \ {b}
  OBVIOUS
<1>5. /\ n \in Op /\ n.verb = me.verb /\ n.pc = me.pc /\ n.kind = me.kind /\ n.name = me.name /\ n.to = me.to
      /\ n.branch = me.branch /\ n.keys = me.keys /\ n.done = me.done /\ n.todo = left
  <2>1. n = [me EXCEPT !.todo = left] /\ left \in SUBSET (Branch \cup RowSet)
    BY <1>2, <1>3, <1>4 DEF Op
  <2> QED BY <1>2, <2>1 DEF Op
<1>6. Become(i, n)
  BY <1>0, <1>3 DEF RenameNotNeeded
<1>7. Shape(n) /\ Live(n)
  BY <1>1, <1>2, <1>5 DEF Shape, Live, At1
<1>8. Owner(n) = Owner(me)
  BY <1>5 DEF Owner
<1>9. RenameHolds(n)
  BY <1>1, <1>2, <1>4, <1>5, <1>7, <1>8 DEF RenameHolds
<1> QED BY <1>0, <1>1, <1>5, <1>6, <1>7, <1>9, NotesKeeps

\* No rename of a database breaks off: its containers are where the rows say.
LEMMA PostgresMoves ==
    ASSUME ServicesInv, NEW i \in DOMAIN line, line[i].verb = "rename", Live(line[i]),
           line[i].kind = "postgres", NEW b \in line[i].todo
    PROVE  Possible(line[i], b)
<1>0. PICK me : me = line[i]
  OBVIOUS
<1>1. Everywhere(me) /\ RenameHolds(me) /\ me \in Op
  BY <1>0, LiveRename
<1>2. b \in branches /\ Carries(b, "postgres", me.name)
  BY <1>0, <1>1 DEF RenameHolds
<1>3. PICK r \in rows : r.branch = b /\ r.kind = "postgres" /\ r.name = me.name
  BY <1>2 DEF Carries, RowsOf
<1>4. InBox(b, "postgres", me.name) # {}
  <2> SUFFICES ASSUME Emptied(r) PROVE FALSE
    BY <1>3 DEF ServicesInv, StateInv, Boxed
  <2>1. PICK o \in Op : InLine(o) /\ o.verb = "remove" /\ o.pc = "bytes"
                        /\ o.branch = b /\ o.kind = "postgres" /\ o.name = me.name
    BY <1>3 DEF Emptied
  <2>2. Besides(i, o) /\ Live(o)
    BY <1>0, <2>1, InLineIs DEF Live
  <2> QED BY <1>0, <1>1, <1>2, <2>1, <2>2, RenameAlone
<1>5. ASSUME NEW x \in InBox(b, "postgres", me.to) PROVE FALSE
  <2>1. x \in box /\ x.branch = b /\ x.kind = "postgres" /\ x.handle = me.to
    BY <1>5 DEF InBox
  <2>2. PICK s \in rows : Matches(x, s)
    BY <2>1 DEF ServicesInv, StateInv, Boxed, Solid
  <2>3. AtRename = {me}
    BY <1>0, <1>1, RenameAlone
  <2>4. s.branch = b /\ s.kind = "postgres" /\ s.name = me.to
    BY <1>0, <2>1, <2>2, <2>3 DEF Matches, Ahead
  <2> QED BY <1>0, <1>1, <2>4 DEF RenameHolds
<1> QED BY <1>0, <1>4, <1>5 DEF Possible

LEMMA RenameBreaksKeeps ==
    ASSUME PostgresSound, ServicesInv, NEW i \in DOMAIN line, RenameBreaks(i)
    PROVE  ServicesInv'
<1>0. PICK me : me = line[i]
  OBVIOUS
<1>1. /\ me.verb = "rename" /\ me.pc = "renaming" /\ Live(me) /\ UNCHANGED <<store, box, bytes>>
  BY <1>0 DEF RenameBreaks, At, Live
<1>2. RenameHolds(me) /\ Shape(me) /\ me \in Op
  BY <1>0, <1>1, LiveRename
<1>3. me.kind # "postgres"
  <2> SUFFICES ASSUME me.kind = "postgres" PROVE FALSE
    OBVIOUS
  <2>1. PICK b \in me.todo :
          \/ Fails("rename", me)
          \/ InBox(b, me.kind, me.name) # {} /\ InBox(b, me.kind, me.to) # {}
          \/ (me.kind = "postgres" /\ ~Possible(me, b))
    BY <1>0 DEF RenameBreaks
  <2>2. ~Fails("rename", me)
    BY DEF Fails, PostgresSound
  <2>3. Possible(me, b)
    BY <1>0, <1>1, PostgresMoves
  <2> QED BY <2>1, <2>2, <2>3 DEF Possible
<1>4. PICK n : n = [me EXCEPT !.pc = "undo"]
  OBVIOUS
<1>5. /\ n \in Op /\ n.verb = me.verb /\ n.pc = "undo" /\ n.kind = me.kind /\ n.name = me.name /\ n.to = me.to
      /\ n.branch = me.branch /\ n.keys = me.keys /\ n.done = me.done /\ n.todo = me.todo
  BY <1>2, <1>4 DEF Op, AtWork
<1>6. Become(i, n)
  BY <1>0, <1>3, <1>4 DEF RenameBreaks, Goto
<1>7. Shape(n) /\ Live(n)
  BY <1>1, <1>2, <1>3, <1>5 DEF Shape, Live, At1
<1>8. Owner(n) = Owner(me)
  BY <1>5 DEF Owner
<1>9. RenameHolds(n)
  BY <1>1, <1>2, <1>5, <1>7, <1>8 DEF RenameHolds
<1> QED BY <1>0, <1>1, <1>5, <1>6, <1>7, <1>9, NotesKeeps

LEMMA HandedIs ==
    ASSUME NEW x \in BoxSet, NEW o, NEW f, NEW g \in Name, NEW y, y = Handed(x, o, f, g)
    PROVE  /\ y \in BoxSet /\ y.branch = x.branch /\ y.kind = x.kind /\ y.data = x.data
           /\ x.branch \in o.done \cup o.todo /\ x.kind = o.kind /\ x.handle = f => y.handle = g
           /\ ~(x.branch \in o.done \cup o.todo /\ x.kind = o.kind /\ x.handle = f) => y = x
BY DEF Handed, BoxSet

LEMMA OthersRemove ==
    ASSUME ServicesInv, NEW i \in DOMAIN line, line[i].verb = "rename", Live(line[i]),
           branches' = branches,
           \A o \in Op : Besides(i, o) /\ Live(o) /\ o.verb = "remove" => RemoveHolds(o)'
    PROVE  \A o \in Op : Besides(i, o) => Holds(o)'
<1> SUFFICES ASSUME NEW o \in Op, Besides(i, o) PROVE Holds(o)'
  OBVIOUS
<1>1. Holds(o)
  BY InLineIs DEF ServicesInv
<1>2. CASE ~Live(o)
  BY <1>1, <1>2 DEF Live, Holds, AddHolds, DeployHolds, RemoveHolds, RenameHolds, CloneHolds
<1>3. CASE Live(o)
  <2>1. o.verb = "remove"
    BY <1>3, RenameAlone, LiveRename
  <2> QED BY <1>3, <2>1 DEF Holds, AddHolds, DeployHolds, RenameHolds, CloneHolds
<1> QED BY <1>2, <1>3

\* Containers of groups or managed services are moved, ahead of their rows or back.
LEMMA HandsKeep ==
    ASSUME ServicesInv, NEW i \in DOMAIN line, line[i].verb = "rename", Live(line[i]),
           line[i].kind # "postgres", NEW N, LeftOf(i, N), \A n \in N : Holds(n)' /\ n.verb = "rename",
           UNCHANGED <<branches, reg, rows, wired, bytes>>,
           \A r \in rows : \A m : Named(r, m)' <=> Named(r, m),
           \A y \in box' : Solid(y.kind) /\ y.data # None => \E r \in rows : Matches(y, r)',
           box' \subseteq BoxSet,
           \A y \in box' : y \in box \/ (y.kind = line[i].kind /\ y.handle \in {line[i].name, line[i].to}),
           \A x \in box : x.kind # line[i].kind => x \in box'
    PROVE  ServicesInv'
<1>0. PICK me : me = line[i]
  OBVIOUS
<1>1. me \in Op /\ LineInv /\ Everywhere(me) /\ RenameHolds(me) /\ Live(me) /\ me.verb = "rename"
  BY <1>0, LiveRename DEF ServicesInv
<1>2. /\ StoreTyped /\ RowsTyped /\ DataMeans /\ HostsApart /\ Registered /\ RowsHaveBytes /\ Boxed /\ WiresHold
  BY DEF ServicesInv, StateInv
<1>3. StoreTyped' /\ RowsTyped' /\ HostsApart' /\ RowsHaveBytes' /\ WiresHold'
  BY <1>2 DEF StoreTyped, RowsTyped, HostsApart, RowsHaveBytes, WiresHold, Carries, RowsOf
<1>4. Registered'
  BY <1>2 DEF Registered
<1>5. Boxed'
  <2>1. \A y \in box' : y.kind = "postgres" => y.data # None
    BY <1>2 DEF Boxed
  <2>2. ASSUME NEW r \in rows', r.kind = "postgres"
        PROVE  InBox(r.branch, "postgres", r.name)' # {} \/ Emptied(r)'
    <3>1. InBox(r.branch, "postgres", r.name) \subseteq InBox(r.branch, "postgres", r.name)'
      BY DEF InBox
    <3>2. Emptied(r) => Emptied(r)'
      BY <1>0, <1>1, InLineIs DEF Emptied, LeftOf
    <3> QED BY <1>2, <2>2, <3>1, <3>2 DEF Boxed
  <2> QED BY <2>1, <2>2 DEF Boxed
<1>6. DataMeans'
  <2>1. \A m, p, z : RegClaim(m, p, z)' \/ RowClaim(m, p, z)' => RegClaim(m, p, z) \/ RowClaim(m, p, z)
    BY SameRows
  <2>2. \A m, p, z : OpClaim(m, p, z)' => OpClaim(m, p, z)
    BY OpClaims DEF Holder
  <2> QED BY <1>2, <2>1, <2>2, ClaimsKeep DEF Claim
<1>7. \A o \in Op : Besides(i, o) => Holds(o)'
  <2>1. ASSUME NEW o \in Op, Besides(i, o), Live(o), o.verb = "remove" PROVE RemoveHolds(o)'
    <3>1. RemoveHolds(o)
      BY <2>1, InLineIs DEF ServicesInv, Holds
    <3>2. o.pc = "bytes" => InBox(o.branch, o.kind, o.name)' = {}
      <4> SUFFICES ASSUME o.pc = "bytes", NEW y \in box', y.branch = o.branch, y.kind = o.kind, y.handle = o.name
                   PROVE  FALSE
        BY DEF InBox
      <4>1. Carries(o.branch, o.kind, o.name) /\ InBox(o.branch, o.kind, o.name) = {}
        BY <2>1, <3>1 DEF RemoveHolds
      <4>2. y \notin box
        BY <4>1 DEF InBox
      <4>3. o.kind = me.kind /\ o.name \in {me.name, me.to}
        BY <1>0, <4>2
      <4>4. PICK r \in rows : r.branch = o.branch /\ r.kind = o.kind /\ r.name = o.name
        BY <4>1 DEF Carries, RowsOf
      <4>5. o.name # me.to
        BY <1>0, <1>1, <4>3, <4>4 DEF RenameHolds
      <4>6. o.branch \in branches
        BY <1>2, <4>4 DEF RowsTyped
      <4> QED BY <1>0, <1>1, <2>1, <4>3, <4>5, <4>6, RenameAlone
    <3> QED BY <2>1, <3>1, <3>2 DEF RemoveHolds, Carries, RowsOf, RegOf
  <2> QED BY <2>1, OthersRemove
<1> QED BY <1>3, <1>4, <1>5, <1>6, <1>7, Assemble DEF StateInv

LEMMA UndoKeeps == ASSUME UndoSound, ServicesInv, NEW i \in DOMAIN line, Undo(i) PROVE ServicesInv'
<1>0. PICK me : me = line[i]
  OBVIOUS
<1> DEFINE k == me.kind
           q == me.name
           t == me.to
<1>1. /\ me.verb = "rename" /\ me.pc = "undo" /\ Live(me) /\ Leave(i)
      /\ UNCHANGED <<branches, reg, rows, wired, bytes>>
  BY <1>0 DEF Undo, At, Live
<1>2. /\ RenameHolds(me) /\ Everywhere(me) /\ Shape(me) /\ me \in Op /\ LineInv /\ k \in Kind /\ k # "postgres"
      /\ q \in Name /\ t \in Name /\ t # q
  BY <1>0, <1>1, LiveRename DEF ServicesInv, Shape
<1>3. box' = {IF x.branch \in me.done THEN Handed(x, me, t, q) ELSE x : x \in box}
  <2>1. ~Fails("undo", me)
    BY <1>2 DEF UndoSound, Fails
  <2> QED BY <1>0, <2>1 DEF Undo
<1>4. /\ StoreTyped /\ Boxed
  BY DEF ServicesInv, StateInv
<1> DEFINE N == {}
<1>5. LeftOf(i, N)
  BY <1>1, <1>2, LeaveIs
<1>6. AtRename = {me} /\ \A o : Besides(i, o) /\ Live(o) => o.verb = "remove"
  BY <1>0, <1>1, <1>2, RenameAlone
<1>7. AtRename' = {}
  BY <1>5, <1>6 DEF AtRename, LeftOf
<1>8. /\ \A r, m : Named(r, m)' <=> r.name = m
      /\ \A x, r : Matches(x, r)' <=> r.branch = x.branch /\ r.kind = x.kind /\ r.data = x.data /\ x.handle = r.name
  BY <1>7, NoRename DEF Named, Matches, Ahead, NotAhead
<1>9. \A r \in rows : \A m : Named(r, m)' <=> Named(r, m)
  BY <1>2, <1>6, <1>8 DEF Named
<1>10. ASSUME NEW y \in box'
       PROVE  /\ y \in BoxSet
              /\ \E x \in box : /\ y.branch = x.branch /\ y.kind = x.kind /\ y.data = x.data
                                /\ x.branch \in me.done /\ x.kind = k /\ x.handle = t => y.handle = q
                                /\ ~(x.branch \in me.done /\ x.kind = k /\ x.handle = t) => y = x
  <2>1. PICK x \in box : y = IF x.branch \in me.done THEN Handed(x, me, t, q) ELSE x
    BY <1>3
  <2>2. x \in BoxSet
    BY <1>4 DEF StoreTyped
  <2>3. CASE x.branch \in me.done
    BY <1>2, <2>1, <2>2, <2>3, HandedIs
  <2>4. CASE x.branch \notin me.done
    BY <2>1, <2>2, <2>4
  <2> QED BY <2>3, <2>4
<1>11. ASSUME NEW y \in box', Solid(y.kind), y.data # None PROVE \E r \in rows : Matches(y, r)'
  <2>1. PICK x \in box : /\ y.branch = x.branch /\ y.kind = x.kind /\ y.data = x.data
                         /\ x.branch \in me.done /\ x.kind = k /\ x.handle = t => y.handle = q
                         /\ ~(x.branch \in me.done /\ x.kind = k /\ x.handle = t) => y = x
    BY <1>10
  <2>2. PICK r \in rows : Matches(x, r)
    BY <1>4, <1>11, <2>1 DEF Boxed
  <2>3. r.branch = x.branch /\ r.kind = x.kind /\ r.data = x.data
    BY <2>2 DEF Matches
  <2>4. ~(r.kind = k /\ r.name = t)
    BY <1>1, <1>2 DEF RenameHolds
  <2>5. CASE r.kind = k /\ r.name = q /\ r.branch \in me.done
    <3>1. x.handle = t
      BY <1>2, <1>6, <2>2, <2>5 DEF Matches, Ahead, NotAhead
    <3> QED BY <1>8, <2>1, <2>3, <2>5, <3>1
  <2>6. CASE ~(r.kind = k /\ r.name = q /\ r.branch \in me.done)
    <3>1. x.handle = r.name
      BY <1>2, <1>6, <2>2, <2>6 DEF Matches, Ahead, NotAhead
    <3>2. y = x
      BY <2>1, <2>3, <2>4, <3>1
    <3> QED BY <1>8, <2>3, <3>1, <3>2
  <2> QED BY <2>5, <2>6
<1>12. \A y \in box' : y \in box \/ (y.kind = k /\ y.handle \in {q, t})
  BY <1>10
<1>13. \A x \in box : x.kind # k => x \in box'
  <2> SUFFICES ASSUME NEW x \in box, x.kind # k PROVE x \in box'
    OBVIOUS
  <2>1. Handed(x, me, t, q) = x
    BY DEF Handed
  <2> QED BY <1>3, <2>1
<1> QED BY <1>0, <1>1, <1>2, <1>5, <1>9, <1>10, <1>11, <1>12, <1>13, HandsKeep

LEMMA RenameOneContainer ==
    ASSUME ServicesInv, NEW i \in DOMAIN line, NEW b \in Branch, RenameOne(i, b), line[i].kind # "postgres"
    PROVE  ServicesInv'
<1>0. PICK me : me = line[i]
  OBVIOUS
<1> DEFINE k == me.kind
           q == me.name
           t == me.to
<1>1. /\ me.verb = "rename" /\ me.pc = "renaming" /\ Live(me) /\ b \in me.todo /\ Possible(me, b)
      /\ UNCHANGED <<branches, reg, rows, wired, bytes, reserved>> /\ k # "postgres"
      /\ box' = HandedOn(me, b, q, t)
  BY <1>0 DEF RenameOne, At, Live
<1>2. /\ RenameHolds(me) /\ Everywhere(me) /\ Shape(me) /\ me \in Op /\ LineInv /\ k \in Kind
      /\ q \in Name /\ t \in Name /\ t # q
  BY <1>0, <1>1, LiveRename DEF ServicesInv, Shape
<1>3. box' = {IF x.branch = b THEN Handed(x, me, q, t) ELSE x : x \in box}
  BY <1>1 DEF HandedOn
<1>4. /\ StoreTyped /\ Boxed
  BY DEF ServicesInv, StateInv
<1>40. PICK left : left = me.todo \ {b}
  OBVIOUS
<1>41. PICK moved : moved = me.done \cup {b}
  OBVIOUS
<1>42. PICK n : n = [me EXCEPT !.todo = left, !.done = moved]
  OBVIOUS
<1>43. /\ n \in Op /\ n.verb = me.verb /\ n.pc = me.pc /\ n.kind = k /\ n.name = q /\ n.to = t
       /\ n.branch = me.branch /\ n.keys = me.keys /\ n.done = moved /\ n.todo = left
  <2>1. left \in SUBSET (Branch \cup RowSet) /\ moved \in SUBSET Branch
    BY <1>2, <1>40, <1>41 DEF Op
  <2> QED BY <1>2, <1>42, <2>1 DEF Op
<1>44. Become(i, n)
  <2>1. n = [line[i] EXCEPT !.todo = @ \ {b}, !.done = @ \cup {b}]
    BY <1>0, <1>40, <1>41, <1>42
  <2> QED BY <2>1 DEF RenameOne
<1>45. Shape(n) /\ Live(n)
  BY <1>1, <1>2, <1>43 DEF Shape, Live, At1
<1> DEFINE N == {n}
<1>5. LeftOf(i, N)
  <2>1. (ChainStage(n) => ChainStage(me) \/ ChainFree) /\ (IsNew(n) => IsNew(me))
    BY <1>43 DEF ChainStage, IsNew, Chained
  <2> QED BY <1>0, <1>1, <1>2, <1>43, <1>44, <1>45, <2>1, BecomeIs
<1>6. AtRename = {me} /\ \A o : Besides(i, o) /\ Live(o) => o.verb = "remove"
  BY <1>0, <1>1, <1>2, RenameAlone
<1>7. AtRename' = {n}
  BY <1>1, <1>5, <1>6, <1>43, <1>45 DEF AtRename, LeftOf
<1>8. \A x, r : Matches(x, r)' <=>
         /\ r.branch = x.branch /\ r.kind = x.kind /\ r.data = x.data
         /\ IF r.kind = k /\ r.name = q /\ r.branch \in moved THEN x.handle = t ELSE x.handle = r.name
  BY <1>1, <1>7, <1>43 DEF Matches, Ahead, NotAhead
<1>9. \A r \in rows : \A m : Named(r, m)' <=> Named(r, m)
  BY <1>1, <1>6, <1>7, <1>43 DEF Named
<1>10. ASSUME NEW y \in box'
       PROVE  /\ y \in BoxSet
              /\ \E x \in box : /\ y.branch = x.branch /\ y.kind = x.kind /\ y.data = x.data
                                /\ x.branch = b /\ x.kind = k /\ x.handle = q => y.handle = t
                                /\ ~(x.branch = b /\ x.kind = k /\ x.handle = q) => y = x
  <2>1. PICK x \in box : y = IF x.branch = b THEN Handed(x, me, q, t) ELSE x
    BY <1>3
  <2>2. x \in BoxSet
    BY <1>4 DEF StoreTyped
  <2>3. CASE x.branch = b
    BY <1>1, <1>2, <2>1, <2>2, <2>3, HandedIs
  <2>4. CASE x.branch # b
    BY <2>1, <2>2, <2>4
  <2> QED BY <2>3, <2>4
<1>11. ASSUME NEW y \in box', Solid(y.kind), y.data # None PROVE \E r \in rows : Matches(y, r)'
  <2>1. PICK x \in box : /\ y.branch = x.branch /\ y.kind = x.kind /\ y.data = x.data
                         /\ x.branch = b /\ x.kind = k /\ x.handle = q => y.handle = t
                         /\ ~(x.branch = b /\ x.kind = k /\ x.handle = q) => y = x
    BY <1>10
  <2>2. PICK r \in rows : Matches(x, r)
    BY <1>4, <1>11, <2>1 DEF Boxed
  <2>3. /\ r.branch = x.branch /\ r.kind = x.kind /\ r.data = x.data
        /\ IF r.kind = k /\ r.name = q /\ r.branch \in me.done THEN x.handle = t ELSE x.handle = r.name
    BY <1>1, <1>6, <2>2 DEF Matches, Ahead, NotAhead
  <2>4. ~(x.branch = b /\ x.kind = k /\ x.handle = t)
    BY <1>1 DEF Possible, InBox
  <2>5. CASE r.kind = k /\ r.name = q /\ r.branch = b
    <3>1. x.handle = q
      BY <2>3, <2>4, <2>5
    <3> QED BY <1>8, <1>41, <2>1, <2>3, <2>5, <3>1
  <2>6. CASE ~(r.kind = k /\ r.name = q /\ r.branch = b)
    <3>1. ~(x.branch = b /\ x.kind = k /\ x.handle = q)
      BY <1>2, <2>3, <2>6
    <3> QED BY <1>8, <1>41, <2>1, <2>3, <2>6, <3>1
  <2> QED BY <2>5, <2>6
<1>12. \A y \in box' : y \in box \/ (y.kind = k /\ y.handle \in {q, t})
  BY <1>10
<1>13. \A x \in box : x.kind # k => x \in box'
  <2> SUFFICES ASSUME NEW x \in box, x.kind # k PROVE x \in box'
    OBVIOUS
  <2>1. Handed(x, me, q, t) = x
    BY DEF Handed
  <2> QED BY <1>3, <2>1
<1>14. Holds(n)'
  <2>1. ASSUME NEW r \in rows, r.kind = k, r.name = q, r.branch \notin left PROVE InBox(r.branch, k, q)' = {}
    <3> SUFFICES ASSUME NEW y \in box', y.branch = r.branch, y.kind = k, y.handle = q PROVE FALSE
      BY DEF InBox
    <3>1. PICK x \in box : /\ y.branch = x.branch /\ y.kind = x.kind
                           /\ x.branch = b /\ x.kind = k /\ x.handle = q => y.handle = t
                           /\ ~(x.branch = b /\ x.kind = k /\ x.handle = q) => y = x
      BY <1>10
    <3>2. y = x /\ x.branch # b
      BY <1>2, <3>1
    <3>3. r.branch \notin me.todo
      BY <1>40, <2>1, <3>1, <3>2
    <3>4. InBox(r.branch, k, q) = {}
      BY <1>1, <1>2, <2>1, <3>3 DEF RenameHolds
    <3> QED BY <3>1, <3>2, <3>4 DEF InBox
  <2>2. Owner(n) = Owner(me)
    BY <1>43 DEF Owner
  <2>3. \A p : Carries(p, k, q)' <=> Carries(p, k, q)
    BY <1>1 DEF Carries, RowsOf
  <2>4. RegOf(k, t)' = RegOf(k, t)
    BY <1>1 DEF RegOf
  <2>5. RenameHolds(n)'
    BY <1>1, <1>2, <1>40, <1>43, <2>1, <2>2, <2>3, <2>4 DEF RenameHolds
  <2> QED BY <1>1, <1>43, <2>5 DEF Holds, AddHolds, DeployHolds, RemoveHolds, CloneHolds
<1> QED BY <1>0, <1>1, <1>5, <1>9, <1>10, <1>11, <1>12, <1>13, <1>14, <1>43, HandsKeep

LEMMA RenameOneDatabase ==
    ASSUME ServicesInv, NEW i \in DOMAIN line, NEW b \in Branch, RenameOne(i, b), line[i].kind = "postgres"
    PROVE  ServicesInv'
<1>0. PICK me : me = line[i]
  OBVIOUS
<1> DEFINE k == me.kind
           q == me.name
           t == me.to
<1>1. /\ me.verb = "rename" /\ me.pc = "renaming" /\ Live(me) /\ b \in me.todo /\ Possible(me, b)
      /\ UNCHANGED <<branches, reg, bytes, reserved>> /\ k = "postgres"
      /\ box' = HandedOn(me, b, q, t)
      /\ rows' = {IF r.branch = b THEN Moved(r, k, q, t) ELSE r : r \in rows}
      /\ wired' = Wires(me, {b})
  BY <1>0 DEF RenameOne, At, Live
<1>2. /\ RenameHolds(me) /\ Everywhere(me) /\ Shape(me) /\ me \in Op /\ LineInv /\ k \in Kind
      /\ q \in Name /\ t \in Name /\ t # q
  BY <1>0, <1>1, LiveRename DEF ServicesInv, Shape
<1>3. box' = {IF x.branch = b THEN Handed(x, me, q, t) ELSE x : x \in box}
  BY <1>1 DEF HandedOn
<1>4. /\ StoreTyped /\ RowsTyped /\ DataMeans /\ HostsApart /\ Registered /\ RowsHaveBytes /\ Boxed /\ WiresHold
  BY DEF ServicesInv, StateInv
<1>40. PICK left : left = me.todo \ {b}
  OBVIOUS
<1>41. PICK moved : moved = me.done \cup {b}
  OBVIOUS
<1>42. PICK n : n = [me EXCEPT !.todo = left, !.done = moved]
  OBVIOUS
<1>43. /\ n \in Op /\ n.verb = me.verb /\ n.pc = me.pc /\ n.kind = k /\ n.name = q /\ n.to = t
       /\ n.branch = me.branch /\ n.keys = me.keys /\ n.done = moved /\ n.todo = left
  <2>1. left \in SUBSET (Branch \cup RowSet) /\ moved \in SUBSET Branch
    BY <1>2, <1>40, <1>41 DEF Op
  <2> QED BY <1>2, <1>42, <2>1 DEF Op
<1>44. Become(i, n)
  <2>1. n = [line[i] EXCEPT !.todo = @ \ {b}, !.done = @ \cup {b}]
    BY <1>0, <1>40, <1>41, <1>42
  <2> QED BY <2>1 DEF RenameOne
<1>45. Shape(n) /\ Live(n)
  BY <1>1, <1>2, <1>43 DEF Shape, Live, At1
<1> DEFINE N == {n}
<1>5. LeftOf(i, N)
  <2>1. (ChainStage(n) => ChainStage(me) \/ ChainFree) /\ (IsNew(n) => IsNew(me))
    BY <1>43 DEF ChainStage, IsNew, Chained
  <2> QED BY <1>0, <1>1, <1>2, <1>43, <1>44, <1>45, <2>1, BecomeIs
<1>6. AtRename = {me} /\ \A o : Besides(i, o) /\ Live(o) => o.verb = "remove" /\ (o.branch \in branches => o.kind # k \/ o.name # q)
  BY <1>0, <1>1, <1>2, RenameAlone
<1>7. AtRename' = {n}
  BY <1>1, <1>5, <1>6, <1>43, <1>45 DEF AtRename, LeftOf
<1>8. /\ \A x, r : Matches(x, r) <=> r.branch = x.branch /\ r.kind = x.kind /\ r.data = x.data /\ x.handle = r.name
      /\ \A x, r : Matches(x, r)' <=> r.branch = x.branch /\ r.kind = x.kind /\ r.data = x.data /\ x.handle = r.name
      /\ \A r, m : Named(r, m)' <=> Named(r, m)
  BY <1>1, <1>6, <1>7, <1>43 DEF Matches, Ahead, NotAhead, Named
<1> DEFINE Mine(r) == r.branch = b /\ r.kind = k /\ r.name = q
<1>9. ASSUME NEW r \in rows, NEW s, s = IF r.branch = b THEN Moved(r, k, q, t) ELSE r
      PROVE  /\ s \in rows' /\ s \in RowSet
             /\ s.branch = r.branch /\ s.kind = r.kind /\ s.data = r.data
             /\ Mine(r) => s.name = t /\ s.handle = t
             /\ ~Mine(r) => s = r
  <2>1. r \in RowSet
    BY <1>4 DEF StoreTyped
  <2>2. s \in rows'
    BY <1>1, <1>9
  <2> QED BY <1>1, <1>2, <1>9, <2>1, <2>2 DEF Moved, RowSet
<1>10. ASSUME NEW s \in rows'
       PROVE  \E r \in rows : /\ s \in RowSet /\ s.branch = r.branch /\ s.kind = r.kind /\ s.data = r.data
                              /\ Mine(r) => s.name = t /\ s.handle = t
                              /\ ~Mine(r) => s = r
  <2>1. PICK r \in rows : s = IF r.branch = b THEN Moved(r, k, q, t) ELSE r
    BY <1>1
  <2> QED BY <1>9, <2>1
<1>11. ASSUME NEW r \in rows
       PROVE  \E s \in rows' : /\ s.branch = r.branch /\ s.kind = r.kind /\ s.data = r.data
                               /\ Mine(r) => s.name = t
                               /\ ~Mine(r) => s = r
  <2>1. PICK s : s = IF r.branch = b THEN Moved(r, k, q, t) ELSE r
    OBVIOUS
  <2> QED BY <1>9, <2>1
<1>12. /\ \A r \in rows : r.kind = k /\ r.name = t => r.branch \notin me.todo
       /\ \A r \in rows : r.kind = k /\ r.name = q =>
             /\ r.branch \in me.todo
             /\ \A s \in rows : s.branch = r.branch /\ Solid(s.kind) => Label[s.kind][s.name] # Label[k][t]
       /\ RegOf(k, t) = {} /\ \A p \in me.todo : p \in branches /\ Carries(p, k, q)
  BY <1>1, <1>2 DEF RenameHolds
<1>13. ASSUME NEW x \in box, NEW y, y = IF x.branch = b THEN Handed(x, me, q, t) ELSE x
       PROVE  /\ y \in box' /\ y \in BoxSet /\ y.branch = x.branch /\ y.kind = x.kind /\ y.data = x.data
              /\ x.branch = b /\ x.kind = k /\ x.handle = q => y.handle = t
              /\ ~(x.branch = b /\ x.kind = k /\ x.handle = q) => y = x
  <2>1. x \in BoxSet
    BY <1>4 DEF StoreTyped
  <2>2. CASE x.branch = b
    BY <1>1, <1>2, <1>3, <1>13, <2>1, <2>2, HandedIs
  <2>3. CASE x.branch # b
    BY <1>3, <1>13, <2>1, <2>3
  <2> QED BY <2>2, <2>3
<1>14. ASSUME NEW y \in box'
       PROVE  \E x \in box : /\ y \in BoxSet /\ y.branch = x.branch /\ y.kind = x.kind /\ y.data = x.data
                             /\ x.branch = b /\ x.kind = k /\ x.handle = q => y.handle = t
                             /\ ~(x.branch = b /\ x.kind = k /\ x.handle = q) => y = x
  <2>1. PICK x \in box : y = IF x.branch = b THEN Handed(x, me, q, t) ELSE x
    BY <1>3
  <2> QED BY <1>13, <2>1
<1>15. ASSUME NEW x \in box
       PROVE  \E y \in box' : /\ y.branch = x.branch /\ y.kind = x.kind
                              /\ x.branch = b /\ x.kind = k /\ x.handle = q => y.handle = t
                              /\ ~(x.branch = b /\ x.kind = k /\ x.handle = q) => y = x
  <2>1. PICK y : y = IF x.branch = b THEN Handed(x, me, q, t) ELSE x
    OBVIOUS
  <2> QED BY <1>13, <2>1
<1>16. ASSUME NEW v \in wired'
       PROVE  /\ v \in [branch : Branch, kind : {"postgres"}, name : Name]
              /\ v \in wired \/ (v.branch = b /\ v.kind = k /\ v.name = t)
              /\ ~(v.branch = b /\ v.kind = k /\ v.name = q)
  <2>1. PICK w \in wired : v = MovedWire(w, me, {b})
    BY <1>1 DEF Wires
  <2>2. w \in [branch : Branch, kind : {"postgres"}, name : Name]
    BY <1>4 DEF StoreTyped
  <2> QED BY <1>1, <1>2, <2>1, <2>2 DEF MovedWire
<1>17. StoreTyped'
  BY <1>1, <1>4, <1>10, <1>14, <1>16 DEF StoreTyped
<1>18. RowsTyped'
  <2>1. \A s \in rows' : s.branch \in branches'
    BY <1>1, <1>4, <1>10 DEF RowsTyped
  <2>2. \A s \in rows' : (Solid(s.kind) => s.handle = s.name) /\ (Told(s.kind) => s.data # None)
    BY <1>4, <1>10 DEF RowsTyped
  <2>3. \A r, s \in rows' : Solid(r.kind) /\ r.branch = s.branch /\ r.kind = s.kind /\ r.name = s.name => r = s
    <3> SUFFICES ASSUME NEW r \in rows', NEW s \in rows', Solid(r.kind), r.branch = s.branch,
                        r.kind = s.kind, r.name = s.name
                 PROVE  r = s
      OBVIOUS
    <3>1. PICK r0 \in rows : /\ r \in RowSet /\ r.branch = r0.branch /\ r.kind = r0.kind /\ r.data = r0.data
                             /\ Mine(r0) => r.name = t /\ r.handle = t
                             /\ ~Mine(r0) => r = r0
      BY <1>10
    <3>2. PICK s0 \in rows : /\ s \in RowSet /\ s.branch = s0.branch /\ s.kind = s0.kind /\ s.data = s0.data
                             /\ Mine(s0) => s.name = t /\ s.handle = t
                             /\ ~Mine(s0) => s = s0
      BY <1>10
    <3>3. Mine(r0) <=> Mine(s0)
      BY <1>1, <1>12, <3>1, <3>2
    <3>4. r0 = s0
      BY <1>4, <3>1, <3>2, <3>3 DEF RowsTyped
    <3> QED BY <3>1, <3>2, <3>3, <3>4 DEF RowSet
  <2> QED BY <2>1, <2>2, <2>3 DEF RowsTyped
<1>19. HostsApart'
  <2> SUFFICES ASSUME NEW r \in rows', NEW s \in rows', Solid(r.kind), Solid(s.kind), r.branch = s.branch,
                      Label[r.kind][r.name] = Label[s.kind][s.name]
               PROVE  r = s
    BY DEF HostsApart
  <2>1. PICK r0 \in rows : /\ r.branch = r0.branch /\ r.kind = r0.kind
                           /\ Mine(r0) => r.name = t
                           /\ ~Mine(r0) => r = r0
    BY <1>10
  <2>2. PICK s0 \in rows : /\ s.branch = s0.branch /\ s.kind = s0.kind
                           /\ Mine(s0) => s.name = t
                           /\ ~Mine(s0) => s = s0
    BY <1>10
  <2>3. Mine(r0) <=> Mine(s0)
    BY <1>12, <2>1, <2>2
  <2>4. CASE Mine(r0)
    <3>1. r.name = s.name
      BY <2>1, <2>2, <2>3, <2>4
    <3> QED BY <1>18, <2>1, <2>2, <2>3, <2>4, <3>1 DEF RowsTyped
  <2>5. CASE ~Mine(r0)
    BY <1>4, <2>1, <2>2, <2>3, <2>5 DEF HostsApart
  <2> QED BY <2>4, <2>5
<1>20. RowsHaveBytes'
  BY <1>1, <1>4, <1>10 DEF RowsHaveBytes
<1>21. WiresHold'
  <2> SUFFICES ASSUME NEW v \in wired' PROVE \E s \in rows' : s.branch = v.branch /\ s.kind = v.kind /\ s.name = v.name
    BY DEF WiresHold, Carries, RowsOf
  <2>1. CASE v.branch = b /\ v.kind = k /\ v.name = t
    <3>1. PICK r \in rows : Mine(r)
      BY <1>1, <1>12 DEF Carries, RowsOf
    <3> QED BY <1>11, <2>1, <3>1
  <2>2. CASE v \in wired
    <3>1. PICK r \in rows : r.branch = v.branch /\ r.kind = v.kind /\ r.name = v.name
      BY <1>4, <2>2 DEF WiresHold, Carries, RowsOf
    <3>2. ~Mine(r)
      BY <1>16, <3>1
    <3> QED BY <1>11, <3>1, <3>2
  <2> QED BY <1>16, <2>1, <2>2
<1>22. ASSUME NEW s \in rows', NEW m
       PROVE  \E r \in rows : s.branch = r.branch /\ s.kind = r.kind /\ s.data = r.data /\ (Named(s, m)' => Named(r, m))
  <2>1. PICK r \in rows : /\ s.branch = r.branch /\ s.kind = r.kind /\ s.data = r.data
                          /\ Mine(r) => s.name = t
                          /\ ~Mine(r) => s = r
    BY <1>10
  <2>2. CASE Mine(r)
    <3>1. Named(r, q) /\ (Named(s, m) => m = q)
      BY <1>1, <1>2, <1>6, <2>1, <2>2 DEF Named
    <3> QED BY <1>8, <2>1, <3>1
  <2>3. CASE ~Mine(r)
    BY <1>8, <2>1, <2>3
  <2> QED BY <2>2, <2>3
<1>23. Registered'
  <2> SUFFICES ASSUME NEW s \in rows', Told(s.kind) PROVE \E e \in reg : e.kind = s.kind /\ Named(s, e.name)'
    BY <1>1 DEF Registered
  <2>1. PICK r \in rows : /\ s.branch = r.branch /\ s.kind = r.kind
                          /\ Mine(r) => s.name = t
                          /\ ~Mine(r) => s = r
    BY <1>10
  <2>2. PICK e \in reg : e.kind = r.kind /\ Named(r, e.name)
    BY <1>4, <2>1 DEF Registered
  <2>3. CASE Mine(r)
    <3>1. e.name = q
      BY <1>2, <1>6, <2>2, <2>3 DEF Named
    <3>2. Named(s, q)
      BY <1>1, <1>6, <2>1, <2>3 DEF Named
    <3> QED BY <1>8, <2>1, <2>2, <3>1, <3>2
  <2>4. CASE ~Mine(r)
    BY <1>8, <2>1, <2>2, <2>4
  <2> QED BY <2>3, <2>4
<1>24. Boxed'
  <2>1. ASSUME NEW y \in box', Solid(y.kind), y.data # None PROVE \E s \in rows' : Matches(y, s)'
    <3>1. PICK x \in box : /\ y.branch = x.branch /\ y.kind = x.kind /\ y.data = x.data
                           /\ x.branch = b /\ x.kind = k /\ x.handle = q => y.handle = t
                           /\ ~(x.branch = b /\ x.kind = k /\ x.handle = q) => y = x
      BY <1>14
    <3>2. PICK r \in rows : r.branch = x.branch /\ r.kind = x.kind /\ r.data = x.data /\ x.handle = r.name
      BY <1>4, <1>8, <2>1, <3>1 DEF Boxed
    <3>3. PICK s \in rows' : /\ s.branch = r.branch /\ s.kind = r.kind /\ s.data = r.data
                             /\ Mine(r) => s.name = t
                             /\ ~Mine(r) => s = r
      BY <1>11
    <3> QED BY <1>8, <3>1, <3>2, <3>3
  <2>2. \A y \in box' : y.kind = "postgres" => y.data # None
    BY <1>4, <1>14 DEF Boxed
  <2>3. ASSUME NEW s \in rows', s.kind = "postgres"
        PROVE  InBox(s.branch, "postgres", s.name)' # {} \/ Emptied(s)'
    <3>1. PICK r \in rows : /\ s.branch = r.branch /\ s.kind = r.kind
                            /\ Mine(r) => s.name = t
                            /\ ~Mine(r) => s = r
      BY <1>10
    <3>2. CASE Mine(r)
      <4>1. PICK x \in box : x.branch = b /\ x.kind = k /\ x.handle = q
        BY <1>1 DEF Possible, InBox
      <4>2. PICK y \in box' : y.branch = b /\ y.kind = k /\ y.handle = t
        BY <1>15, <4>1
      <4> QED BY <1>1, <3>1, <3>2, <4>2 DEF InBox
    <3>3. CASE ~Mine(r)
      <4>1. InBox(s.branch, "postgres", s.name) # {} \/ Emptied(s)
        BY <1>4, <2>3, <3>1, <3>3 DEF Boxed
      <4>2. ASSUME NEW x \in InBox(s.branch, "postgres", s.name) PROVE x \in InBox(s.branch, "postgres", s.name)'
        <5>1. x \in box /\ ~(x.branch = b /\ x.kind = k /\ x.handle = q)
          BY <1>1, <2>3, <3>1, <3>3, <4>2 DEF InBox
        <5>2. x \in box'
          BY <1>15, <5>1
        <5> QED BY <4>2, <5>2 DEF InBox
      <4>3. Emptied(s) => Emptied(s)'
        BY <1>0, <1>1, <1>5, InLineIs DEF Emptied, LeftOf
      <4> QED BY <4>1, <4>2, <4>3
    <3> QED BY <3>2, <3>3
  <2> QED BY <2>1, <2>2, <2>3 DEF Boxed
<1>25. DataMeans'
  <2>1. \A m, p, z : RegClaim(m, p, z)' => RegClaim(m, p, z)
    BY <1>1 DEF RegClaim
  <2>2. \A m, p, z : RowClaim(m, p, z)' => RowClaim(m, p, z)
    <3> SUFFICES ASSUME NEW m, NEW p, NEW z, RowClaim(m, p, z)' PROVE RowClaim(m, p, z)
      OBVIOUS
    <3>1. PICK s \in rows' : s.kind = m /\ Named(s, p)' /\ s.data = z
      BY DEF RowClaim
    <3> QED BY <1>22, <3>1 DEF RowClaim
  <2>3. \A m, p, z : OpClaim(m, p, z)' => OpClaim(m, p, z)
    <3>1. \A o : Besides(i, o) /\ Holder(o)' => Holder(o)
      BY <1>1 DEF Holder
    <3>2. ~Holder(n)'
      BY <1>1, <1>43 DEF Holder
    <3> QED BY <1>5, <3>1, <3>2, OpClaims
  <2> QED BY <1>4, <2>1, <2>2, <2>3, ClaimsKeep DEF Claim
<1>26. Holds(n)'
  <2>1. \A p \in branches' : Star(p) \in n.keys /\ Key(p, n.kind, n.name) \in n.keys
    BY <1>1, <1>2, <1>43 DEF Everywhere
  <2>2. RegOf(k, t)' = {}
    BY <1>1, <1>12 DEF RegOf
  <2>3. \A s \in rows' : s.kind = k /\ s.name = t => s.branch \notin left
    BY <1>10, <1>12, <1>40
  <2>4. ASSUME NEW r \in rows', r.kind = k, r.name = q
        PROVE  /\ r \in rows /\ r.branch # b
               /\ r.branch \in left
               /\ \A s \in rows' : s.branch = r.branch /\ Solid(s.kind) => Label[s.kind][s.name] # Label[k][t]
    <3>1. r \in rows /\ r.branch # b
      BY <1>2, <1>10, <2>4
    <3>2. \A s \in rows' : s.branch = r.branch => s \in rows
      BY <1>10, <3>1
    <3> QED BY <1>12, <1>40, <2>4, <3>1, <3>2
  <2>5. ASSUME NEW p \in left PROVE p \in branches' /\ Carries(p, k, q)'
    <3>1. p \in branches /\ Carries(p, k, q) /\ p # b
      BY <1>12, <1>40, <2>5
    <3>2. PICK r \in rows : r.branch = p /\ r.kind = k /\ r.name = q
      BY <3>1 DEF Carries, RowsOf
    <3>3. r \in rows'
      BY <1>11, <3>1, <3>2
    <3> QED BY <1>1, <3>1, <3>2, <3>3 DEF Carries, RowsOf
  <2>6. RenameHolds(n)'
    BY <1>1, <1>43, <2>1, <2>2, <2>3, <2>4, <2>5 DEF RenameHolds
  <2> QED BY <1>1, <1>43, <2>6 DEF Holds, AddHolds, DeployHolds, RemoveHolds, CloneHolds
<1>27. \A o \in Op : Besides(i, o) => Holds(o)'
  <2>1. ASSUME NEW o \in Op, Besides(i, o), Live(o), o.verb = "remove" PROVE RemoveHolds(o)'
    <3>1. RemoveHolds(o)
      BY <2>1, InLineIs DEF ServicesInv, Holds
    <3>2. RegOf(o.kind, o.name)' = RegOf(o.kind, o.name)
      BY <1>1 DEF RegOf
    <3>3. ASSUME Carries(o.branch, o.kind, o.name) PROVE Carries(o.branch, o.kind, o.name)'
      <4>1. PICK r \in rows : r.branch = o.branch /\ r.kind = o.kind /\ r.name = o.name
        BY <3>3 DEF Carries, RowsOf
      <4>2. ~Mine(r)
        BY <1>4, <1>6, <2>1, <4>1 DEF RowsTyped
      <4>3. r \in rows'
        BY <1>11, <4>1, <4>2
      <4> QED BY <4>1, <4>3 DEF Carries, RowsOf
    <3>4. o.pc = "bytes" => InBox(o.branch, o.kind, o.name)' = {}
      <4> SUFFICES ASSUME o.pc = "bytes", NEW y \in box', y.branch = o.branch, y.kind = o.kind, y.handle = o.name
                   PROVE  FALSE
        BY DEF InBox
      <4>1. InBox(o.branch, o.kind, o.name) = {}
        BY <2>1, <3>1 DEF RemoveHolds
      <4>2. y \notin box
        BY <4>1 DEF InBox
      <4>3. o.kind = k /\ o.name = t
        BY <1>14, <4>2
      <4>4. RegOf(o.kind, o.name) # {}
        BY <1>1, <2>1, <3>1, <4>3 DEF RemoveHolds, Told
      <4> QED BY <1>12, <4>3, <4>4
    <3> QED BY <2>1, <3>1, <3>2, <3>3, <3>4 DEF RemoveHolds
  <2> QED BY <1>0, <1>1, <2>1, OthersRemove
<1>28. StateInv'
  BY <1>17, <1>18, <1>19, <1>20, <1>21, <1>23, <1>24, <1>25 DEF StateInv
<1> QED BY <1>5, <1>26, <1>27, <1>28, Assemble

-----------------------------------------------------------------------------
\* Clones.

LEMMA StartCloneKeeps == ASSUME ServicesInv, NEW i \in DOMAIN line, StartClone(i) PROVE ServicesInv'
<1>0. PICK me : me = line[i]
  OBVIOUS
<1> DEFINE c == me.branch
           s == me.source
           needed == CloneKeys(s, c)
<1>1. /\ me.verb = "clone" /\ me.pc = "queued" /\ Granted(i) /\ ChainFree /\ UNCHANGED <<store, box, bytes>>
      /\ UNCHANGED <<branches, reg, rows, wired, reserved>>
  BY <1>0 DEF StartClone, Starts, store
<1>2. me \in Op /\ Shape(me) /\ InLine(me) /\ LineInv /\ StoreTyped /\ CloneHolds(me)
  BY <1>0 DEF ServicesInv, LineInv, InLine, StateInv, Holds
<1>3. c \in Branch \ {Main} /\ s \in Branch \ {c} /\ Star(c) \in me.keys /\ Star(s) \in me.keys /\ c \notin branches
  BY <1>1, <1>2 DEF Shape, CloneHolds, IsNew
<1>4. CASE Leave(i)
  BY <1>0, <1>1, <1>4, GivesUpKeeps
<1>5. CASE Redrive(i, needed)
  BY <1>0, <1>1, <1>2, <1>3, <1>5, CloneKeysTyped, RedriveKeeps
<1>6. PICK carried : carried = {r \in rows : r.branch = s /\ (r.kind # "compute" => RegOf(r.kind, r.name) # {})}
  OBVIOUS
<1>7. PICK n : n = [me EXCEPT !.pc = "fork", !.todo = carried]
  OBVIOUS
<1>8. CASE s \in branches /\ needed \subseteq me.keys /\ Become(i, n)
  <2>1. carried \subseteq RowSet
    BY <1>2, <1>6 DEF StoreTyped
  <2>2. /\ n \in Op /\ n.verb = "clone" /\ n.pc = "fork" /\ n.kind = me.kind /\ n.name = me.name /\ n.to = me.to
        /\ n.branch = c /\ n.source = s /\ n.keys = me.keys /\ n.done = me.done /\ n.todo = carried
    BY <1>1, <1>2, <1>7, <2>1 DEF Op, AtWork
  <2>3. Shape(n)
    BY <1>1, <1>2, <2>2 DEF Shape, At1
  <2> DEFINE N == {n}
  <2>4. LeftOf(i, N)
    <3>1. (ChainStage(n) => ChainStage(me) \/ ChainFree) /\ (IsNew(n) => IsNew(me))
      BY <1>1, <2>2 DEF IsNew
    <3> QED BY <1>0, <1>1, <1>2, <1>8, <2>2, <2>3, <3>1, BecomeIs
  <2>5. AtRename = {}
    <3>1. line[i].verb # "rename"
      BY <1>0, <1>1
    <3> QED BY <1>0, <1>1, <1>3, <1>8, <3>1, WithStar
  <2>6. AtRename' = AtRename
    BY <1>0, <1>1, <2>2, <2>4, RenamingStays
  <2>7. /\ \A r \in rows : \A m : Named(r, m)' <=> Named(r, m)
        /\ \A x \in box : \A r \in rows : Matches(x, r) => Matches(x, r)'
    BY <2>6, SameRename
  <2>8. \A r \in rows : Emptied(r) => Emptied(r)'
    BY <1>0, <1>1, <2>4, InLineIs DEF Emptied, LeftOf
  <2>9. \A o \in N : ~Holder(o)
    BY <2>2 DEF Holder
  <2>10. ASSUME NEW r \in rows, Solid(r.kind), r.branch = s
         PROVE  r \in carried /\ Key(s, r.kind, r.name) \in n.keys /\ Key(c, r.kind, r.name) \in n.keys
    <3>1. r.kind # "compute" => RegOf(r.kind, r.name) # {}
      BY <2>5, <2>10, NoRename DEF ServicesInv, StateInv, Registered, Told, Solid, RegOf
    <3>2. r \in carried
      BY <1>6, <2>10, <3>1
    <3>3. Key(s, r.kind, r.name) \in needed /\ Key(c, r.kind, r.name) \in needed
      BY <2>10, <3>1 DEF CloneKeys, Solid
    <3> QED BY <1>8, <2>2, <3>2, <3>3
  <2>11. \A t \in carried : t \in rows /\ t.branch = s
    BY <1>6
  <2>12. CloneHolds(n)
    BY <1>3, <1>8, <2>1, <2>2, <2>10, <2>11 DEF CloneHolds
  <2>13. Holds(n)'
    <3>1. Holds(n)
      BY <2>2, <2>12 DEF Holds, AddHolds, DeployHolds, RemoveHolds, RenameHolds
    <3>2. n.verb # "rename"
      BY <2>2
    <3> QED BY <1>1, <3>1, <3>2, StillHolds
  <2> QED BY <1>1, <2>4, <2>7, <2>8, <2>9, <2>13, QuietStep
<1>9. Leave(i) \/ Redrive(i, needed) \/ (s \in branches /\ needed \subseteq me.keys /\ Become(i, n))
  BY <1>0, <1>6, <1>7 DEF StartClone
<1> QED BY <1>4, <1>5, <1>8, <1>9

\* A copy of a row on the new branch.
LEMMA CopyIs ==
    ASSUME NEW o, o.branch \in Branch, NEW t \in RowSet
    PROVE  /\ Copy(o, t) \in RowSet
           /\ Copy(o, t).branch = o.branch /\ Copy(o, t).kind = t.kind /\ Copy(o, t).name = t.name
           /\ Copy(o, t).handle = t.name /\ Copy(o, t).data = t.data
BY DEF Copy, RowSet

LEMMA ThingIs ==
    ASSUME NEW r \in RowSet
    PROVE  LET x == Thing(r.branch, r.kind, r.handle, r.data) IN
           /\ x \in BoxSet /\ x.branch = r.branch /\ x.kind = r.kind /\ x.handle = r.handle /\ x.data = r.data
BY DEF Thing, RowSet, BoxSet

LEMMA ForkFailsKeeps ==
    ASSUME ServicesInv, NEW i \in DOMAIN line, At(i, "clone", "fork"), Leave(i), UNCHANGED <<store, box, bytes>>
    PROVE  ServicesInv'
<1>1. LineInv /\ line[i].verb = "clone" /\ UNCHANGED <<branches, reg, rows, wired, reserved, box, bytes>>
  BY DEF ServicesInv, At, store
<1> DEFINE N == {}
<1>2. LeftOf(i, N)
  BY <1>1, LeaveIs
<1>3. AtRename' = AtRename
  BY <1>1, <1>2, RenamingStays
<1>4. /\ \A r \in rows : \A m : Named(r, m)' <=> Named(r, m)
      /\ \A x \in box : \A r \in rows : Matches(x, r) => Matches(x, r)'
  BY <1>3, SameRename
<1>5. \A r \in rows : Emptied(r) => Emptied(r)'
  BY <1>1, <1>2, InLineIs DEF Emptied, LeftOf
<1> QED BY <1>1, <1>2, <1>4, <1>5, QuietStep

LEMMA ForkKeeps == ASSUME ServicesInv, NEW i \in DOMAIN line, Fork(i) PROVE ServicesInv'
<1>0. PICK me : me = line[i]
  OBVIOUS
<1> DEFINE c == me.branch
           s == me.source
<1>1. me.verb = "clone" /\ me.pc = "fork" /\ Live(me) /\ At(i, "clone", "fork") /\ UNCHANGED <<reg, wired, reserved>>
  BY <1>0 DEF Fork, At, Live
<1>2. me \in Op /\ Shape(me) /\ InLine(me) /\ LineInv /\ CloneHolds(me)
  BY <1>0 DEF ServicesInv, LineInv, InLine, Holds
<1>3. /\ c \in Branch \ {Main} /\ s \in Branch \ {c} /\ Star(c) \in me.keys /\ Star(s) \in me.keys
      /\ c \notin branches /\ s \in branches /\ me.todo \subseteq RowSet
      /\ \A t \in me.todo : t.branch = s
      /\ \A t \in me.todo : Solid(t.kind) =>
            t \in rows /\ Key(s, t.kind, t.name) \in me.keys /\ Key(c, t.kind, t.name) \in me.keys
      /\ \A r \in rows : Solid(r.kind) /\ r.branch = s => r \in me.todo
  BY <1>1, <1>2 DEF Shape, CloneHolds, IsNew
<1>4. CASE Leave(i) /\ UNCHANGED <<branches, rows, box, bytes>>
  BY <1>1, <1>4, ForkFailsKeeps DEF store
<1>5. PICK copies : copies = Copies(me, Kind \ {"compute"})
  OBVIOUS
<1>6. CASE /\ branches' = branches \cup {c} /\ rows' = rows \cup copies
           /\ box' = box \cup Things(copies) /\ bytes' = bytes \cup Directories(copies)
           /\ Goto(i, "redeploy")
  <2>1. PICK n : n = [me EXCEPT !.pc = "redeploy"]
    OBVIOUS
  <2>2. /\ n \in Op /\ n.verb = "clone" /\ n.pc = "redeploy" /\ n.kind = me.kind /\ n.name = me.name /\ n.to = me.to
        /\ n.branch = c /\ n.source = s /\ n.keys = me.keys /\ n.done = me.done /\ n.todo = me.todo
    BY <1>1, <1>2, <2>1 DEF Op, AtWork
  <2>3. Shape(n)
    BY <1>1, <1>2, <2>2 DEF Shape, At1
  <2> DEFINE N == {n}
  <2>4. LeftOf(i, N)
    <3>1. (ChainStage(n) => ChainStage(me) \/ ChainFree) /\ (IsNew(n) => IsNew(me))
      BY <1>1, <2>2 DEF IsNew, ChainStage
    <3>2. Become(i, n)
      BY <1>0, <1>6, <2>1 DEF Goto
    <3> QED BY <1>0, <1>1, <1>2, <2>2, <2>3, <3>1, <3>2, BecomeIs
  <2>5. /\ AtRename = {}
        /\ \A o : Besides(i, o) /\ Live(o) =>
              /\ o.verb # "rename"
              /\ o.verb = "clone" => o.source # c
    <3>1. line[i].verb # "rename"
      BY <1>0, <1>1
    <3>2. AtRename = {} /\ \A o : Besides(i, o) /\ Live(o) => o.verb # "rename"
      BY <1>0, <1>1, <1>3, <3>1, WithStar
    <3>3. ASSUME NEW o, Besides(i, o), Live(o), o.verb = "clone" PROVE o.source # c
      <4>1. me.keys \cap o.keys = {} /\ Shape(o)
        BY <1>0, <1>1, <1>2, <3>3, OthersApart
      <4> QED BY <1>3, <3>3, <4>1 DEF Shape
    <3> QED BY <3>2, <3>3
  <2>6. \A o : Besides(i, o) => o.branch # c /\ ~ChainStage(o)
    <3>1. IsNew(me) /\ ChainStage(me)
      BY <1>1 DEF IsNew, ChainStage, Chained
    <3> QED BY <1>0, <1>2, <3>1, OthersApart
  <2>7. AtRename' = {}
    BY <1>0, <1>1, <2>2, <2>4, <2>5, RenamingStays
  <2>8. /\ \A r, m : Named(r, m) <=> r.name = m
        /\ \A r, m : Named(r, m)' <=> r.name = m
        /\ \A x, r : Matches(x, r) <=> r.branch = x.branch /\ r.kind = x.kind /\ r.data = x.data /\ x.handle = r.name
        /\ \A x, r : Matches(x, r)' <=> r.branch = x.branch /\ r.kind = x.kind /\ r.data = x.data /\ x.handle = r.name
    BY <2>5, <2>7, NoRename DEF Named, Matches, Ahead, NotAhead
  <2>9. /\ StoreTyped /\ RowsTyped /\ DataMeans /\ HostsApart /\ Registered /\ RowsHaveBytes /\ Boxed /\ WiresHold
    BY DEF ServicesInv, StateInv
  <2>10. ASSUME NEW r \in copies
         PROVE  /\ r \in RowSet /\ r.branch = c /\ r.handle = r.name /\ r.kind # "compute"
                /\ \E t \in me.todo : /\ r = Copy(me, t) /\ t.kind = r.kind /\ t.name = r.name /\ t.data = r.data
                                      /\ Solid(r.kind) => t \in rows /\ t.branch = s
    <3>1. PICK t \in me.todo : t.kind # "compute" /\ r = Copy(me, t)
      BY <1>5 DEF Copies, Copy
    <3>2. t \in RowSet
      BY <1>3
    <3> QED BY <1>3, <3>1, <3>2, CopyIs
  <2>11. ASSUME NEW t \in me.todo, t.kind # "compute" PROVE Copy(me, t) \in copies
    <3>1. t.kind \in Kind
      BY <1>3 DEF RowSet
    <3> QED BY <1>5, <2>11, <3>1 DEF Copies, Copy
  <2>12. \A r \in rows : r.branch # c
    BY <1>3, <2>9 DEF RowsTyped
  <2>13. ASSUME NEW x \in Things(copies)
         PROVE  \E r \in copies : /\ x \in BoxSet /\ x.branch = r.branch /\ x.kind = r.kind
                                  /\ x.handle = r.name /\ x.data = r.data
    <3>1. PICK r \in copies : x = Thing(r.branch, r.kind, r.handle, r.data)
      BY DEF Things
    <3> QED BY <2>10, <3>1, ThingIs
  <2>14. StoreTyped'
    BY <1>1, <1>3, <1>6, <2>9, <2>10, <2>13 DEF StoreTyped
  <2>15. RowsTyped'
    <3>1. \A r \in rows' : r.branch \in branches'
      BY <1>6, <2>9, <2>10 DEF RowsTyped
    <3>2. \A r \in rows' : (Solid(r.kind) => r.handle = r.name) /\ (Told(r.kind) => r.data # None)
      BY <1>6, <2>9, <2>10 DEF RowsTyped, Told, Solid
    <3>3. \A r, q \in rows' : Solid(r.kind) /\ r.branch = q.branch /\ r.kind = q.kind /\ r.name = q.name => r = q
      <4> SUFFICES ASSUME NEW r \in rows', NEW q \in rows', Solid(r.kind), r.branch = q.branch, r.kind = q.kind,
                          r.name = q.name
                   PROVE  r = q
        OBVIOUS
      <4>1. CASE r \in rows /\ q \in rows
        BY <2>9, <4>1 DEF RowsTyped
      <4>2. CASE ~(r \in rows /\ q \in rows)
        <5>1. r \in copies /\ q \in copies
          BY <1>6, <2>10, <2>12, <4>2
        <5>2. PICK t \in rows : r = Copy(me, t) /\ t.kind = r.kind /\ t.name = r.name /\ t.branch = s
          BY <2>10, <5>1
        <5>3. PICK u \in rows : q = Copy(me, u) /\ u.kind = q.kind /\ u.name = q.name /\ u.branch = s
          BY <2>10, <5>1
        <5>4. t = u
          BY <2>9, <5>2, <5>3 DEF RowsTyped
        <5> QED BY <5>2, <5>3, <5>4
      <4> QED BY <4>1, <4>2
    <3> QED BY <3>1, <3>2, <3>3 DEF RowsTyped
  <2>16. HostsApart'
    <3> SUFFICES ASSUME NEW r \in rows', NEW q \in rows', Solid(r.kind), Solid(q.kind), r.branch = q.branch,
                        Label[r.kind][r.name] = Label[q.kind][q.name]
                 PROVE  r = q
      BY DEF HostsApart
    <3>1. CASE r \in rows /\ q \in rows
      BY <2>9, <3>1 DEF HostsApart
    <3>2. CASE ~(r \in rows /\ q \in rows)
      <4>1. r \in copies /\ q \in copies
        BY <1>6, <2>10, <2>12, <3>2
      <4>2. PICK t \in rows : r = Copy(me, t) /\ t.kind = r.kind /\ t.name = r.name /\ t.branch = s
        BY <2>10, <4>1
      <4>3. PICK u \in rows : q = Copy(me, u) /\ u.kind = q.kind /\ u.name = q.name /\ u.branch = s
        BY <2>10, <4>1
      <4>4. t = u
        BY <2>9, <4>2, <4>3 DEF HostsApart
      <4> QED BY <4>2, <4>3, <4>4
    <3> QED BY <3>1, <3>2
  <2>17. Registered'
    <3> SUFFICES ASSUME NEW r \in rows', Told(r.kind) PROVE \E e \in reg : e.kind = r.kind /\ e.name = r.name
      BY <1>1, <2>8 DEF Registered
    <3>1. CASE r \in rows
      BY <2>8, <2>9, <3>1 DEF Registered
    <3>2. CASE r \in copies
      <4>1. PICK t \in rows : t.kind = r.kind /\ t.name = r.name
        BY <2>10, <3>2 DEF Told, Solid
      <4> QED BY <2>8, <2>9, <4>1 DEF Registered
    <3> QED BY <1>6, <3>1, <3>2
  <2>18. RowsHaveBytes'
    <3> SUFFICES ASSUME NEW r \in rows', r.data # None, r.kind # "storage" PROVE <<r.branch, r.data>> \in bytes'
      BY DEF RowsHaveBytes
    <3>1. CASE r \in rows
      BY <1>6, <2>9, <3>1 DEF RowsHaveBytes
    <3>2. CASE r \in copies
      BY <1>6, <3>2 DEF Directories
    <3> QED BY <1>6, <3>1, <3>2
  <2>19. WiresHold'
    BY <1>1, <1>6, <2>9 DEF WiresHold, Carries, RowsOf
  <2>20. Boxed'
    <3>1. ASSUME NEW x \in box', Solid(x.kind), x.data # None PROVE \E r \in rows' : Matches(x, r)'
      <4>1. CASE x \in box
        BY <1>6, <2>8, <2>9, <3>1, <4>1 DEF Boxed
      <4>2. CASE x \in Things(copies)
        BY <1>6, <2>8, <2>13, <4>2
      <4> QED BY <1>6, <4>1, <4>2
    <3>2. ASSUME NEW x \in box', x.kind = "postgres" PROVE x.data # None
      <4>1. CASE x \in box
        BY <2>9, <3>2, <4>1 DEF Boxed
      <4>2. CASE x \in Things(copies)
        BY <2>9, <2>10, <2>13, <3>2, <4>2 DEF RowsTyped, Told, Solid
      <4> QED BY <1>6, <4>1, <4>2
    <3>3. ASSUME NEW r \in rows', r.kind = "postgres"
          PROVE  InBox(r.branch, "postgres", r.name)' # {} \/ Emptied(r)'
      <4>1. CASE r \in rows
        <5>1. InBox(r.branch, "postgres", r.name) \subseteq InBox(r.branch, "postgres", r.name)'
          BY <1>6 DEF InBox
        <5>2. Emptied(r) => Emptied(r)'
          BY <1>0, <1>1, <2>4, InLineIs DEF Emptied, LeftOf
        <5> QED BY <2>9, <3>3, <4>1, <5>1, <5>2 DEF Boxed
      <4>2. CASE r \in copies
        <5>1. PICK x : x = Thing(r.branch, r.kind, r.handle, r.data)
          OBVIOUS
        <5>2. x \in box' /\ x.branch = r.branch /\ x.kind = r.kind /\ x.handle = r.name
          BY <1>6, <2>10, <4>2, <5>1, ThingIs DEF Things
        <5> QED BY <3>3, <5>2 DEF InBox
      <4> QED BY <1>6, <4>1, <4>2
    <3> QED BY <3>1, <3>2, <3>3 DEF Boxed
  <2>21. DataMeans'
    <3>1. \A m, p, z : RegClaim(m, p, z)' => RegClaim(m, p, z)
      BY <1>1 DEF RegClaim
    <3>2. \A m, p, z : Solid(m) /\ RowClaim(m, p, z)' => RowClaim(m, p, z)
      BY <1>6, <2>8, <2>10 DEF RowClaim
    <3>3. \A m, p, z : OpClaim(m, p, z)' => OpClaim(m, p, z)
      <4>1. \A o : Besides(i, o) /\ Holder(o)' => Holder(o)
        BY <1>6, <2>6 DEF Holder
      <4>2. ~Holder(n)'
        BY <2>2 DEF Holder
      <4> QED BY <2>4, <4>1, <4>2, OpClaims
    <3> QED BY <2>9, <3>1, <3>2, <3>3, ClaimsKeep DEF Claim
  <2>22. Holds(n)'
    <3>1. \A t : Copy(n, t) = Copy(me, t)
      BY <2>2 DEF Copy
    <3>2. \A r \in rows' : Solid(r.kind) /\ r.branch = s => r \in me.todo
      BY <1>3, <1>6, <2>10
    <3>3. \A t \in me.todo : Told(t.kind) => Copy(n, t) \in rows'
      BY <1>6, <2>11, <3>1 DEF Told
    <3>4. \A r \in rows' : Solid(r.kind) /\ r.branch = c => \E t \in me.todo : Told(t.kind) /\ r = Copy(n, t)
      BY <1>6, <2>10, <2>12, <3>1 DEF Told, Solid
    <3>5. CloneHolds(n)'
      <4>1. s \in branches' /\ c \in branches' /\ ~IsNew(n)
        BY <1>3, <1>6, <2>2 DEF IsNew
      <4>2. \A t \in me.todo : Solid(t.kind) =>
               t \in rows' /\ Key(s, t.kind, t.name) \in n.keys /\ Key(c, t.kind, t.name) \in n.keys
        BY <1>3, <1>6, <2>2
      <4> QED BY <1>3, <2>2, <3>2, <3>3, <3>4, <4>1, <4>2 DEF CloneHolds
    <3> QED BY <2>2, <3>5 DEF Holds, AddHolds, DeployHolds, RemoveHolds, RenameHolds
  <2>23. ASSUME NEW o \in Op, Besides(i, o) PROVE Holds(o)'
    <3>1. Holds(o) /\ Shape(o) /\ o.branch # c /\ ~ChainStage(o)
      BY <1>2, <2>6, <2>23, OthersApart, InLineIs DEF ServicesInv
    <3>2. \A r : r.branch # c => (r \in rows' <=> r \in rows)
      BY <1>6, <2>10
    <3>3. ~(o.verb = "add" /\ Live(o))
      BY <3>1 DEF ChainStage, Chained, Shape, At1, Live
    <3>4. DeployHolds(o)'
      BY <1>6, <3>1, <3>2 DEF Holds, DeployHolds
    <3>5. RemoveHolds(o)'
      <4>1. Carries(o.branch, o.kind, o.name) => Carries(o.branch, o.kind, o.name)'
        BY <1>6 DEF Carries, RowsOf
      <4>2. InBox(o.branch, o.kind, o.name)' \subseteq InBox(o.branch, o.kind, o.name)
        BY <1>6, <2>10, <2>13, <3>1 DEF InBox
      <4>3. RegOf(o.kind, o.name)' = RegOf(o.kind, o.name)
        BY <1>1 DEF RegOf
      <4> QED BY <3>1, <4>1, <4>2, <4>3 DEF Holds, RemoveHolds
    <3>6. CloneHolds(o)'
      <4> SUFFICES ASSUME o.verb = "clone" PROVE CloneHolds(o)'
        BY DEF CloneHolds
      <4>1. CloneHolds(o) /\ (Live(o) => o.source # c)
        BY <2>5, <2>23, <3>1 DEF Holds
      <4>2. IsNew(o) => o.branch \notin branches'
        BY <1>6, <3>1, <4>1 DEF CloneHolds
      <4>3. ASSUME Live(o) PROVE CloneHolds(o)'
        <5>1. \A t \in o.todo : t \in RowSet /\ t.branch = o.source /\ (t \in rows' <=> t \in rows)
          BY <3>2, <4>1, <4>3 DEF CloneHolds
        <5>2. \A t \in o.todo : Copy(o, t).branch = o.branch /\ (Copy(o, t) \in rows' <=> Copy(o, t) \in rows)
          <6> TAKE t \in o.todo
          <6>1. Copy(o, t).branch = o.branch
            BY <5>1 DEF Copy, RowSet
          <6> QED BY <3>1, <3>2, <6>1
        <5>3. \A r : r.branch \in {o.source, o.branch} => (r \in rows' <=> r \in rows)
          BY <3>1, <3>2, <4>1, <4>3
        <5> QED BY <1>6, <4>1, <4>2, <4>3, <5>1, <5>2, <5>3 DEF CloneHolds
      <4>4. ~Live(o) => CloneHolds(o)'
        BY <4>2 DEF CloneHolds
      <4> QED BY <4>3, <4>4
    <3>7. o.verb # "rename" \/ ~Live(o)
      BY <2>5, <2>23
    <3> QED BY <3>3, <3>4, <3>5, <3>6, <3>7 DEF Holds, AddHolds, RenameHolds
  <2>24. StateInv'
    BY <2>14, <2>15, <2>16, <2>17, <2>18, <2>19, <2>20, <2>21 DEF StateInv
  <2> QED BY <2>4, <2>22, <2>23, <2>24, Assemble
<1> QED BY <1>0, <1>4, <1>5, <1>6 DEF Fork

-----------------------------------------------------------------------------
\* The end of a clone.

\* What a clone at its last step knows.
LEMMA AtRedeploy ==
    ASSUME ServicesInv, NEW i \in DOMAIN line, NEW o, o = line[i], At(i, "clone", "redeploy")
    PROVE  /\ o \in Op /\ Shape(o) /\ InLine(o) /\ Live(o) /\ o.verb = "clone" /\ o.pc = "redeploy"
           /\ o.branch \in Branch \ {Main} /\ o.source \in Branch \ {o.branch}
           /\ o.branch \in branches /\ o.source \in branches /\ o.todo \subseteq RowSet
           /\ \A t \in o.todo : t.branch = o.source
           /\ \A t \in o.todo : Solid(t.kind) => t \in rows /\ Key(o.branch, t.kind, t.name) \in o.keys
           /\ \A r \in rows : Solid(r.kind) /\ r.branch = o.source => r \in o.todo
           /\ \A t \in o.todo : Told(t.kind) => Copy(o, t) \in rows
           /\ \A r \in rows : Solid(r.kind) /\ r.branch = o.branch => \E t \in o.todo : Told(t.kind) /\ r = Copy(o, t)
           /\ AtRename = {}
           /\ \A n : Besides(i, n) /\ Live(n) =>
                 /\ n.verb # "rename" /\ o.keys \cap n.keys = {}
                 /\ n.verb \in {"add", "deploy"} => n.branch # o.branch
                 /\ n.verb = "clone" => n.branch # o.branch /\ n.source # o.branch
           /\ \A n : Besides(i, n) /\ IsNew(n) => n.branch # o.branch
<1>1. o \in Op /\ Shape(o) /\ InLine(o) /\ Live(o) /\ o.verb = "clone" /\ o.pc = "redeploy" /\ CloneHolds(o)
  BY DEF ServicesInv, LineInv, InLine, Holds, At, Live
<1>2. o.branch \in Branch \ {Main} /\ o.source \in Branch \ {o.branch} /\ Star(o.branch) \in o.keys
  BY <1>1 DEF Shape
<1>3. /\ o.branch \in branches /\ o.source \in branches /\ o.todo \subseteq RowSet
      /\ \A t \in o.todo : t.branch = o.source
      /\ \A t \in o.todo : Solid(t.kind) => t \in rows /\ Key(o.branch, t.kind, t.name) \in o.keys
      /\ \A r \in rows : Solid(r.kind) /\ r.branch = o.source => r \in o.todo
      /\ \A t \in o.todo : Told(t.kind) => Copy(o, t) \in rows
      /\ \A r \in rows : Solid(r.kind) /\ r.branch = o.branch => \E t \in o.todo : Told(t.kind) /\ r = Copy(o, t)
  BY <1>1 DEF CloneHolds
<1>4. /\ AtRename = {}
      /\ \A n : Besides(i, n) /\ Live(n) =>
            /\ n.verb # "rename"
            /\ n.verb \in {"add", "deploy"} => n.branch # o.branch
            /\ n.verb = "clone" => n.branch # o.branch /\ n.source # o.branch
  <2>1. line[i].verb # "rename" /\ Live(line[i]) /\ Star(o.branch) \in line[i].keys
    BY <1>1, <1>2
  <2> QED BY <1>3, <2>1, WithStar
<1>5. ASSUME NEW n, Besides(i, n)
      PROVE  (Live(n) => o.keys \cap n.keys = {}) /\ (IsNew(n) => n.branch # o.branch)
  BY <1>1, <1>5, OthersApart DEF ServicesInv
<1> QED BY <1>1, <1>2, <1>3, <1>4, <1>5

LEMMA RedeployFailsKeeps ==
    ASSUME ServicesInv, NEW i \in DOMAIN line, At(i, "clone", "redeploy"), Leave(i), UNCHANGED <<reg, reserved>>,
           NEW c, c = line[i].branch, branches' = branches \ {c}, rows' = {r \in rows : r.branch # c},
           wired' = {w \in wired : w.branch # c}, box' = {x \in box : x.branch # c},
           bytes' = {y \in bytes : y[1] # c}
    PROVE  ServicesInv'
<1>0. PICK me : me = line[i]
  OBVIOUS
<1>1. /\ me.verb = "clone" /\ c = me.branch /\ c # Main /\ c \in branches /\ AtRename = {}
      /\ \A t \in me.todo : Solid(t.kind) => Key(c, t.kind, t.name) \in me.keys
      /\ me.todo \subseteq RowSet /\ c \in Branch
      /\ \A r \in rows : Solid(r.kind) /\ r.branch = c => \E t \in me.todo : Told(t.kind) /\ r = Copy(me, t)
      /\ \A o : Besides(i, o) /\ Live(o) =>
            /\ o.verb # "rename" /\ me.keys \cap o.keys = {}
            /\ o.verb \in {"add", "deploy"} => o.branch # c
            /\ o.verb = "clone" => o.branch # c /\ o.source # c
  BY <1>0, AtRedeploy
<1> DEFINE N == {}
<1>2. LineInv /\ LeftOf(i, N)
  BY LeaveIs DEF ServicesInv
<1>3. AtRename' = {}
  BY <1>0, <1>1, <1>2, RenamingStays
<1>4. /\ \A r, m : Named(r, m) <=> r.name = m
      /\ \A r, m : Named(r, m)' <=> r.name = m
      /\ \A x, r : Matches(x, r) <=> r.branch = x.branch /\ r.kind = x.kind /\ r.data = x.data /\ x.handle = r.name
      /\ \A x, r : Matches(x, r)' <=> r.branch = x.branch /\ r.kind = x.kind /\ r.data = x.data /\ x.handle = r.name
  BY <1>1, <1>3, NoRename DEF Named, Matches, Ahead, NotAhead
<1>5. /\ StoreTyped /\ RowsTyped /\ DataMeans /\ HostsApart /\ Registered /\ RowsHaveBytes /\ Boxed /\ WiresHold
  BY DEF ServicesInv, StateInv
<1>6. StoreTyped' /\ RowsTyped' /\ HostsApart'
  BY <1>1, <1>5 DEF StoreTyped, RowsTyped, HostsApart
<1>7. Registered'
  BY <1>4, <1>5 DEF Registered
<1>8. RowsHaveBytes'
  BY <1>5 DEF RowsHaveBytes
<1>9. WiresHold'
  BY <1>5 DEF WiresHold, Carries, RowsOf
<1>10. Boxed'
  <2>1. ASSUME NEW r \in rows', r.kind = "postgres"
        PROVE  InBox(r.branch, "postgres", r.name)' # {} \/ Emptied(r)'
    <3>1. InBox(r.branch, "postgres", r.name)' = InBox(r.branch, "postgres", r.name)
      BY <2>1 DEF InBox
    <3>2. Emptied(r) => Emptied(r)'
      BY <1>0, <1>1, <1>2, InLineIs DEF Emptied, LeftOf
    <3> QED BY <1>5, <2>1, <3>1, <3>2 DEF Boxed
  <2>2. ASSUME NEW x \in box', Solid(x.kind), x.data # None PROVE \E r \in rows' : Matches(x, r)'
    <3>1. PICK r \in rows : Matches(x, r)
      BY <1>5, <2>2 DEF Boxed
    <3>2. r \in rows'
      BY <1>4, <2>2, <3>1
    <3> QED BY <1>4, <3>1, <3>2
  <2> QED BY <1>5, <2>1, <2>2 DEF Boxed
<1>11. DataMeans'
  <2>1. \A m, p, z : RegClaim(m, p, z)' => RegClaim(m, p, z)
    BY DEF RegClaim
  <2>2. \A m, p, z : RowClaim(m, p, z)' => RowClaim(m, p, z)
    BY <1>4 DEF RowClaim
  <2>3. \A m, p, z : OpClaim(m, p, z)' => OpClaim(m, p, z)
    <3>1. \A o : Besides(i, o) /\ Holder(o)' => Holder(o)
      BY DEF Holder
    <3> QED BY <1>2, <3>1, OpClaims
  <2> QED BY <1>5, <2>1, <2>2, <2>3, ClaimsKeep DEF Claim
<1>12. ASSUME NEW o \in Op, Besides(i, o) PROVE Holds(o)'
  <2>1. Holds(o) /\ Shape(o)
    BY <1>2, <1>12, OthersApart, InLineIs DEF ServicesInv
  <2>2. \A r : r.branch # c => (r \in rows' <=> r \in rows)
    OBVIOUS
  <2>3. AddHolds(o)'
    <3> SUFFICES ASSUME o.verb = "add", Live(o) PROVE AddHolds(o)'
      BY DEF AddHolds
    <3>1. AddHolds(o) /\ o.branch # c
      BY <1>1, <1>12, <2>1 DEF Holds
    <3>2. Carries(o.branch, o.kind, o.name)' => Carries(o.branch, o.kind, o.name)
      BY DEF Carries, RowsOf
    <3> QED BY <3>1, <3>2 DEF AddHolds, RegClaim, RegOf
  <2>4. DeployHolds(o)'
    <3> SUFFICES ASSUME o.verb = "deploy", Live(o) PROVE DeployHolds(o)'
      BY DEF DeployHolds
    <3>1. DeployHolds(o) /\ o.branch # c
      BY <1>1, <1>12, <2>1 DEF Holds
    <3> QED BY <3>1 DEF DeployHolds
  <2>5. RemoveHolds(o)'
    <3> SUFFICES ASSUME o.verb = "remove", Live(o) PROVE RemoveHolds(o)'
      BY DEF RemoveHolds
    <3>1. RemoveHolds(o) /\ Key(o.branch, o.kind, o.name) \in o.keys
      BY <2>1 DEF Holds, Shape
    <3>2. ASSUME Solid(o.kind), Carries(o.branch, o.kind, o.name) PROVE o.branch # c
      <4> SUFFICES ASSUME o.branch = c PROVE FALSE
        OBVIOUS
      <4>1. PICK r \in rows : r.branch = c /\ r.kind = o.kind /\ r.name = o.name
        BY <3>2 DEF Carries, RowsOf
      <4>2. PICK t \in me.todo : Told(t.kind) /\ r = Copy(me, t)
        BY <1>1, <3>2, <4>1
      <4>3. t.kind = o.kind /\ t.name = o.name
        BY <1>1, <4>1, <4>2, CopyIs
      <4>4. Key(c, o.kind, o.name) \in me.keys
        BY <1>1, <3>2, <4>2, <4>3
      <4> QED BY <1>1, <1>12, <3>1, <4>4
    <3>3. ASSUME Solid(o.kind), Carries(o.branch, o.kind, o.name) PROVE Carries(o.branch, o.kind, o.name)'
      BY <3>2, <3>3 DEF Carries, RowsOf
    <3>4. InBox(o.branch, o.kind, o.name)' \subseteq InBox(o.branch, o.kind, o.name)
      BY DEF InBox
    <3>5. RegOf(o.kind, o.name)' = RegOf(o.kind, o.name)
      BY DEF RegOf
    <3>6. o.pc = "bytes" => Solid(o.kind)
      BY <2>1 DEF Shape, Solid
    <3> QED BY <3>1, <3>3, <3>4, <3>5, <3>6 DEF RemoveHolds, Told, Solid
  <2>6. CloneHolds(o)'
    <3> SUFFICES ASSUME o.verb = "clone" PROVE CloneHolds(o)'
      BY DEF CloneHolds
    <3>1. CloneHolds(o)
      BY <2>1 DEF Holds
    <3>2. IsNew(o) => o.branch \notin branches'
      BY <3>1 DEF CloneHolds
    <3>3. ASSUME Live(o) PROVE CloneHolds(o)'
      <4>1. o.branch # c /\ o.source # c
        BY <1>1, <1>12, <3>3
      <4>2. \A t \in o.todo : t \in RowSet /\ t.branch = o.source /\ (t \in rows' <=> t \in rows)
        BY <2>2, <3>1, <3>3, <4>1 DEF CloneHolds
      <4>3. \A t \in o.todo : Copy(o, t) \in rows' <=> Copy(o, t) \in rows
        <5> TAKE t \in o.todo
        <5>1. Copy(o, t).branch = o.branch
          BY <4>2 DEF Copy, RowSet
        <5> QED BY <2>2, <4>1, <5>1
      <4> QED BY <3>1, <3>2, <3>3, <4>1, <4>2, <4>3 DEF CloneHolds
    <3>4. ~Live(o) => CloneHolds(o)'
      BY <3>2 DEF CloneHolds
    <3> QED BY <3>3, <3>4
  <2>7. o.verb # "rename" \/ ~Live(o)
    BY <1>1, <1>12
  <2> QED BY <2>3, <2>4, <2>5, <2>6, <2>7 DEF Holds, RenameHolds
<1>13. StateInv'
  BY <1>6, <1>7, <1>8, <1>9, <1>10, <1>11 DEF StateInv
<1> QED BY <1>2, <1>12, <1>13, Assemble

LEMMA RedeployDoneKeeps ==
    ASSUME ServicesInv, NEW i \in DOMAIN line, At(i, "clone", "redeploy"), Leave(i),
           UNCHANGED <<branches, reg, reserved>>, NEW me, me = line[i], NEW copies,
           copies = {[r EXCEPT !.data = DataOf("compute", r.name)] : r \in Copies(me, {"compute"})},
           rows' = rows \cup copies, box' = box \cup Things(copies), bytes' = bytes \cup Directories(copies),
           wired' = wired \cup {[w EXCEPT !.branch = me.branch] :
                                   w \in {w \in wired : w.branch = me.source /\ w.kind # "compute"}}
    PROVE  ServicesInv'
<1> DEFINE c == me.branch
           s == me.source
           N == {}
<1>1. /\ me.verb = "clone" /\ c \in branches /\ c \in Branch /\ s \in Branch \ {c} /\ me.todo \subseteq RowSet
      /\ \A t \in me.todo : t.branch = s
      /\ \A t \in me.todo : Solid(t.kind) => t \in rows /\ Key(c, t.kind, t.name) \in me.keys
      /\ \A r \in rows : Solid(r.kind) /\ r.branch = s => r \in me.todo
      /\ \A t \in me.todo : Told(t.kind) => Copy(me, t) \in rows
      /\ \A r \in rows : Solid(r.kind) /\ r.branch = c => \E t \in me.todo : Told(t.kind) /\ r = Copy(me, t)
      /\ AtRename = {}
  BY AtRedeploy
<1>2. /\ \A o : Besides(i, o) /\ Live(o) =>
            /\ o.verb # "rename" /\ me.keys \cap o.keys = {}
            /\ o.verb \in {"add", "deploy"} => o.branch # c
            /\ o.verb = "clone" => o.branch # c /\ o.source # c
  BY AtRedeploy
<1>3. LineInv /\ LeftOf(i, N)
  BY LeaveIs DEF ServicesInv
<1>4. AtRename' = {}
  BY <1>1, <1>3, RenamingStays
<1>5. /\ \A r, m : Named(r, m) <=> r.name = m
      /\ \A r, m : Named(r, m)' <=> r.name = m
      /\ \A x, r : Matches(x, r) <=> r.branch = x.branch /\ r.kind = x.kind /\ r.data = x.data /\ x.handle = r.name
      /\ \A x, r : Matches(x, r)' <=> r.branch = x.branch /\ r.kind = x.kind /\ r.data = x.data /\ x.handle = r.name
  BY <1>1, <1>4, NoRename DEF Named, Matches, Ahead, NotAhead
<1>6. /\ StoreTyped /\ RowsTyped /\ DataMeans /\ HostsApart /\ Registered /\ RowsHaveBytes /\ Boxed /\ WiresHold
  BY DEF ServicesInv, StateInv
<1>7. ASSUME NEW r \in copies
      PROVE  /\ r \in RowSet /\ r.branch = c /\ r.kind = "compute" /\ r.handle = r.name
             /\ r.data = DataOf("compute", r.name)
             /\ \E t \in rows : /\ t \in me.todo /\ t.kind = "compute" /\ t.name = r.name /\ t.branch = s
                                /\ r = [Copy(me, t) EXCEPT !.data = DataOf("compute", t.name)]
  <2>1. PICK t \in me.todo : t.kind = "compute" /\ r = [Copy(me, t) EXCEPT !.data = DataOf("compute", Copy(me, t).name)]
    BY DEF Copies, Copy
  <2>2. PICK u : u = Copy(me, t)
    OBVIOUS
  <2>3. u \in RowSet /\ u.branch = c /\ u.kind = "compute" /\ u.name = t.name /\ u.handle = t.name
    BY <1>1, <2>1, <2>2, CopyIs
  <2>4. PICK d : d = DataOf("compute", t.name)
    OBVIOUS
  <2>5. d \in Data \cup {None}
    BY <1>6, <2>4, DataOfTyped
  <2>6. r = [u EXCEPT !.data = d]
    BY <2>1, <2>2, <2>3, <2>4
  <2>7. r \in RowSet /\ r.branch = c /\ r.kind = "compute" /\ r.handle = r.name /\ r.name = t.name /\ r.data = d
    BY <2>3, <2>5, <2>6 DEF RowSet
  <2>8. t \in rows /\ t.branch = s
    BY <1>1, <2>1 DEF Solid
  <2> QED BY <2>1, <2>2, <2>4, <2>6, <2>7, <2>8
<1>8. ASSUME NEW r \in rows, Solid(r.kind), r.branch = c
      PROVE  /\ r.kind # "compute"
             /\ \E u \in rows : u.branch = s /\ Told(u.kind) /\ u.kind = r.kind /\ u.name = r.name
  <2>1. PICK u \in me.todo : Told(u.kind) /\ r = Copy(me, u)
    BY <1>1, <1>8
  <2>2. r.kind = u.kind /\ r.name = u.name
    BY <1>1, <2>1, CopyIs
  <2> QED BY <1>1, <2>1, <2>2 DEF Told, Solid
<1>9. ASSUME NEW x \in Things(copies)
      PROVE  \E r \in copies : x \in BoxSet /\ x.branch = c /\ x.kind = "compute" /\ x.handle = r.name /\ x.data = r.data
  <2>1. PICK r \in copies : x = Thing(r.branch, r.kind, r.handle, r.data)
    BY DEF Things
  <2> QED BY <1>7, <2>1, ThingIs
<1>10. ASSUME NEW v \in wired'
       PROVE  v \in wired \/ \E w \in wired : /\ w.branch = s /\ w.kind = "postgres" /\ w.name = v.name
                                              /\ v = [branch |-> c, kind |-> "postgres", name |-> w.name]
  <2> SUFFICES ASSUME v \notin wired
               PROVE  \E w \in wired : /\ w.branch = s /\ w.kind = "postgres" /\ w.name = v.name
                                       /\ v = [branch |-> c, kind |-> "postgres", name |-> w.name]
    OBVIOUS
  <2>1. PICK w \in wired : w.branch = s /\ v = [w EXCEPT !.branch = c]
    OBVIOUS
  <2>2. w \in [branch : Branch, kind : {"postgres"}, name : Name]
    BY <1>6, <2>1 DEF StoreTyped
  <2>3. w.kind = "postgres" /\ v = [branch |-> c, kind |-> "postgres", name |-> w.name]
    BY <2>1, <2>2
  <2> QED BY <2>1, <2>3
<1>11. StoreTyped'
  <2>1. rows' \subseteq RowSet
    BY <1>6, <1>7 DEF StoreTyped
  <2>2. box' \subseteq BoxSet
    BY <1>6, <1>9 DEF StoreTyped
  <2>3. wired' \subseteq [branch : Branch, kind : {"postgres"}, name : Name]
    BY <1>1, <1>6, <1>10 DEF StoreTyped
  <2> QED BY <1>6, <2>1, <2>2, <2>3 DEF StoreTyped
<1>12. RowsTyped'
  <2>1. \A r \in rows' : r.branch \in branches
    BY <1>1, <1>6, <1>7 DEF RowsTyped
  <2>2. \A r \in rows' : (Solid(r.kind) => r.handle = r.name) /\ (Told(r.kind) => r.data # None)
    BY <1>6, <1>7 DEF RowsTyped, Told
  <2>3. ASSUME NEW r \in rows', NEW q \in rows', Solid(r.kind), r.branch = q.branch, r.kind = q.kind, r.name = q.name
        PROVE  r = q
    <3>1. CASE r \in rows /\ q \in rows
      BY <1>6, <2>3, <3>1 DEF RowsTyped
    <3>2. CASE ~(r \in rows /\ q \in rows)
      <4>1. r \in copies /\ q \in copies
        BY <1>7, <1>8, <2>3, <3>2
      <4>2. PICK t \in rows : /\ t.kind = "compute" /\ t.name = r.name /\ t.branch = s
                              /\ r = [Copy(me, t) EXCEPT !.data = DataOf("compute", t.name)]
        BY <1>7, <4>1
      <4>3. PICK u \in rows : /\ u.kind = "compute" /\ u.name = q.name /\ u.branch = s
                              /\ q = [Copy(me, u) EXCEPT !.data = DataOf("compute", u.name)]
        BY <1>7, <4>1
      <4>4. t = u
        BY <1>6, <2>3, <4>2, <4>3 DEF RowsTyped, Solid
      <4> QED BY <4>2, <4>3, <4>4
    <3> QED BY <3>1, <3>2
  <2> QED BY <2>1, <2>2, <2>3 DEF RowsTyped
<1>13. HostsApart'
  <2> SUFFICES ASSUME NEW r \in rows', NEW q \in rows', Solid(r.kind), Solid(q.kind), r.branch = q.branch,
                      Label[r.kind][r.name] = Label[q.kind][q.name]
               PROVE  r = q
    BY DEF HostsApart
  <2>1. CASE r \in rows /\ q \in rows
    BY <1>6, <2>1 DEF HostsApart
  <2>2. ASSUME NEW m \in copies, NEW p \in rows, p.branch = c, Solid(p.kind),
               Label[m.kind][m.name] = Label[p.kind][p.name]
        PROVE  FALSE
    <3>1. PICK t \in rows : t.kind = "compute" /\ t.name = m.name /\ t.branch = s
      BY <1>7
    <3>2. PICK u \in rows : u.branch = s /\ Told(u.kind) /\ u.kind = p.kind /\ u.name = p.name
      BY <1>8, <2>2
    <3>3. m.kind = "compute"
      BY <1>7
    <3>4. t = u
      BY <1>6, <2>2, <3>1, <3>2, <3>3 DEF HostsApart, Told, Solid
    <3> QED BY <3>1, <3>2, <3>4 DEF Told
  <2>3. CASE r \in copies /\ q \in copies
    <3>1. PICK t \in rows : /\ t.kind = "compute" /\ t.name = r.name /\ t.branch = s
                            /\ r = [Copy(me, t) EXCEPT !.data = DataOf("compute", t.name)]
      BY <1>7, <2>3
    <3>2. PICK u \in rows : /\ u.kind = "compute" /\ u.name = q.name /\ u.branch = s
                            /\ q = [Copy(me, u) EXCEPT !.data = DataOf("compute", u.name)]
      BY <1>7, <2>3
    <3>3. r.kind = "compute" /\ q.kind = "compute"
      BY <1>7, <2>3
    <3>4. t = u
      BY <1>6, <3>1, <3>2, <3>3 DEF HostsApart, Solid
    <3> QED BY <3>1, <3>2, <3>4
  <2>4. CASE r \in copies /\ q \in rows
    BY <1>7, <2>2, <2>4
  <2>5. CASE q \in copies /\ r \in rows
    BY <1>7, <2>2, <2>5
  <2> QED BY <2>1, <2>3, <2>4, <2>5
<1>14. Registered'
  BY <1>5, <1>6, <1>7 DEF Registered, Told
<1>15. RowsHaveBytes'
  <2> SUFFICES ASSUME NEW r \in rows', r.data # None, r.kind # "storage" PROVE <<r.branch, r.data>> \in bytes'
    BY DEF RowsHaveBytes
  <2>1. CASE r \in rows
    BY <1>6, <2>1 DEF RowsHaveBytes
  <2>2. CASE r \in copies
    BY <2>2 DEF Directories
  <2> QED BY <2>1, <2>2
<1>16. WiresHold'
  <2> SUFFICES ASSUME NEW v \in wired' PROVE \E r \in rows' : r.branch = v.branch /\ r.kind = v.kind /\ r.name = v.name
    BY DEF WiresHold, Carries, RowsOf
  <2>1. CASE v \in wired
    BY <1>6, <2>1 DEF WiresHold, Carries, RowsOf
  <2>2. ASSUME NEW w \in wired, w.branch = s, w.kind = "postgres",
               v = [branch |-> c, kind |-> "postgres", name |-> w.name]
        PROVE  \E r \in rows' : r.branch = v.branch /\ r.kind = v.kind /\ r.name = v.name
    <3>1. PICK t \in rows : t.branch = s /\ t.kind = "postgres" /\ t.name = w.name
      BY <1>6, <2>2 DEF WiresHold, Carries, RowsOf
    <3>2. t \in me.todo /\ Told(t.kind)
      BY <1>1, <3>1 DEF Told, Solid
    <3>3. Copy(me, t) \in rows /\ Copy(me, t).branch = c /\ Copy(me, t).kind = "postgres" /\ Copy(me, t).name = w.name
      BY <1>1, <3>1, <3>2, CopyIs
    <3> QED BY <2>2, <3>3
  <2> QED BY <1>10, <2>1, <2>2
<1>17. Boxed'
  <2>1. ASSUME NEW x \in box', Solid(x.kind), x.data # None PROVE \E r \in rows' : Matches(x, r)'
    <3>1. CASE x \in box
      BY <1>5, <1>6, <2>1, <3>1 DEF Boxed
    <3>2. CASE x \in Things(copies)
      <4>1. PICK r \in copies : x.branch = c /\ x.kind = "compute" /\ x.handle = r.name /\ x.data = r.data
        BY <1>9, <3>2
      <4>2. r \in rows' /\ r.branch = c /\ r.kind = "compute"
        BY <1>7
      <4>3. Matches(x, r)'
        BY <1>5, <4>1, <4>2
      <4> QED BY <4>2, <4>3
    <3> QED BY <3>1, <3>2
  <2>2. ASSUME NEW x \in box', x.kind = "postgres" PROVE x.data # None
    BY <1>6, <1>9, <2>2 DEF Boxed
  <2>3. ASSUME NEW r \in rows', r.kind = "postgres"
        PROVE  InBox(r.branch, "postgres", r.name)' # {} \/ Emptied(r)'
    <3>1. r \in rows
      BY <1>7, <2>3
    <3>2. InBox(r.branch, "postgres", r.name) \subseteq InBox(r.branch, "postgres", r.name)'
      BY DEF InBox
    <3>3. Emptied(r) => Emptied(r)'
      BY <1>1, <1>3, InLineIs DEF Emptied, LeftOf
    <3> QED BY <1>6, <2>3, <3>1, <3>2, <3>3 DEF Boxed
  <2> QED BY <2>1, <2>2, <2>3 DEF Boxed
<1>18. DataMeans'
  <2>1. \A m, p, z : RegClaim(m, p, z)' <=> RegClaim(m, p, z)
    BY DEF RegClaim
  <2>2. ASSUME NEW z \in Data, NEW m, NEW p, RowClaim(m, p, z)' PROVE RowClaim(m, p, z) \/ RegClaim(m, p, z)
    <3>1. PICK r \in rows' : r.kind = m /\ r.name = p /\ r.data = z
      BY <1>5, <2>2 DEF RowClaim
    <3>2. CASE r \in rows
      BY <1>5, <3>1, <3>2 DEF RowClaim
    <3>3. CASE r \in copies
      <4>1. m = "compute" /\ z = DataOf("compute", p)
        BY <1>7, <3>1, <3>3
      <4>2. RegOf("compute", p) # {}
        BY <4>1, DataOfNone, ServicesAssumption
      <4> QED BY <1>6, <4>1, <4>2, DataOfIs
    <3> QED BY <3>1, <3>2, <3>3
  <2>3. \A m, p, z : OpClaim(m, p, z)' => OpClaim(m, p, z)
    <3>1. \A o : Besides(i, o) /\ Holder(o)' => Holder(o)
      BY DEF Holder
    <3> QED BY <1>3, <3>1, OpClaims
  <2>4. \A z \in Data : \A m, p : Solid(m) /\ Claim(m, p, z)' => Claim(m, p, z)
    BY <2>1, <2>2, <2>3 DEF Claim
  <2> QED BY <1>6, <2>4, ClaimsKeep
<1>19. ASSUME NEW o \in Op, Besides(i, o) PROVE Holds(o)'
  <2>1. Holds(o) /\ Shape(o)
    BY <1>3, <1>19, OthersApart, InLineIs DEF ServicesInv
  <2>2. \A r : r.branch # c => (r \in rows' <=> r \in rows)
    BY <1>7
  <2>3. AddHolds(o)'
    <3> SUFFICES ASSUME o.verb = "add", Live(o) PROVE AddHolds(o)'
      BY DEF AddHolds
    <3>1. AddHolds(o) /\ o.branch # c /\ o.kind # "compute"
      BY <1>2, <1>19, <2>1 DEF Holds, Shape
    <3>2. Carries(o.branch, o.kind, o.name)' => Carries(o.branch, o.kind, o.name)
      BY <2>2, <3>1 DEF Carries, RowsOf
    <3>3. \A r \in rows' : r.branch = o.branch => r \in rows
      BY <2>2, <3>1
    <3>4. \A r \in rows' : r.kind = o.kind => r \in rows
      BY <1>7, <3>1
    <3> QED BY <3>1, <3>2, <3>3, <3>4 DEF AddHolds, RegClaim, RegOf
  <2>4. DeployHolds(o)'
    <3> SUFFICES ASSUME o.verb = "deploy", Live(o) PROVE DeployHolds(o)'
      BY DEF DeployHolds
    <3>1. DeployHolds(o) /\ o.branch # c
      BY <1>2, <1>19, <2>1 DEF Holds
    <3> QED BY <2>2, <3>1 DEF DeployHolds
  <2>5. RemoveHolds(o)'
    <3> SUFFICES ASSUME o.verb = "remove", Live(o) PROVE RemoveHolds(o)'
      BY DEF RemoveHolds
    <3>1. RemoveHolds(o) /\ Key(o.branch, o.kind, o.name) \in o.keys /\ me.keys \cap o.keys = {}
      BY <1>2, <1>19, <2>1 DEF Holds, Shape
    <3>2. Carries(o.branch, o.kind, o.name) => Carries(o.branch, o.kind, o.name)'
      BY DEF Carries, RowsOf
    <3>3. InBox(o.branch, o.kind, o.name)' \subseteq InBox(o.branch, o.kind, o.name)
      <4> SUFFICES ASSUME NEW x \in Things(copies), x.branch = o.branch, x.kind = o.kind, x.handle = o.name PROVE FALSE
        BY DEF InBox
      <4>1. PICK r \in copies : x.branch = c /\ x.kind = "compute" /\ x.handle = r.name
        BY <1>9
      <4>2. PICK t \in me.todo : t.kind = "compute" /\ t.name = r.name
        BY <1>7, <4>1
      <4>3. Key(c, "compute", r.name) \in me.keys
        BY <1>1, <4>2 DEF Solid
      <4>4. Key(c, "compute", r.name) \in o.keys
        BY <3>1, <4>1
      <4> QED BY <3>1, <4>3, <4>4
    <3>4. RegOf(o.kind, o.name)' = RegOf(o.kind, o.name)
      BY DEF RegOf
    <3> QED BY <3>1, <3>2, <3>3, <3>4 DEF RemoveHolds
  <2>6. CloneHolds(o)'
    <3> SUFFICES ASSUME o.verb = "clone" PROVE CloneHolds(o)'
      BY DEF CloneHolds
    <3>1. CloneHolds(o)
      BY <2>1 DEF Holds
    <3>2. IsNew(o) => o.branch \notin branches'
      BY <3>1 DEF CloneHolds
    <3>3. ASSUME Live(o) PROVE CloneHolds(o)'
      <4>1. o.branch # c /\ o.source # c
        BY <1>2, <1>19, <3>3
      <4>2. \A t \in o.todo : t \in RowSet /\ t.branch = o.source /\ (t \in rows' <=> t \in rows)
        BY <2>2, <3>1, <3>3, <4>1 DEF CloneHolds
      <4>3. \A t \in o.todo : Copy(o, t) \in rows' <=> Copy(o, t) \in rows
        <5> TAKE t \in o.todo
        <5>1. Copy(o, t).branch = o.branch
          BY <4>2 DEF Copy, RowSet
        <5> QED BY <2>2, <4>1, <5>1
      <4>4. \A r : r.branch \in {o.source, o.branch} => (r \in rows' <=> r \in rows)
        BY <2>2, <4>1
      <4> QED BY <3>1, <3>2, <3>3, <4>1, <4>2, <4>3, <4>4 DEF CloneHolds
    <3>4. ~Live(o) => CloneHolds(o)'
      BY <3>2 DEF CloneHolds
    <3> QED BY <3>3, <3>4
  <2>7. o.verb # "rename" \/ ~Live(o)
    BY <1>2, <1>19
  <2> QED BY <2>3, <2>4, <2>5, <2>6, <2>7 DEF Holds, RenameHolds
<1>20. StateInv'
  BY <1>11, <1>12, <1>13, <1>14, <1>15, <1>16, <1>17, <1>18 DEF StateInv
<1> QED BY <1>3, <1>19, <1>20, Assemble

LEMMA RedeployKeeps == ASSUME ServicesInv, NEW i \in DOMAIN line, Redeploy(i) PROVE ServicesInv'
<1>1. PICK copies : copies = {[r EXCEPT !.data = DataOf("compute", r.name)] : r \in Copies(line[i], {"compute"})}
  OBVIOUS
<1>2. At(i, "clone", "redeploy") /\ Leave(i) /\ UNCHANGED <<reg, reserved>>
  BY DEF Redeploy
<1>3. CASE /\ rows' = rows \cup copies
           /\ box' = box \cup Things(copies) /\ bytes' = bytes \cup Directories(copies)
           /\ wired' = wired \cup {[w EXCEPT !.branch = line[i].branch] :
                                      w \in {w \in wired : w.branch = line[i].source /\ w.kind # "compute"}}
           /\ UNCHANGED branches
  BY <1>1, <1>2, <1>3, RedeployDoneKeeps
<1>4. CASE /\ branches' = branches \ {line[i].branch} /\ rows' = {r \in rows : r.branch # line[i].branch}
           /\ wired' = {w \in wired : w.branch # line[i].branch} /\ box' = {x \in box : x.branch # line[i].branch}
           /\ bytes' = {y \in bytes : y[1] # line[i].branch}
  BY <1>2, <1>4, RedeployFailsKeeps
<1> QED BY <1>1, <1>3, <1>4 DEF Redeploy

-----------------------------------------------------------------------------
\* Every step.

LEMMA InitServices == Init => ServicesInv
<1> SUFFICES ASSUME Init PROVE ServicesInv
  OBVIOUS
<1>1. line = <<>> /\ DOMAIN line = {} /\ line \in Seq(Op)
  BY DEF Init
<1>2. LineInv
  BY <1>1 DEF LineInv
<1>3. \A o : ~InLine(o)
  BY <1>1 DEF InLine
<1>4. /\ branches = {Main} /\ reg = {} /\ rows = {} /\ wired = {} /\ reserved = {}
      /\ box = {} /\ bytes = {}
  BY DEF Init
<1>5. DataMeans
  <2>1. \A k, n, d : ~Claim(k, n, d)
    BY <1>3, <1>4 DEF Claim, RegClaim, RowClaim, OpClaim
  <2> QED BY <2>1 DEF DataMeans
<1>6. StoreTyped
  BY <1>4, ServicesAssumption DEF StoreTyped
<1>7. RowsTyped /\ HostsApart /\ Registered /\ RowsHaveBytes /\ Boxed /\ WiresHold
  BY <1>4 DEF RowsTyped, HostsApart, Registered, RowsHaveBytes, Boxed, WiresHold
<1> QED BY <1>2, <1>3, <1>5, <1>6, <1>7 DEF ServicesInv, StateInv

LEMMA CallsKeep == ASSUME DatabasesBound, ServicesInv, Call PROVE ServicesInv'
<1>1. ASSUME NEW n \in Name, AddGroup(n) PROVE ServicesInv'
  BY <1>1, AddGroupKeeps
<1>2. ASSUME NEW b \in Branch, NEW k \in Kind, NEW n \in Name, AskAdd(b, k, n) \/ AskRemove(b, k, n) \/ Wire(b, k, n)
      PROVE  ServicesInv'
  BY <1>2, AskAddKeeps, AskRemoveKeeps, WireKeeps
<1>3. ASSUME NEW b \in Branch, NEW n \in Name, AskDeploy(b, n) PROVE ServicesInv'
  BY <1>3, AskDeployKeeps
<1>4. ASSUME NEW k \in Kind, NEW n \in Name, NEW m \in Name, AskRename(k, n, m) PROVE ServicesInv'
  BY <1>4, AskRenameKeeps
<1>5. ASSUME NEW s \in Branch, NEW c \in Branch, AskClone(s, c) PROVE ServicesInv'
  BY <1>5, AskCloneKeeps
<1> QED BY <1>1, <1>2, <1>3, <1>4, <1>5 DEF Call

LEMMA StepsKeep ==
    ASSUME PostgresSound, UndoSound, ServicesInv, Undisturbed, NEW i \in DOMAIN line, Step(i)
    PROVE  ServicesInv'
<1>1. AddSteps(i) => ServicesInv'
  BY StartAddKeeps, ProvisionKeeps, ProvisionFailsKeeps DEF AddSteps
<1>2. DeploySteps(i) => ServicesInv'
  BY StartDeployKeeps, DeployKeeps, DeployFailsKeeps DEF DeploySteps
<1>3. RemoveSteps(i) => ServicesInv'
  BY StartRemoveKeeps, RemoveContainerKeeps, RemoveBytesKeeps DEF RemoveSteps
<1>4. RenameSteps(i) => ServicesInv'
  <2>1. ASSUME NEW b \in Branch, RenameOne(i, b) \/ RenameNotNeeded(i, b) PROVE ServicesInv'
    BY <2>1, RenameOneContainer, RenameOneDatabase, RenameNotNeededKeeps
  <2> QED BY <2>1, StartRenameKeeps, RenameBreaksKeeps, UndoKeeps, FinishRenameKeeps DEF RenameSteps
<1>5. CloneSteps(i) => ServicesInv'
  BY StartCloneKeeps, ForkKeeps, RedeployKeeps DEF CloneSteps
<1> QED BY <1>1, <1>2, <1>3, <1>4, <1>5 DEF Step

LEMMA NothingKeeps == ASSUME ServicesInv, UNCHANGED vars PROVE ServicesInv'
<1>1. UNCHANGED <<branches, reg, rows, wired, reserved, box, bytes, line>>
  BY DEF vars, store
<1>2. LineInv' /\ AtRename' = AtRename /\ \A o : InLine(o)' <=> InLine(o)
  BY <1>1, SameLine DEF ServicesInv
<1>3. StateInv'
  <2>1. \A o \in Op : InLine(o)' /\ Holder(o)' => InLine(o) /\ Holder(o)
    BY <1>1, <1>2 DEF Holder
  <2>2. \A o \in Op : InLine(o) /\ o.verb = "remove" /\ o.pc = "bytes" => InLine(o)'
    BY <1>2
  <2> QED BY <1>1, <1>2, <2>1, <2>2, SameState
<1>4. ASSUME NEW o \in Op, InLine(o) PROVE Holds(o)'
  <2>1. Holds(o)
    BY <1>4 DEF ServicesInv
  <2> QED BY <1>1, <2>1, StillHolds
<1> QED BY <1>2, <1>3, <1>4 DEF ServicesInv

\* Directories have a branch and an identity.
BytesTyped == bytes \subseteq Branch \X Data

LEMMA BytesStayTyped == ASSUME ServicesInv, BytesTyped, [Next]_vars PROVE BytesTyped'
<1>1. ASSUME NEW i \in DOMAIN line PROVE line[i] \in Op /\ Shape(line[i])
  BY DEF ServicesInv, LineInv
<1>2. CASE UNCHANGED vars
  BY <1>2 DEF BytesTyped, vars
<1>3. CASE Call
  BY <1>3 DEF Call, AddGroup, AskAdd, AskRemove, Wire, AskDeploy, AskRename, AskClone, BytesTyped
<1>4. ASSUME NEW i \in DOMAIN line, AddSteps(i) PROVE BytesTyped'
  <2>1. CASE StartAdd(i)
    BY <2>1 DEF StartAdd, BytesTyped
  <2>2. CASE Provision(i) \/ ProvisionFails(i)
    <3>1. line[i].branch \in Branch /\ line[i].data \in Data
      BY <1>1, <2>2 DEF Shape, Provision, ProvisionFails, At, Live
    <3>2. bytes' \subseteq bytes \cup {<<line[i].branch, line[i].data>>}
      BY <2>2 DEF Provision, ProvisionFails
    <3> QED BY <3>1, <3>2 DEF BytesTyped
  <2> QED BY <1>4, <2>1, <2>2 DEF AddSteps
<1>5. ASSUME NEW i \in DOMAIN line, DeploySteps(i) PROVE BytesTyped'
  <2>1. CASE StartDeploy(i)
    BY <2>1 DEF StartDeploy, BytesTyped
  <2>2. CASE Deploy(i) \/ DeployFails(i)
    <3>1. line[i].branch \in Branch /\ line[i].data \in Data \cup {None}
      BY <1>1, <2>2 DEF Shape, Deploy, DeployFails, At, Op
    <3>2. bytes' = IF line[i].data = None THEN bytes ELSE bytes \cup {<<line[i].branch, line[i].data>>}
      BY <2>2 DEF Deploy, DeployFails
    <3> QED BY <3>1, <3>2 DEF BytesTyped
  <2> QED BY <1>5, <2>1, <2>2 DEF DeploySteps
<1>6. ASSUME NEW i \in DOMAIN line, RemoveSteps(i) PROVE BytesTyped'
  <2>1. bytes' \subseteq bytes
    BY <1>6 DEF RemoveSteps, StartRemove, RemoveContainer, RemoveBytes
  <2> QED BY <2>1 DEF BytesTyped
<1>7. ASSUME NEW i \in DOMAIN line, RenameSteps(i) PROVE BytesTyped'
  <2>1. UNCHANGED bytes
    BY <1>7 DEF RenameSteps, StartRename, RenameBreaks, Undo, FinishRename, RenameOne, RenameNotNeeded
  <2> QED BY <2>1 DEF BytesTyped
<1>8. ASSUME NEW i \in DOMAIN line, CloneSteps(i) PROVE BytesTyped'
  <2>1. CASE StartClone(i)
    BY <2>1 DEF StartClone, BytesTyped
  <2>2. CASE Fork(i)
    <3>1. PICK copies : copies = Copies(line[i], Kind \ {"compute"})
      OBVIOUS
    <3>2. bytes' \subseteq bytes \cup Directories(copies)
      BY <2>2, <3>1 DEF Fork
    <3>3. \A r \in copies : r \in RowSet
      <4>1. line[i].todo \subseteq RowSet /\ line[i].branch \in Branch
        BY <1>1, <2>2 DEF Fork, At, Shape, ServicesInv, Holds, CloneHolds, InLine, Live
      <4> TAKE r \in copies
      <4>2. PICK t \in line[i].todo : r = Copy(line[i], t)
        BY <3>1 DEF Copies, Copy
      <4> QED BY <4>1, <4>2, CopyIs
    <3>4. Directories(copies) \subseteq Branch \X Data
      BY <3>3 DEF Directories, RowSet
    <3> QED BY <3>2, <3>4 DEF BytesTyped
  <2>3. CASE Redeploy(i)
    <3>1. PICK copies : copies = {[r EXCEPT !.data = DataOf("compute", r.name)] : r \in Copies(line[i], {"compute"})}
      OBVIOUS
    <3>2. bytes' \subseteq bytes \cup Directories(copies)
      BY <2>3, <3>1 DEF Redeploy
    <3>3. ASSUME NEW q \in copies PROVE q \in RowSet
      <4>1. line[i].todo \subseteq RowSet /\ line[i].branch \in Branch
        BY <1>1, <2>3 DEF Redeploy, At, Shape, ServicesInv, Holds, CloneHolds, InLine, Live
      <4>2. PICK r \in Copies(line[i], {"compute"}) : q = [r EXCEPT !.data = DataOf("compute", r.name)]
        BY <3>1
      <4>3. r \in RowSet
        BY <4>1, <4>2, CopyIs DEF Copies, Copy
      <4>4. PICK d : d = DataOf("compute", r.name)
        OBVIOUS
      <4>5. d \in Data \cup {None}
        BY <4>4, DataOfTyped DEF ServicesInv, StateInv
      <4> QED BY <4>2, <4>3, <4>4, <4>5 DEF RowSet
    <3>4. Directories(copies) \subseteq Branch \X Data
      BY <3>3 DEF Directories, RowSet
    <3> QED BY <3>2, <3>4 DEF BytesTyped
  <2> QED BY <1>8, <2>1, <2>2, <2>3 DEF CloneSteps
<1> QED BY <1>2, <1>3, <1>4, <1>5, <1>6, <1>7, <1>8 DEF Next, Step

-----------------------------------------------------------------------------
\* What the invariant says.

LEMMA NamesFollow == ServicesInv => NamesHold
<1> SUFFICES ASSUME ServicesInv PROVE NamesHold
  OBVIOUS
<1>1. HostsApart /\ RowsHaveBytes /\ WiresHold
  BY DEF ServicesInv, StateInv
<1>2. OneAnswersPerHost
  BY <1>1 DEF OneAnswersPerHost, HostsApart, Answering, Solid
<1> QED BY <1>1, <1>2 DEF NamesHold

\* The last bytes of a removal are under no container.
LEMMA RemovedBytesAreFree ==
    ASSUME ServicesInv, BytesTyped, NEW i \in DOMAIN line, At(i, "remove", "bytes"),
           <<line[i].branch, line[i].data>> \in bytes,
           NEW r \in rows, Solid(r.kind), r.branch = line[i].branch, r.data = line[i].data,
           NEW x \in box, Solid(x.kind), x.branch = line[i].branch, x.data = line[i].data
    PROVE  FALSE
<1>0. PICK me : me = line[i]
  OBVIOUS
<1>1. /\ me \in Op /\ Shape(me) /\ InLine(me) /\ RemoveHolds(me) /\ me.verb = "remove" /\ me.pc = "bytes" /\ Live(me)
      /\ LineInv /\ Solid(me.kind)
  BY <1>0 DEF ServicesInv, LineInv, InLine, Holds, At, Live, Shape, Solid
<1>2. /\ Carries(me.branch, me.kind, me.name) /\ InBox(me.branch, me.kind, me.name) = {}
      /\ Key(me.branch, me.kind, me.name) \in me.keys
  BY <1>1 DEF RemoveHolds, Shape
<1>3. me.data \in Data /\ me.data # None
  BY <1>0, ServicesAssumption DEF BytesTyped
<1>4. me.branch \in branches
  BY <1>2 DEF Carries, RowsOf, ServicesInv, StateInv, RowsTyped
<1>5. OpClaim(me.kind, me.name, me.data)
  BY <1>1, <1>4 DEF OpClaim, Holder
<1>6. \A o \in AtRename : ~(o.kind = me.kind /\ o.name = me.name)
  <2> SUFFICES ASSUME NEW o \in AtRename, o.kind = me.kind, o.name = me.name PROVE FALSE
    OBVIOUS
  <2>1. Besides(i, o) /\ Live(o) /\ o.verb = "rename" /\ o \in Op /\ InLine(o)
    BY <1>0, <1>1, InLineIs DEF AtRename
  <2>2. me.keys \cap o.keys = {}
    BY <1>0, <1>1, <2>1, OthersApart
  <2>3. Key(me.branch, me.kind, me.name) \in o.keys
    BY <1>4, <2>1 DEF ServicesInv, Holds, RenameHolds
  <2> QED BY <1>2, <2>2, <2>3
<1>7. PICK n : Named(r, n)
  BY DEF Named
<1>8. r.kind = me.kind /\ n = me.name
  <2>1. RowClaim(r.kind, n, me.data)
    BY <1>0, <1>7 DEF RowClaim
  <2> QED BY <1>1, <1>3, <1>5, <2>1 DEF ServicesInv, StateInv, DataMeans, Claim
<1>9. r.name = me.name
  BY <1>6, <1>7, <1>8 DEF Named
<1>10. PICK q \in rows : Matches(x, q)
  BY <1>0, <1>3 DEF ServicesInv, StateInv, Boxed
<1>11. q = r
  <2>1. q.kind = x.kind /\ q.branch = x.branch /\ q.data = x.data
    BY <1>10 DEF Matches
  <2> QED BY <1>0, <1>3, <2>1, OneOwner
<1>12. x.handle = me.name /\ x.kind = me.kind
  BY <1>6, <1>8, <1>9, <1>10, <1>11 DEF Matches, Ahead
<1> QED BY <1>0, <1>2, <1>12 DEF InBox

BytesOutlive ==
    \A y \in bytes \ bytes' : \A r \in rows :
        r.kind # "storage" /\ r.branch = y[1] /\ r.data = y[2] =>
           \A x \in box' : x.kind = "storage" \/ x.branch # y[1] \/ x.data # y[2]

CloneCarries ==
    \A c \in branches' \ branches : \A i \in DOMAIN line :
        line[i].branch = c /\ line[i].pc = "fork" =>
           \A r \in rows : r.branch = line[i].source /\ r.kind \notin {"compute", "storage"} =>
              \E q \in rows' : q.branch = c /\ q.kind = r.kind /\ q.name = r.name

LEMMA BytesStay ==
    ASSUME PostgresSound, ServicesInv, [Next]_vars, \A i \in DOMAIN line : ~RemoveBytes(i) /\ ~Redeploy(i)
    PROVE  bytes \subseteq bytes'
<1>1. CASE UNCHANGED vars
  BY <1>1 DEF vars
<1>2. CASE Call
  BY <1>2 DEF Call, AddGroup, AskAdd, AskRemove, Wire, AskDeploy, AskRename, AskClone
<1>3. ASSUME NEW i \in DOMAIN line, Step(i) PROVE bytes \subseteq bytes'
  <2>1. CASE ProvisionFails(i)
    <3>1. Shape(line[i]) /\ line[i] \in Op /\ line[i].kind # "postgres"
      BY <2>1 DEF ServicesInv, LineInv, ProvisionFails, Fails, PostgresSound
    <3>2. line[i].kind \in {"managed", "storage"}
      BY <2>1, <3>1, ServicesAssumption DEF Shape, ProvisionFails, At
    <3> QED BY <2>1, <3>2 DEF ProvisionFails
  <2>2. CASE StartAdd(i) \/ Provision(i)
    BY <2>2 DEF StartAdd, Provision
  <2>3. CASE DeploySteps(i)
    BY <2>3 DEF DeploySteps, StartDeploy, Deploy, DeployFails
  <2>4. CASE StartRemove(i) \/ RemoveContainer(i)
    BY <2>4 DEF StartRemove, RemoveContainer
  <2>5. CASE RenameSteps(i)
    BY <2>5 DEF RenameSteps, StartRename, RenameBreaks, Undo, FinishRename, RenameOne, RenameNotNeeded
  <2>6. CASE StartClone(i) \/ Fork(i)
    BY <2>6 DEF StartClone, Fork
  <2> QED BY <1>3, <2>1, <2>2, <2>3, <2>4, <2>5, <2>6 DEF Step, AddSteps, RemoveSteps, CloneSteps
<1> QED BY <1>1, <1>2, <1>3 DEF Next

LEMMA BytesStep == ASSUME PostgresSound, ServicesInv, BytesTyped, [Next]_vars PROVE BytesOutlive
<1> SUFFICES ASSUME NEW y \in bytes \ bytes', NEW r \in rows, r.kind # "storage", r.branch = y[1], r.data = y[2],
                    NEW x \in box', x.kind # "storage", x.branch = y[1], x.data = y[2]
             PROVE  FALSE
  BY DEF BytesOutlive
<1>1. PICK i \in DOMAIN line : RemoveBytes(i) \/ Redeploy(i)
  BY BytesStay
<1>2. CASE RemoveBytes(i)
  <2>1. At(i, "remove", "bytes") /\ box' = box /\ bytes' = bytes \ {<<line[i].branch, line[i].data>>}
    BY <1>2 DEF RemoveBytes
  <2>2. y = <<line[i].branch, line[i].data>>
    BY <2>1
  <2>3. y[1] = line[i].branch /\ y[2] = line[i].data
    BY <2>2
  <2> QED BY <2>1, <2>2, <2>3, RemovedBytesAreFree DEF Solid
<1>3. CASE Redeploy(i)
  <2>1. bytes' = {z \in bytes : z[1] # line[i].branch} /\ box' = {z \in box : z.branch # line[i].branch}
    BY <1>3 DEF Redeploy
  <2>2. y[1] = line[i].branch
    BY <2>1
  <2> QED BY <2>1, <2>2
<1> QED BY <1>1, <1>2, <1>3

LEMMA BranchesStay ==
    ASSUME [Next]_vars, \A i \in DOMAIN line : ~Fork(i)
    PROVE  branches' \subseteq branches
<1>1. CASE UNCHANGED vars
  BY <1>1 DEF vars, store
<1>2. CASE Call
  BY <1>2 DEF Call, AddGroup, AskAdd, AskRemove, Wire, AskDeploy, AskRename, AskClone, store
<1>3. ASSUME NEW i \in DOMAIN line, Step(i) PROVE branches' \subseteq branches
  <2>1. CASE AddSteps(i)
    BY <2>1 DEF AddSteps, StartAdd, Provision, ProvisionFails
  <2>2. CASE DeploySteps(i)
    BY <2>2 DEF DeploySteps, StartDeploy, Deploy, DeployFails
  <2>3. CASE RemoveSteps(i)
    BY <2>3 DEF RemoveSteps, StartRemove, RemoveContainer, RemoveBytes, TakenAway, store
  <2>4. CASE RenameSteps(i)
    BY <2>4 DEF RenameSteps, StartRename, RenameBreaks, Undo, FinishRename, RenameOne, RenameNotNeeded, Renamed, store
  <2>5. CASE StartClone(i) \/ Redeploy(i)
    BY <2>5 DEF StartClone, Redeploy, store
  <2> QED BY <1>3, <2>1, <2>2, <2>3, <2>4, <2>5 DEF Step, CloneSteps
<1> QED BY <1>1, <1>2, <1>3 DEF Next

LEMMA CloneStep == ASSUME ServicesInv, [Next]_vars PROVE CloneCarries
<1> SUFFICES ASSUME NEW c \in branches' \ branches, NEW i \in DOMAIN line, line[i].branch = c, line[i].pc = "fork",
                    NEW r \in rows, r.branch = line[i].source, r.kind \notin {"compute", "storage"}
             PROVE  \E q \in rows' : q.branch = c /\ q.kind = r.kind /\ q.name = r.name
  BY DEF CloneCarries
<1>1. PICK k \in DOMAIN line : Fork(k)
  BY BranchesStay
<1>2. PICK me : me = line[k]
  OBVIOUS
<1>3. me \in Op /\ Shape(me) /\ CloneHolds(me) /\ me.verb = "clone" /\ me.pc = "fork" /\ LineInv
  BY <1>1, <1>2 DEF ServicesInv, LineInv, Holds, InLine, Fork, At
<1>4. c = me.branch /\ rows' = rows \cup Copies(me, Kind \ {"compute"})
  BY <1>1, <1>2 DEF Fork
<1>5. i = k
  <2> SUFFICES ASSUME i # k PROVE FALSE
    OBVIOUS
  <2>1. Besides(k, line[i]) /\ IsNew(line[k])
    BY <1>2, <1>3 DEF Besides, IsNew
  <2> QED BY <1>2, <1>3, <1>4, <2>1, OthersApart
<1>6. r \in me.todo /\ r \in RowSet /\ me.branch \in Branch
  BY <1>2, <1>3, <1>5 DEF CloneHolds, Live, Solid, Shape
<1>7. PICK q : q = Copy(me, r)
  OBVIOUS
<1>8. q.branch = c /\ q.kind = r.kind /\ q.name = r.name
  BY <1>4, <1>6, <1>7, CopyIs
<1>9. r.kind \in Kind
  BY <1>6 DEF RowSet
<1>10. q \in Copies(me, Kind \ {"compute"})
  BY <1>6, <1>7, <1>9 DEF Copies, Copy
<1> QED BY <1>4, <1>8, <1>10

-----------------------------------------------------------------------------
\* The theorems.

\* The invariant and the types of the directories, through adds, deploys, removals, renames and
\* branch creates of any services on any branches, as many in flight as there may be.
THEOREM ServicesInvariant ==
    ASSUME PostgresSound, UndoSound, DatabasesBound
    PROVE  Spec /\ []Undisturbed => [](ServicesInv /\ BytesTyped)
<1>1. Init => ServicesInv /\ BytesTyped
  BY InitServices DEF Init, BytesTyped
<1>2. ServicesInv /\ BytesTyped /\ Undisturbed /\ [Next]_vars => (ServicesInv /\ BytesTyped)'
  BY CallsKeep, StepsKeep, NothingKeeps, BytesStayTyped DEF Next
<1> QED BY <1>1, <1>2, PTL DEF Spec

\* No two services of a branch answer on one hostname, every row names bytes that are there, and
\* a binding finds its database, whatever overlaps.
THEOREM NamesTheorem ==
    ASSUME PostgresSound, UndoSound, DatabasesBound
    PROVE  Spec /\ []Undisturbed => []NamesHold
BY NamesFollow, ServicesInvariant, PTL

\* Nobody deletes a directory that a container still writes, and a branch is committed with every
\* database its source has then.
THEOREM BytesTheorem ==
    ASSUME PostgresSound, UndoSound, DatabasesBound
    PROVE  Spec /\ []Undisturbed => BytesAreKept
<1>1. ServicesInv /\ BytesTyped /\ [Next]_vars => [BytesOutlive]_vars /\ [CloneCarries]_vars
  BY BytesStep, CloneStep
<1>2. Spec /\ []Undisturbed => [][BytesOutlive]_vars /\ [][CloneCarries]_vars
  BY <1>1, ServicesInvariant, PTL DEF Spec
<1> QED BY <1>2 DEF BytesAreKept, BytesOutliveContainer, CloneCarriesAll, BytesOutlive, CloneCarries

=============================================================================
