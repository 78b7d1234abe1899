----------------------------- MODULE Storyboard -----------------------------
(***************************************************************************)
(* The storyboard (src/src/artery/storyboard): after every TraCI step the  *)
(* conditions of all stories are tested for all cars, and the effects of a *)
(* story are put on or taken off the effect stack of the car.  Effects are *)
(* SpeedEffects: they set the maximum speed of the vehicle in SUMO and     *)
(* remember the one before.  What a condition tests is left open.          *)
(*                                                                         *)
(* The effect stacks are kept by the address of the car's Vehicle object   *)
(* and outlive it.  The maximum speed is read through the vehicle cache of *)
(* the subscription manager, which is reset by every TraCI step and is not *)
(* written by setMaxSpeed.                                                 *)
(***************************************************************************)
EXTENDS Naturals, FiniteSets, SequencesExt

CONSTANTS
    Cars,           \* vehicle identifiers, each used by one node
    Addresses,      \* where Vehicle objects are allocated
    Stories,        \* m_stories: a sequence of stories
    SpeedEffects,   \* speeds of the effects of every story, in order
    OriginalSpeed,  \* maximum speed before any effect
    DebugLogging,   \* EV_DEBUG is printed, which evaluates its arguments
    MaxChanges,     \* bound: condition results that change for a car in a step
    Nothing         \* no address, no value in the cache

AllStories == {Stories[i] : i \in DOMAIN Stories}

ASSUME StoryboardAssumption ==
    /\ DebugLogging \in BOOLEAN
    /\ MaxChanges \in Nat
    /\ DOMAIN Stories \subseteq Nat
    /\ \A s \in AllStories : Len(SpeedEffects[s]) \in Nat \ {0}
    /\ Nothing \notin Addresses /\ \A held \in SUBSET AllStories : held # Nothing

VARIABLES
    phase,          \* "idle", "nodes" or "stories"
    agenda,         \* cars and numbers of stories updateStoryboard has yet to check
    joined,         \* cars that have or had a node
    m_vehicles,     \* address of the Vehicle of every car
    m_affectedCars, \* effect stack of every address
    maxSpeed,       \* maximum speed of every car in SUMO
    cache,          \* VAR_MAXSPEED in the vehicle cache of every car
    holds,          \* history: stories whose last test was passed, once tested
    changes         \* condition results of every car changed in this step

vars == <<phase, agenda, joined, m_vehicles, m_affectedCars, maxSpeed, cache,
          holds, changes>>

AllSpeeds ==
    {OriginalSpeed} \cup
    UNION {{SpeedEffects[s][i] : i \in 1..Len(SpeedEffects[s])} : s \in AllStories}

(* SpeedEffect: car is m_car, current the remembered speed.                *)
Effects == [car : Cars, story : AllStories, index : Nat, speed : AllSpeeds,
            current : AllSpeeds]

Present == {c \in Cars : m_vehicles[c] # Nothing}

Init ==
    /\ phase = "idle"
    /\ agenda = {}
    /\ joined = {}
    /\ m_vehicles = [c \in Cars |-> Nothing]
    /\ m_affectedCars = [a \in Addresses |-> << >>]
    /\ maxSpeed = [c \in Cars |-> OriginalSpeed]
    /\ cache = [c \in Cars |-> Nothing]
    /\ holds = [c \in Cars |-> Nothing]
    /\ changes = [c \in Cars |-> 0]

-----------------------------------------------------------------------------
(* A car as its effects see it: stack, maximum speed and cached value.     *)
State(c) == [stack |-> m_affectedCars[m_vehicles[c]], speed |-> maxSpeed[c],
             cache |-> cache[c]]

(* VehicleController::getMaxSpeed: fetched once and then cached.           *)
getMaxSpeed(state) == IF state.cache = Nothing THEN state.speed ELSE state.cache

(* applyEffect of some effects in turn, the first one at index n.  Each    *)
(* remembers the speed it reads, which is the cached one but for the first. *)
Apply(state, n) ==
    LET top == Len(state.stack)
        read == getMaxSpeed(state)
    IN  IF n > top THEN state
        ELSE [stack |-> [i \in 1..top |->
                IF i < n THEN state.stack[i]
                ELSE [state.stack[i] EXCEPT !.current = read]],
              speed |-> state.stack[top].speed,
              cache |-> read]

(* removeEffect of the effects from the top down to index n; each restores *)
(* the speed it remembers.  Printing the result fills an empty cache.      *)
Unapply(state, n) ==
    LET top == Len(state.stack)
    IN  [stack |-> state.stack,
         speed |-> state.stack[n].current,
         cache |-> IF state.cache = Nothing /\ DebugLogging
                     THEN state.stack[top].current ELSE state.cache]

(* EffectStack::removeFromMiddle: effectCount is compared but never        *)
(* incremented, so the effects above are applied again only if they are    *)
(* all that is left.                                                       *)
removeFromMiddle(state, n) ==
    LET removedEffects == Len(state.stack) - n
        unapplied == Unapply(state, n)
        left == [unapplied EXCEPT !.stack = RemoveAt(@, n)]
    IN  IF 0 >= Len(left.stack) - removedEffects THEN Apply(left, 1) ELSE left

(* EffectStack::removeEffect *)
removeEffect(state, n) ==
    IF n = Len(state.stack)
      THEN LET unapplied == Unapply(state, n)
           IN  [unapplied EXCEPT !.stack = Front(@)]
      ELSE removeFromMiddle(state, n)

(* Where the effects of a story are, and the lowest of them.               *)
Found(stack, story) == {n \in DOMAIN stack : stack[n].story = story}
Lowest(stack, story) ==
    CHOOSE n \in Found(stack, story) : \A m \in Found(stack, story) : n <= m

(* Mutant of removeEffectsByStory: only the first effect found is removed. *)
removeFirstByStory(state, story) == removeEffect(state, Lowest(state.stack, story))

(* EffectStack::removeEffectsByStory: as many as are found, one after the  *)
(* other, the lowest first.                                                *)
removeEffectsByStory(state, story) ==
    LET tmp == Cardinality(Found(state.stack, story))
        removed[k \in 0..tmp] ==
            IF k = 0 THEN state
            ELSE removeEffect(removed[k - 1], Lowest(removed[k - 1].stack, story))
    IN  removed[tmp]

(* EffectStack::isStoryOnStack *)
isStoryOnStack(state, story) == Found(state.stack, story) # {}

(* The effects a story's factories create for a car.                       *)
Created(c, story) ==
    [i \in 1..Len(SpeedEffects[story]) |->
        [car |-> c, story |-> story, index |-> i,
         speed |-> SpeedEffects[story][i], current |-> OriginalSpeed]]

(* Storyboard::addEffect, EffectStack::addEffect                           *)
addEffect(state, c, story) ==
    Apply([state EXCEPT !.stack = @ \o Created(c, story)], Len(state.stack) + 1)

-----------------------------------------------------------------------------
(* Subscription manager and node manager process a TraCI step first: caches *)
(* are reset, and nodes come and go.                                       *)
BeginStep ==
    /\ phase = "idle"
    /\ phase' = "nodes"
    /\ cache' = [c \in Cars |-> Nothing]
    /\ changes' = [c \in Cars |-> 0]
    /\ UNCHANGED <<agenda, joined, m_vehicles, m_affectedCars, maxSpeed, holds>>

(* traci.node.add: the new Vehicle may get the address of an old one; with *)
(* delayed insertion also between two steps.                               *)
AddNode(c) ==
    /\ phase \in {"idle", "nodes"}
    /\ c \notin joined
    /\ joined' = joined \cup {c}
    /\ \E a \in Addresses \ {m_vehicles[d] : d \in Cars} :
         m_vehicles' = [m_vehicles EXCEPT ![c] = a]
    /\ UNCHANGED <<phase, agenda, m_affectedCars, maxSpeed, cache, holds, changes>>

(* traci.node.remove: m_affectedCars keeps the stack.                      *)
RemoveNode(c) ==
    /\ phase = "nodes"
    /\ c \in Present
    /\ m_vehicles' = [m_vehicles EXCEPT ![c] = Nothing]
    /\ UNCHANGED <<phase, agenda, joined, m_affectedCars, maxSpeed, cache,
                   holds, changes>>

(* traci.step: updateStoryboard goes through the cars, and for every car   *)
(* through the stories.                                                    *)
updateStoryboard ==
    /\ phase = "nodes"
    /\ agenda' = Present \X DOMAIN Stories
    /\ phase' = IF agenda' = {} THEN "idle" ELSE "stories"
    /\ UNCHANGED <<joined, m_vehicles, m_affectedCars, maxSpeed, cache, holds,
                   changes>>

(* A car's stories come in order, and all of them before the next car's.   *)
(* In which order the cars come is left open.                              *)
Begun == {p[1] : p \in {q \in agenda : \E i \in DOMAIN Stories : <<q[1], i>> \notin agenda}}
IsNext(p) ==
    /\ \A q \in agenda : q[1] = p[1] => p[2] <= q[2]
    /\ Begun \subseteq {p[1]}

(* Effect of checkCar on a car, given the result of the condition.         *)
Checked(state, c, story, result) ==
    IF isStoryOnStack(state, story)
      THEN IF result THEN state ELSE removeEffectsByStory(state, story)
      ELSE IF result THEN addEffect(state, c, story) ELSE state

Held(c) == IF holds[c] = Nothing THEN {} ELSE holds[c]

(* Storyboard::checkCar of a car and a story.                              *)
checkCar(c, i) ==
    /\ phase = "stories"
    /\ <<c, i>> \in agenda /\ IsNext(<<c, i>>)
    /\ \E result \in BOOLEAN :
         LET story == Stories[i]
             new == Checked(State(c), c, story, result)
             changed == result # (story \in Held(c))
         IN  /\ changed => changes[c] < MaxChanges
             /\ changes' = [changes EXCEPT ![c] = IF changed THEN @ + 1 ELSE @]
             /\ holds' = [holds EXCEPT ![c] = IF result THEN Held(c) \cup {story}
                                              ELSE Held(c) \ {story}]
             /\ m_affectedCars' = [m_affectedCars EXCEPT ![m_vehicles[c]] = new.stack]
             /\ maxSpeed' = [maxSpeed EXCEPT ![c] = new.speed]
             /\ cache' = [cache EXCEPT ![c] = new.cache]
    /\ agenda' = agenda \ {<<c, i>>}
    /\ phase' = IF agenda' = {} THEN "idle" ELSE "stories"
    /\ UNCHANGED <<joined, m_vehicles>>

Next ==
    \/ BeginStep
    \/ \E c \in Cars : AddNode(c) \/ RemoveNode(c)
    \/ updateStoryboard
    \/ \E c \in Cars, i \in DOMAIN Stories : checkCar(c, i)

Spec == Init /\ [][Next]_vars

-----------------------------------------------------------------------------
(* Types of the variables. *)
TypeOK ==
    /\ phase \in {"idle", "nodes", "stories"}
    /\ agenda \subseteq Present \X DOMAIN Stories
    /\ joined \subseteq Cars
    /\ m_vehicles \in [Cars -> Addresses \cup {Nothing}]
    /\ m_affectedCars \in [Addresses -> Seq(Effects)]
    /\ maxSpeed \in [Cars -> AllSpeeds]
    /\ cache \in [Cars -> AllSpeeds \cup {Nothing}]
    /\ holds \in [Cars -> (SUBSET AllStories) \cup {Nothing}]
    /\ changes \in [Cars -> 0..MaxChanges]

StackOf(c) == m_affectedCars[m_vehicles[c]]

(* Once a step has been processed, a car that took part in it has exactly  *)
(* the effects of the stories whose conditions hold for it (checkCar):     *)
(* none of a story that ended is left behind, and none is there twice.     *)
StoriesMatchConditions ==
    \A c \in Present : phase = "idle" /\ holds[c] # Nothing =>
        /\ {StackOf(c)[n].story : n \in DOMAIN StackOf(c)} = holds[c]
        /\ \A s \in holds[c] :
             Cardinality(Found(StackOf(c), s)) = Len(SpeedEffects[s])

(* Effects of a story lie next to each other in the order of its factories, *)
(* also after others were removed from between them.                       *)
StoriesInOrder ==
    \A a \in Addresses : \A n \in DOMAIN m_affectedCars[a] :
        LET e == m_affectedCars[a][n]
        IN  e.index > 1 => /\ n > 1
                           /\ m_affectedCars[a][n - 1].story = e.story
                           /\ m_affectedCars[a][n - 1].index = e.index - 1

(* SpeedEffect.h:12: the effect "resets the speed to the previous with     *)
(* removing": a car without effects has its original maximum speed.        *)
RestoredWhenDone ==
    \A c \in Present : StackOf(c) = << >> => maxSpeed[c] = OriginalSpeed
=============================================================================
