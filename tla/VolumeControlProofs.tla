-------------------------- MODULE VolumeControlProofs -------------------------
(***************************************************************************)
(* The gain that is applied is that of the volume that is told, whichever  *)
(* settings of the volume nest in each other and wherever the other task   *)
(* comes between their steps.                                              *)
(***************************************************************************)
EXTENDS VolumeControl, SequenceTheorems, TLAPS

(***************************************************************************)
(* The inductive invariant.                                                *)
(***************************************************************************)

Settings == [to : Volumes, at : 1 .. 5]

\* Only an absolute volume has a volume.
Kinds == {"connected", "set", "started", "suspended", "register"}
Events == {event \in [kind : Kinds, volume : Volumes \cup {Invalid}] : event.kind = "set" => event.volume \in Volumes}

\* A task is in no setting, in one, or in a restored volume within one that has only its
\* answer left to do.
IsStack(q) ==
    /\ q \in Seq(Settings)
    /\ Len(q) <= 2
    /\ Len(q) = 2 => q[1].to # 0 /\ q[2].at >= 4

\* The volume is stored and the gain is not.
Between(task) == ~Idle(task) /\ Head(settings[task]).at = 2

Agree == gain = Gain(volume) \/ (volume = 0 /\ gain = Unity)

StacksInv ==
    /\ settings \in [Tasks -> Seq(Settings)]
    /\ \A task \in Tasks : IsStack(settings[task])

VolumesInv == volume \in Volumes /\ saved \in Volumes /\ appQueue \in Seq(Events)

\* Settings that do not overlap: the gain lags behind within one task's two stores only,
\* and that task knows the volume.
OrderInv ==
    ~crossed =>
        /\ \E task \in Tasks : Idle(task)
        /\ \A task \in Tasks : Between(task) => volume = Head(settings[task]).to
        /\ (\A task \in Tasks : ~Between(task)) => Agree

GainInv == StacksInv /\ VolumesInv /\ OrderInv

(***************************************************************************)
(* Stacks.                                                                 *)
(***************************************************************************)

LEMMA HeadIsSetting ==
    ASSUME NEW q, IsStack(q), q # <<>>
    PROVE  Head(q) \in Settings /\ Head(q) = q[1]
BY DEF IsStack

\* The innermost setting moves on, with none or one within it.
LEMMA MovedStack ==
    ASSUME NEW q, IsStack(q), q # <<>>, NEW x \in Settings, x.to = Head(q).to
    PROVE  LET r == <<>> \o <<x>> \o Tail(q)
           IN  IsStack(r) /\ r # <<>> /\ Head(r) = x
<1> DEFINE r == <<>> \o <<x>> \o Tail(q)
<1>1. /\ r \in Seq(Settings) /\ Len(r) = Len(q) /\ r[1] = x
      /\ \A i \in 2 .. Len(q) : r[i] = q[i]
    BY DEF IsStack
<1> HIDE DEF r
<1>2. IsStack(r)
    BY <1>1, HeadIsSetting DEF IsStack
<1>3. r # <<>> /\ Head(r) = x
    BY <1>1 DEF IsStack
<1> QED BY <1>2, <1>3 DEF r

LEMMA NestedStack ==
    ASSUME NEW q, IsStack(q), Len(q) = 1, NEW x \in Settings, x.at >= 4,
           NEW y \in Settings, y.to # 0
    PROVE  LET r == <<y>> \o <<x>> \o Tail(q)
           IN  IsStack(r) /\ r # <<>> /\ Head(r) = y
<1> DEFINE two == <<y>> \o <<x>>
           r == two \o Tail(q)
<1>1. q \in Seq(Settings) /\ q # <<>>
    BY DEF IsStack
<1>2. Tail(q) \in Seq(Settings) /\ Len(Tail(q)) = 0
    BY <1>1, HeadTailProperties
<1>3. <<y>> \in Seq(Settings) /\ Len(<<y>>) = 1 /\ <<x>> \in Seq(Settings) /\ Len(<<x>>) = 1
    OBVIOUS
<1>4. two \in Seq(Settings) /\ Len(two) = 2 /\ two[1] = y /\ two[2] = x
    BY <1>3, ConcatProperties
<1> HIDE DEF two
<1>5. r \in Seq(Settings) /\ Len(r) = 2 /\ r[1] = y /\ r[2] = x
    <2>1. /\ r \in Seq(Settings) /\ Len(r) = Len(two) + Len(Tail(q))
          /\ \A i \in 1 .. Len(two) + Len(Tail(q)) :
               r[i] = IF i <= Len(two) THEN two[i] ELSE Tail(q)[i - Len(two)]
        BY <1>2, <1>4, ConcatProperties
    <2> HIDE DEF r
    <2> DEFINE n == Len(two)
               m == Len(Tail(q))
    <2>2. n = 2 /\ m = 0
        BY <1>2, <1>4
    <2>3. /\ Len(r) = n + m
          /\ \A i \in 1 .. n + m : r[i] = IF i <= n THEN two[i] ELSE Tail(q)[i - n]
        BY <2>1
    <2> HIDE DEF n, m
    <2>4. Len(r) = 2 /\ r[1] = two[1] /\ r[2] = two[2]
        BY <2>2, <2>3
    <2> QED BY <1>4, <2>1, <2>4
<1> HIDE DEF r
<1>6. IsStack(r)
    BY <1>5 DEF IsStack
<1>7. r # <<>> /\ Head(r) = y
    BY <1>5
<1> QED BY <1>6, <1>7 DEF r, two

LEMMA LeftStack ==
    ASSUME NEW q, IsStack(q), q # <<>>
    PROVE  IsStack(Tail(q)) /\ (Tail(q) # <<>> => Head(Tail(q)).at \in {4, 5})
<1> DEFINE r == Tail(q)
<1>1. q \in Seq(Settings) /\ Len(q) <= 2 /\ (Len(q) = 2 => q[2].at >= 4)
    BY DEF IsStack
<1>2. Len(q) \in 1 .. 2
    <2> DEFINE n == Len(q)
    <2>1. n <= 2
        BY <1>1
    <2>2. n \in Nat \ {0}
        BY <1>1, EmptySeq
    <2> HIDE DEF n
    <2>3. n \in 1 .. 2
        BY <2>1, <2>2
    <2> QED BY <2>3 DEF n
<1>3. /\ r \in Seq(Settings) /\ Len(r) = Len(q) - 1
      /\ \A i \in 1 .. Len(r) : r[i] = q[i + 1]
    BY <1>1, HeadTailProperties
<1> HIDE DEF r
<1>4. IsStack(r)
    BY <1>2, <1>3 DEF IsStack
<1>5. ASSUME r # <<>>
      PROVE  Head(r).at \in {4, 5}
    <2>1. Len(r) = 1 /\ Len(q) = 2
        BY <1>2, <1>3, <1>5, EmptySeq
    <2>2. Head(r) = q[2]
        BY <1>3, <2>1
    <2>3. q[2] \in Settings
        BY <1>1, <2>1, ElementOfSeq
    <2> QED BY <1>1, <2>1, <2>2, <2>3 DEF Settings
<1> QED BY <1>4, <1>5 DEF r

\* One task's stack changes, the other's stays.
LEMMA StackChanges ==
    ASSUME StacksInv, NEW task \in Tasks, NEW q, IsStack(q),
           settings' = [settings EXCEPT ![task] = q]
    PROVE  /\ StacksInv'
           /\ settings'[task] = q
           /\ \A other \in Tasks \ {task} : settings'[other] = settings[other]
<1>1. q \in Seq(Settings)
    BY DEF IsStack
<1> QED BY <1>1 DEF StacksInv

\* Which step a setting is at, by its place in the order.
LEMMA AtPlace ==
    ASSUME StacksInv, NEW task \in Tasks, NEW step, At(task, step)
    PROVE  /\ settings[task] # <<>> /\ Head(settings[task]) \in Settings
           /\ step = "volume" => Head(settings[task]).at = 1
           /\ step = "gain" => Head(settings[task]).at = 2
           /\ step = "callback" => Head(settings[task]).at = 3
           /\ step = "tell" => Head(settings[task]).at = 4
           /\ step = "clear" => Head(settings[task]).at = 5
<1>1. settings[task] # <<>> /\ IsStack(settings[task])
    BY DEF At, Idle, StacksInv
<1>2. Head(settings[task]) \in Settings
    BY <1>1, HeadIsSetting
<1> DEFINE at == Head(settings[task]).at
<1>3. at \in 1 .. 5
    BY <1>2 DEF Settings
<1>4. StepOrder[at] = step
    BY DEF At
<1> HIDE DEF at
<1>5. /\ step = "volume" => at = 1
      /\ step = "gain" => at = 2
      /\ step = "callback" => at = 3
      /\ step = "tell" => at = 4
      /\ step = "clear" => at = 5
    BY <1>3, <1>4 DEF StepOrder
<1> QED BY <1>1, <1>2, <1>5 DEF at

\* The next step of a setting that has none within it.
LEMMA OnwardAlone ==
    ASSUME StacksInv, NEW task \in Tasks, settings[task] # <<>>, Head(settings[task]).at <= 4,
           Onward(task, <<>>)
    PROVE  /\ StacksInv'
           /\ settings'[task] # <<>>
           /\ Head(settings'[task]).to = Head(settings[task]).to
           /\ Head(settings'[task]).at = Head(settings[task]).at + 1
           /\ \A other \in Tasks \ {task} : settings'[other] = settings[other]
<1> DEFINE q == settings[task]
           x == [Head(q) EXCEPT !.at = @ + 1]
           r == <<>> \o <<x>> \o Tail(q)
<1>1. IsStack(q) /\ q # <<>>
    BY DEF StacksInv
<1>2. Head(q) \in Settings
    BY <1>1, HeadIsSetting
<1>3. x \in Settings /\ x.to = Head(q).to /\ x.at = Head(q).at + 1
    BY <1>2 DEF Settings
<1>4. settings' = [settings EXCEPT ![task] = r]
    BY DEF Onward
<1> HIDE DEF x
<1>5. IsStack(r) /\ r # <<>> /\ Head(r) = x
    BY <1>1, <1>3, MovedStack
<1> HIDE DEF r
<1>6. /\ StacksInv' /\ settings'[task] = r
      /\ \A other \in Tasks \ {task} : settings'[other] = settings[other]
    BY <1>4, <1>5, StackChanges
<1> QED BY <1>3, <1>5, <1>6

\* The callback, which may begin a setting of the saved volume within this one.
LEMMA OnwardNested ==
    ASSUME StacksInv, saved \in Volumes, NEW task \in Tasks, settings[task] # <<>>,
           Head(settings[task]).at = 3, Onward(task, Restored(Head(settings[task]).to))
    PROVE  /\ StacksInv'
           /\ settings'[task] # <<>>
           /\ IF Restored(Head(settings[task]).to) = <<>>
              THEN Head(settings'[task]).at = 4
              ELSE Head(settings'[task]) = Setting(saved) /\ Setting(saved).at = 1 /\ saved # 0
           /\ \A other \in Tasks \ {task} : settings'[other] = settings[other]
<1> DEFINE q == settings[task]
           setting == Head(q)
           x == [setting EXCEPT !.at = setting.at + 1]
           y == Setting(saved)
           r == <<y>> \o <<x>> \o Tail(q)
<1>1. IsStack(q) /\ q # <<>>
    BY DEF StacksInv
<1>2. setting \in Settings /\ setting = q[1]
    BY <1>1, HeadIsSetting
<1>3. CASE Restored(setting.to) = <<>>
    <2>1. Onward(task, <<>>)
        BY <1>3
    <2>2. /\ StacksInv' /\ settings'[task] # <<>>
          /\ Head(settings'[task]).at = setting.at + 1
          /\ \A other \in Tasks \ {task} : settings'[other] = settings[other]
        BY <2>1, OnwardAlone
    <2> QED BY <1>3, <2>2
<1>4. CASE Restored(setting.to) # <<>>
    <2>1. Restored(setting.to) = <<y>> /\ setting.to \in {0, Invalid} /\ saved # 0
        BY <1>4 DEF Restored
    <2>2. setting.to = 0
        BY <1>2, <2>1, VolumeAssumption DEF Settings, Invalid, Volumes
    <2>3. Len(q) = 1
        <3> DEFINE n == Len(q)
        <3>1. n \in Nat \ {0}
            BY <1>1, EmptySeq DEF IsStack
        <3>2. n <= 2
            BY <1>1 DEF IsStack
        <3>3. n # 2
            BY <1>1, <1>2, <2>2 DEF IsStack
        <3> HIDE DEF n
        <3>4. n = 1
            BY <3>1, <3>2, <3>3
        <3> QED BY <3>4 DEF n
    <2>4. x \in Settings /\ x.at >= 4
        BY <1>2 DEF Settings
    <2>5. y \in Settings /\ y.to # 0 /\ y.at = 1
        BY <2>1 DEF Settings, Setting
    <2>6. settings' = [settings EXCEPT ![task] = r]
        BY <2>1 DEF Onward
    <2> HIDE DEF x, y
    <2>7. IsStack(r) /\ r # <<>> /\ Head(r) = y
        BY <1>1, <2>3, <2>4, <2>5, NestedStack
    <2> HIDE DEF r
    <2>8. /\ StacksInv' /\ settings'[task] = r
          /\ \A other \in Tasks \ {task} : settings'[other] = settings[other]
        BY <2>6, <2>7, StackChanges
    <2> QED BY <1>4, <2>1, <2>5, <2>7, <2>8 DEF y
<1> QED BY <1>3, <1>4

\* A setting is left: what it was within, if anything, has its answer left to do.
LEMMA DoneLeaves ==
    ASSUME StacksInv, NEW task \in Tasks, settings[task] # <<>>, Done(task)
    PROVE  /\ StacksInv'
           /\ settings'[task] # <<>> => Head(settings'[task]).at \in {4, 5}
           /\ \A other \in Tasks \ {task} : settings'[other] = settings[other]
<1> DEFINE r == Tail(settings[task])
<1>1. IsStack(settings[task])
    BY DEF StacksInv
<1>2. IsStack(r) /\ (r # <<>> => Head(r).at \in {4, 5})
    BY <1>1, LeftStack
<1>3. settings' = [settings EXCEPT ![task] = r]
    BY DEF Done
<1> HIDE DEF r
<1>4. /\ StacksInv' /\ settings'[task] = r
      /\ \A other \in Tasks \ {task} : settings'[other] = settings[other]
    BY <1>2, <1>3, StackChanges
<1> QED BY <1>2, <1>4

\* A setting begins in a task that is in none.
LEMMA BeginEnters ==
    ASSUME StacksInv, NEW task \in Tasks, NEW v \in Volumes, Begin(task, v)
    PROVE  /\ StacksInv'
           /\ settings'[task] # <<>>
           /\ Head(settings'[task]) = Setting(v) /\ Setting(v).at = 1
           /\ \A other \in Tasks \ {task} : settings'[other] = settings[other]
<1> DEFINE q == <<Setting(v)>>
<1>1. Setting(v) \in Settings /\ Setting(v).at = 1
    BY DEF Setting, Settings
<1>2. q \in Seq(Settings) /\ Len(q) = 1 /\ q # <<>> /\ Head(q) = Setting(v)
    BY <1>1
<1>3. settings' = [settings EXCEPT ![task] = q]
    BY DEF Begin
<1> HIDE DEF q
<1>4. IsStack(q)
    BY <1>2 DEF IsStack
<1>5. /\ StacksInv' /\ settings'[task] = q
      /\ \A other \in Tasks \ {task} : settings'[other] = settings[other]
    BY <1>3, <1>4, StackChanges
<1> QED BY <1>1, <1>2, <1>5

(***************************************************************************)
(* The order of the stores.                                                *)
(***************************************************************************)

LEMMA TheOther ==
    ASSUME NEW task \in Tasks
    PROVE  /\ Other(task) \in Tasks \ {task}
           /\ \A any \in Tasks : any = task \/ any = Other(task)
BY DEF Tasks, Other

LEMMA OtherIsIdle ==
    ASSUME OrderInv, ~crossed, NEW task \in Tasks, ~Idle(task)
    PROVE  Idle(Other(task))
BY TheOther DEF OrderInv

\* A step of one task that neither follows nor is a store.
LEMMA SettledOrder ==
    ASSUME OrderInv, ~crossed, NEW task \in Tasks,
           Idle(Other(task)), ~Between(task), Idle(Other(task))', ~Between(task)',
           volume' = volume, gain' = gain
    PROVE  OrderInv'
<1>1. \A any \in Tasks : ~Between(any)
    BY TheOther DEF Between
<1>2. Agree
    BY <1>1 DEF OrderInv
<1>3. Agree'
    BY <1>2 DEF Agree
<1>4. \A any \in Tasks : ~Between(any)'
    BY TheOther DEF Between
<1>5. \E any \in Tasks : Idle(any)'
    BY TheOther
<1> QED BY <1>3, <1>4, <1>5 DEF OrderInv

LEMMA StoreVolumeStep ==
    ASSUME GainInv, NEW task \in Tasks, StoreVolume(task)
    PROVE  GainInv'
<1> DEFINE to == Head(settings[task]).to
<1>1. StacksInv /\ OrderInv /\ VolumesInv
    BY DEF GainInv
<1>2. At(task, "volume") /\ volume' = to /\ crossed' = (crossed /\ ~Idle(Other(task)))
      /\ Onward(task, <<>>) /\ saved' = saved /\ appQueue' = appQueue
    BY DEF StoreVolume
<1>3. settings[task] # <<>> /\ Head(settings[task]) \in Settings
      /\ Head(settings[task]).at = 1
    BY <1>1, <1>2, AtPlace
<1>4. /\ StacksInv' /\ settings'[task] # <<>>
      /\ Head(settings'[task]).to = to /\ Head(settings'[task]).at = 2
      /\ \A other \in Tasks \ {task} : settings'[other] = settings[other]
    BY <1>1, <1>2, <1>3, OnwardAlone
<1>5. VolumesInv'
    BY <1>1, <1>2, <1>3 DEF VolumesInv, Settings
<1>6. ASSUME ~crossed'
      PROVE  OrderInv'
    <2>1. Idle(Other(task))
        BY <1>1, <1>2, <1>3, <1>6, OtherIsIdle DEF Idle
    <2>2. Idle(Other(task))'
        BY <1>4, <2>1, TheOther DEF Idle
    <2>3. Between(task)' /\ volume' = Head(settings'[task]).to
        BY <1>2, <1>4 DEF Between, Idle
    <2>4. \A any \in Tasks : Between(any)' => any = task
        BY <2>2, TheOther DEF Between
    <2>5. \E any \in Tasks : Idle(any)'
        BY <2>2, TheOther
    <2> QED BY <2>3, <2>4, <2>5 DEF OrderInv
<1>7. OrderInv'
    BY <1>6 DEF OrderInv
<1> QED BY <1>4, <1>5, <1>7 DEF GainInv

LEMMA StoreGainStep ==
    ASSUME GainInv, NEW task \in Tasks, StoreGain(task)
    PROVE  GainInv'
<1> DEFINE to == Head(settings[task]).to
<1>1. StacksInv /\ OrderInv /\ VolumesInv
    BY DEF GainInv
<1>2. At(task, "gain") /\ gain' = Gain(to) /\ crossed' = crossed /\ volume' = volume
      /\ Onward(task, <<>>) /\ saved' = saved /\ appQueue' = appQueue
    BY DEF StoreGain, historyVars
<1>3. settings[task] # <<>> /\ Head(settings[task]).at = 2
    BY <1>1, <1>2, AtPlace
<1>4. /\ StacksInv' /\ settings'[task] # <<>> /\ Head(settings'[task]).at = 3
      /\ \A other \in Tasks \ {task} : settings'[other] = settings[other]
    BY <1>1, <1>2, <1>3, OnwardAlone
<1>5. VolumesInv'
    BY <1>1, <1>2 DEF VolumesInv
<1>6. ASSUME ~crossed'
      PROVE  OrderInv'
    <2>1. Idle(Other(task))
        BY <1>1, <1>2, <1>3, <1>6, OtherIsIdle DEF Idle
    <2>2. Idle(Other(task))'
        BY <1>4, <2>1, TheOther DEF Idle
    <2>3. volume = to
        BY <1>1, <1>2, <1>3, <1>6 DEF OrderInv, Between, Idle
    <2>4. Agree'
        BY <1>2, <2>3 DEF Agree, Gain
    <2>5. \A any \in Tasks : ~Between(any)'
        BY <1>4, <2>2, TheOther DEF Between
    <2>6. \E any \in Tasks : Idle(any)'
        BY <2>2, TheOther
    <2> QED BY <2>4, <2>5, <2>6 DEF OrderInv
<1>7. OrderInv'
    BY <1>6 DEF OrderInv
<1> QED BY <1>4, <1>5, <1>7 DEF GainInv

\* The steps of a setting after its stores.
LEMMA AfterStores ==
    ASSUME GainInv, NEW task \in Tasks, settings[task] # <<>>,
           Head(settings[task]).at # 2,
           StacksInv', settings'[task] # <<>> => Head(settings'[task]).at # 2,
           \A other \in Tasks \ {task} : settings'[other] = settings[other],
           UNCHANGED <<volume, gain, saved, appQueue, crossed>>
    PROVE  GainInv'
<1>1. StacksInv /\ OrderInv /\ VolumesInv
    BY DEF GainInv
<1>2. VolumesInv'
    BY <1>1 DEF VolumesInv
<1>3. ASSUME ~crossed'
      PROVE  OrderInv'
    <2>1. Idle(Other(task))
        BY <1>1, <1>3, OtherIsIdle DEF Idle
    <2>2. Idle(Other(task))'
        BY <2>1, TheOther DEF Idle
    <2>3. ~Between(task) /\ ~Between(task)'
        BY DEF Between, Idle
    <2> QED BY <1>1, <1>3, <2>1, <2>2, <2>3, SettledOrder
<1>4. OrderInv'
    BY <1>3 DEF OrderInv
<1> QED BY <1>2, <1>4 DEF GainInv

LEMMA CallbackStep ==
    ASSUME GainInv, NEW task \in Tasks, Callback(task)
    PROVE  GainInv'
<1>1. StacksInv /\ saved \in Volumes
    BY DEF GainInv, VolumesInv
<1>2. At(task, "callback") /\ Onward(task, Restored(Head(settings[task]).to))
      /\ UNCHANGED <<volume, gain, saved, appQueue, crossed>>
    BY DEF Callback
<1>3. settings[task] # <<>> /\ Head(settings[task]).at = 3
    BY <1>1, <1>2, AtPlace
<1>4. /\ StacksInv' /\ settings'[task] # <<>> /\ Head(settings'[task]).at # 2
      /\ \A other \in Tasks \ {task} : settings'[other] = settings[other]
    BY <1>1, <1>2, <1>3, OnwardNested
<1> QED BY <1>2, <1>3, <1>4, AfterStores

LEMMA TellStep ==
    ASSUME GainInv, NEW task \in Tasks, Tell(task)
    PROVE  GainInv'
<1>1. StacksInv
    BY DEF GainInv
<1>2. At(task, "tell") /\ (Onward(task, <<>>) \/ Done(task))
      /\ UNCHANGED <<volume, gain, saved, appQueue, crossed>>
    BY DEF Tell, historyVars
<1>3. settings[task] # <<>> /\ Head(settings[task]).at = 4
    BY <1>1, <1>2, AtPlace
<1>4. CASE Onward(task, <<>>)
    <2>1. /\ StacksInv' /\ settings'[task] # <<>> /\ Head(settings'[task]).at = 5
          /\ \A other \in Tasks \ {task} : settings'[other] = settings[other]
        BY <1>1, <1>3, <1>4, OnwardAlone
    <2> QED BY <1>2, <1>3, <2>1, AfterStores
<1>5. CASE Done(task)
    <2>1. /\ StacksInv' /\ (settings'[task] # <<>> => Head(settings'[task]).at # 2)
          /\ \A other \in Tasks \ {task} : settings'[other] = settings[other]
        BY <1>1, <1>3, <1>5, DoneLeaves
    <2> QED BY <1>2, <1>3, <2>1, AfterStores
<1> QED BY <1>2, <1>4, <1>5

LEMMA ClearStep ==
    ASSUME GainInv, NEW task \in Tasks, Clear(task)
    PROVE  GainInv'
<1>1. StacksInv
    BY DEF GainInv
<1>2. At(task, "clear") /\ Done(task) /\ UNCHANGED <<volume, gain, saved, appQueue, crossed>>
    BY DEF Clear, historyVars
<1>3. settings[task] # <<>> /\ Head(settings[task]).at = 5
    BY <1>1, <1>2, AtPlace
<1>4. /\ StacksInv' /\ (settings'[task] # <<>> => Head(settings'[task]).at # 2)
      /\ \A other \in Tasks \ {task} : settings'[other] = settings[other]
    BY <1>1, <1>2, <1>3, DoneLeaves
<1> QED BY <1>2, <1>3, <1>4, AfterStores

\* A setting that begins while the other task is in one is crossed; otherwise the gain was
\* that of the volume.
LEMMA BeginStep ==
    ASSUME GainInv, NEW task \in Tasks, Idle(task), NEW v \in Volumes, Begin(task, v),
           UNCHANGED <<volume, gain, saved>>, appQueue' \in Seq(Events)
    PROVE  GainInv'
<1>1. StacksInv /\ OrderInv /\ VolumesInv
    BY DEF GainInv
<1>2. /\ StacksInv' /\ settings'[task] # <<>> /\ Head(settings'[task]).at # 2
      /\ \A other \in Tasks \ {task} : settings'[other] = settings[other]
    BY <1>1, BeginEnters
<1>3. VolumesInv'
    BY <1>1 DEF VolumesInv
<1>4. ASSUME ~crossed'
      PROVE  OrderInv'
    <2>1. ~crossed /\ Idle(Other(task))
        BY <1>4 DEF Begin
    <2>2. Idle(Other(task))'
        BY <1>2, <2>1, TheOther DEF Idle
    <2>3. ~Between(task) /\ ~Between(task)'
        BY <1>2 DEF Between, Idle
    <2> QED BY <1>1, <2>1, <2>2, <2>3, SettledOrder
<1>5. OrderInv'
    BY <1>4 DEF OrderInv
<1> QED BY <1>2, <1>3, <1>5 DEF GainInv

\* What neither sets nor saves a volume.
LEMMA OthersKeepGain ==
    ASSUME GainInv, UNCHANGED <<volume, gain, settings, crossed>>,
           saved' \in Volumes, appQueue' \in Seq(Events)
    PROVE  GainInv'
<1>1. StacksInv'
    BY DEF GainInv, StacksInv
<1>2. VolumesInv'
    BY DEF GainInv, VolumesInv
<1>3. OrderInv'
    BY DEF GainInv, OrderInv, Between, Idle, Agree
<1> QED BY <1>1, <1>2, <1>3 DEF GainInv

(***************************************************************************)
(* The queue of btAppTask.                                                 *)
(***************************************************************************)

LEMMA SendsKeepsGain ==
    ASSUME GainInv, NEW event \in Events, Sends(event)
    PROVE  GainInv'
<1>1. appQueue \in Seq(Events) /\ saved \in Volumes
    BY DEF GainInv, VolumesInv
<1>2. appQueue' = Append(appQueue, event)
      /\ UNCHANGED <<volume, gain, settings, crossed, saved>>
    BY DEF Sends, historyVars
<1>3. appQueue' \in Seq(Events)
    BY <1>1, <1>2
<1> QED BY <1>1, <1>2, <1>3, OthersKeepGain

LEMMA EventsAreEvents ==
    /\ \A kind \in {"connected", "started", "suspended", "register"} : Event(kind) \in Events
    /\ \A v \in PhoneSets : [kind |-> "set", volume |-> v] \in Events
<1>1. ASSUME NEW kind \in {"connected", "started", "suspended", "register"}
      PROVE  Event(kind) \in Events
    <2>1. kind \in Kinds /\ kind # "set"
        BY <1>1 DEF Kinds
    <2> QED BY <2>1 DEF Event, Events, Invalid
<1>2. ASSUME NEW v \in PhoneSets
      PROVE  [kind |-> "set", volume |-> v] \in Events
    <2>1. v \in Volumes
        BY VolumeAssumption DEF Volumes
    <2>2. "set" \in Kinds
        BY DEF Kinds
    <2> QED BY <2>1, <2>2 DEF Events
<1> QED BY <1>1, <1>2

LEMMA PhoneKeepsGain ==
    ASSUME GainInv,
           \/ PhoneConnects \/ PhoneLeaves \/ \E v \in PhoneSets : PhoneSetsVolume(v)
           \/ PhoneStarts \/ PhoneSuspends \/ PhoneRegisters \/ PhoneTakes
    PROVE  GainInv'
<1>1. CASE PhoneConnects
    <2>1. Sends(Event("connected"))
        BY <1>1 DEF PhoneConnects
    <2> QED BY <2>1, EventsAreEvents, SendsKeepsGain
<1>2. CASE \E v \in PhoneSets : PhoneSetsVolume(v)
    <2>1. PICK v \in PhoneSets : Sends([kind |-> "set", volume |-> v])
        BY <1>2 DEF PhoneSetsVolume
    <2> QED BY <2>1, EventsAreEvents, SendsKeepsGain
<1>3. CASE PhoneStarts
    <2>1. Sends(Event("started"))
        BY <1>3 DEF PhoneStarts
    <2> QED BY <2>1, EventsAreEvents, SendsKeepsGain
<1>4. CASE PhoneSuspends
    <2>1. Sends(Event("suspended"))
        BY <1>4 DEF PhoneSuspends
    <2> QED BY <2>1, EventsAreEvents, SendsKeepsGain
<1>5. CASE PhoneRegisters
    <2>1. Sends(Event("register"))
        BY <1>5 DEF PhoneRegisters
    <2> QED BY <2>1, EventsAreEvents, SendsKeepsGain
<1>6. CASE PhoneLeaves \/ PhoneTakes
    <2>1. appQueue \in Seq(Events) /\ saved \in Volumes
        BY DEF GainInv, VolumesInv
    <2>2. UNCHANGED <<volume, gain, settings, crossed, saved, appQueue>>
        BY <1>6 DEF PhoneLeaves, PhoneTakes, historyVars
    <2> QED BY <2>1, <2>2, OthersKeepGain
<1> QED BY <1>1, <1>2, <1>3, <1>4, <1>5, <1>6

LEMMA HandleTakesEvent ==
    ASSUME VolumesInv, NEW kind, Handle(kind)
    PROVE  /\ Idle("bt") /\ UNCHANGED <<volume, gain>>
           /\ Head(appQueue) \in Events /\ Head(appQueue).kind = kind
           /\ appQueue' \in Seq(Events)
<1>1. appQueue \in Seq(Events) /\ appQueue # <<>> /\ appQueue' = Tail(appQueue)
    BY DEF VolumesInv, Handle
<1>2. Head(appQueue) \in Events /\ Tail(appQueue) \in Seq(Events)
    BY <1>1, HeadTailProperties
<1> QED BY <1>1, <1>2 DEF Handle

LEMMA HandlersKeepGain ==
    ASSUME GainInv, HandleEvent
    PROVE  GainInv'
<1>1. VolumesInv /\ volume \in Volumes /\ saved \in Volumes
    BY DEF GainInv, VolumesInv
<1>2. "bt" \in Tasks
    BY DEF Tasks
<1>3. CASE HandleSet
    <2>1. Handle("set") /\ Begin("bt", Head(appQueue).volume) /\ saved' = saved
        BY <1>3 DEF HandleSet
    <2>2. /\ Idle("bt") /\ UNCHANGED <<volume, gain>>
          /\ Head(appQueue) \in Events /\ Head(appQueue).kind = "set"
          /\ appQueue' \in Seq(Events)
        BY <1>1, <2>1, HandleTakesEvent
    <2>3. Head(appQueue).volume \in Volumes
        BY <2>2 DEF Events
    <2> QED BY <1>2, <2>1, <2>2, <2>3, BeginStep
<1>4. CASE HandleStarted
    <2>1. Handle("started") /\ saved' = saved
          /\ (Begin("bt", saved) \/ UNCHANGED <<settings, crossed>>)
        BY <1>4 DEF HandleStarted
    <2>2. /\ Idle("bt") /\ UNCHANGED <<volume, gain>> /\ appQueue' \in Seq(Events)
        BY <1>1, <2>1, HandleTakesEvent
    <2>3. CASE Begin("bt", saved)
        BY <1>1, <1>2, <2>1, <2>2, <2>3, BeginStep
    <2>4. CASE UNCHANGED <<settings, crossed>>
        BY <1>1, <2>1, <2>2, <2>4, OthersKeepGain
    <2> QED BY <2>1, <2>3, <2>4
<1>5. CASE HandleConnected \/ HandleSuspended \/ HandleRegister
    <2>1. PICK kind : Handle(kind)
        BY <1>5 DEF HandleConnected, HandleSuspended, HandleRegister
    <2>2. saved' \in {saved, volume} /\ UNCHANGED <<settings, crossed>>
        BY <1>5 DEF HandleConnected, HandleSuspended, HandleRegister, historyVars
    <2>3. UNCHANGED <<volume, gain>> /\ appQueue' \in Seq(Events)
        BY <1>1, <2>1, HandleTakesEvent
    <2> QED BY <1>1, <2>2, <2>3, OthersKeepGain
<1> QED BY <1>3, <1>4, <1>5 DEF HandleEvent

LEMMA ClickKeepsGain ==
    ASSUME GainInv, Click(Up(volume)) \/ Click(Down(volume))
    PROVE  GainInv'
<1>1. volume \in Volumes /\ appQueue \in Seq(Events)
    BY DEF GainInv, VolumesInv
<1>2. Up(volume) \in Volumes /\ Down(volume) \in Volumes
    BY <1>1, VolumeAssumption DEF Up, Down, Volumes
<1>3. PICK to \in Volumes : Click(to)
    BY <1>2
<1>4. /\ Idle("timer") /\ Begin("timer", to)
      /\ UNCHANGED <<volume, gain, saved, appQueue>>
    BY <1>3 DEF Click
<1>5. "timer" \in Tasks
    BY DEF Tasks
<1> QED BY <1>1, <1>4, <1>5, BeginStep

(***************************************************************************)
(* The theorem.                                                            *)
(***************************************************************************)

LEMMA GainStep ==
    ASSUME GainInv, [VolumeNext]_volumeVars
    PROVE  GainInv'
<1>1. CASE \E task \in Tasks : SettingStep(task)
    BY <1>1, StoreVolumeStep, StoreGainStep, CallbackStep, TellStep, ClearStep DEF SettingStep
<1>2. CASE UNCHANGED volumeVars
    <2>1. appQueue \in Seq(Events) /\ saved \in Volumes
        BY DEF GainInv, VolumesInv
    <2>2. UNCHANGED <<volume, gain, settings, crossed, saved, appQueue>>
        BY <1>2 DEF volumeVars, historyVars
    <2> QED BY <2>1, <2>2, OthersKeepGain
<1>3. CASE \/ PhoneConnects \/ PhoneLeaves \/ \E v \in PhoneSets : PhoneSetsVolume(v)
           \/ PhoneStarts \/ PhoneSuspends \/ PhoneRegisters \/ PhoneTakes
    BY <1>3, PhoneKeepsGain
<1> QED BY <1>1, <1>2, <1>3, HandlersKeepGain, ClickKeepsGain DEF VolumeNext

LEMMA GainInit == VolumeInit => GainInv
<1> SUFFICES ASSUME VolumeInit
             PROVE  GainInv
    OBVIOUS
<1>1. StacksInv
    <2>1. settings = [task \in Tasks |-> <<>>]
        BY DEF VolumeInit
    <2>2. IsStack(<<>>)
        BY DEF IsStack
    <2> QED BY <2>1, <2>2 DEF StacksInv, IsStack
<1>2. VolumesInv
    BY VolumeAssumption DEF VolumeInit, VolumesInv, Volumes
<1>3. OrderInv
    <2>1. \A task \in Tasks : Idle(task)
        BY DEF VolumeInit, Idle
    <2>2. Agree
        BY DEF VolumeInit, Agree
    <2> QED BY <2>1, <2>2 DEF OrderInv, Between, Tasks
<1> QED BY <1>1, <1>2, <1>3 DEF GainInv

\* What is heard is the volume that is told (_volumeSet, _restoreVolume): outside the
\* settings, none of which overlapped, the gain is that of the volume, for every range of
\* volumes, step of the buttons, saved volume and number of inputs.
THEOREM GainFollowed == VolumeSpec => []GainFollows
<1>1. GainInv => GainFollows
    BY DEF GainInv, OrderInv, GainFollows, Between, Agree
<1>2. VolumeSpec => []GainInv
    BY GainInit, GainStep, PTL DEF VolumeSpec
<1> QED BY <1>1, <1>2, PTL

(***************************************************************************)
(* Nobody is muted without having chosen so.                               *)
(***************************************************************************)

\* The volume is stored and the callback is not through.
Stored(task) == ~Idle(task) /\ Head(settings[task]).at \in {2, 3}

\* A restored volume is about to be stored.
Restoring ==
    ~Idle("bt") /\ Head(settings["bt"]).at = 1 /\ Head(settings["bt"]).to # 0

MuteInv ==
    /\ volumeState = IF reported THEN "set" ELSE "notDefined"
    /\ ~crossed =>
        /\ \A task \in Tasks : Stored(task) => volume = Head(settings[task]).to
        /\ Stored("timer") /\ volume = 0 => chosen
        /\ reported /\ saved # 0 /\ ~chosen /\ volume = 0 => Restoring

LEMMA TwoTasks ==
    /\ "bt" \in Tasks /\ "timer" \in Tasks
    /\ Other("bt") = "timer" /\ Other("timer") = "bt"
    /\ \A task \in Tasks : task = "bt" \/ task = "timer"
BY DEF Tasks, Other

LEMMA StoreVolumeMutes ==
    ASSUME GainInv, MuteInv, NEW task \in Tasks, StoreVolume(task)
    PROVE  MuteInv'
<1> DEFINE to == Head(settings[task]).to
<1>1. StacksInv /\ OrderInv
    BY DEF GainInv
<1>2. /\ At(task, "volume") /\ volume' = to /\ crossed' = (crossed /\ ~Idle(Other(task)))
      /\ chosen' = (to = 0 /\ (task = "timer" \/ reported))
      /\ Onward(task, <<>>) /\ UNCHANGED <<volumeState, reported, saved>>
    BY DEF StoreVolume
<1>3. settings[task] # <<>> /\ Head(settings[task]).at = 1
    BY <1>1, <1>2, AtPlace
<1>4. /\ settings'[task] # <<>> /\ Head(settings'[task]).to = to
      /\ \A other \in Tasks \ {task} : settings'[other] = settings[other]
    BY <1>1, <1>2, <1>3, OnwardAlone
<1>5. ASSUME ~crossed'
      PROVE  Idle(Other(task))'
    <2>1. Idle(Other(task))
        BY <1>1, <1>2, <1>3, <1>5, OtherIsIdle DEF Idle
    <2> QED BY <1>4, <2>1, TheOther DEF Idle
<1>6. ASSUME ~crossed', NEW any \in Tasks, Stored(any)'
      PROVE  any = task /\ volume' = Head(settings'[any]).to
    BY <1>2, <1>4, <1>5, <1>6, TheOther DEF Stored
<1>7. ASSUME task = "timer", volume' = 0
      PROVE  chosen'
    BY <1>2, <1>7
<1>8. ASSUME reported', ~chosen'
      PROVE  volume' # 0
    BY <1>2, <1>8
<1>9. volumeState' = IF reported' THEN "set" ELSE "notDefined"
    BY <1>2 DEF MuteInv
<1> QED BY <1>6, <1>7, <1>8, <1>9, TwoTasks DEF MuteInv

\* The steps of a setting between its store and its end, but for the callback.
LEMMA LaterMutes ==
    ASSUME MuteInv, NEW task \in Tasks, Head(settings[task]).at # 1,
           UNCHANGED <<volume, saved, chosen, crossed, reported, volumeState>>,
           \A other \in Tasks \ {task} : settings'[other] = settings[other],
           Stored(task)' =>
               Stored(task) /\ Head(settings'[task]).to = Head(settings[task]).to
    PROVE  MuteInv'
<1>1. \A any \in Tasks : Stored(any)' =>
        Stored(any) /\ Head(settings'[any]).to = Head(settings[any]).to
    BY DEF Stored, Idle
<1>2. ASSUME Restoring
      PROVE  Restoring'
    <2>1. task # "bt"
        BY <1>2 DEF Restoring
    <2>2. settings'["bt"] = settings["bt"]
        BY <2>1, TwoTasks
    <2> QED BY <1>2, <2>2 DEF Restoring, Idle
<1> QED BY <1>1, <1>2, TwoTasks DEF MuteInv

LEMMA StoreGainMutes ==
    ASSUME GainInv, MuteInv, NEW task \in Tasks, StoreGain(task)
    PROVE  MuteInv'
<1>1. StacksInv
    BY DEF GainInv
<1>2. /\ At(task, "gain") /\ Onward(task, <<>>)
      /\ UNCHANGED <<volume, saved, chosen, crossed, reported, volumeState>>
    BY DEF StoreGain, historyVars
<1>3. settings[task] # <<>> /\ Head(settings[task]).at = 2
    BY <1>1, <1>2, AtPlace
<1>4. /\ Head(settings'[task]).to = Head(settings[task]).to
      /\ \A other \in Tasks \ {task} : settings'[other] = settings[other]
    BY <1>1, <1>2, <1>3, OnwardAlone
<1>5. Stored(task)
    BY <1>3 DEF Stored, Idle
<1> QED BY <1>2, <1>3, <1>4, <1>5, LaterMutes

LEMMA CallbackMutes ==
    ASSUME GainInv, MuteInv, NEW task \in Tasks, Callback(task)
    PROVE  MuteInv'
<1> DEFINE to == Head(settings[task]).to
<1>1. StacksInv /\ saved \in Volumes
    BY DEF GainInv, VolumesInv
<1>2. /\ At(task, "callback") /\ Onward(task, Restored(to))
      /\ volumeState' = "set" /\ reported' = TRUE
      /\ UNCHANGED <<volume, saved, chosen, crossed>>
    BY DEF Callback
<1>3. settings[task] # <<>> /\ Head(settings[task]).at = 3
    BY <1>1, <1>2, AtPlace
<1>4. /\ settings'[task] # <<>>
      /\ IF Restored(to) = <<>>
         THEN Head(settings'[task]).at = 4
         ELSE Head(settings'[task]) = Setting(saved) /\ Setting(saved).at = 1 /\ saved # 0
      /\ \A other \in Tasks \ {task} : settings'[other] = settings[other]
    BY <1>1, <1>2, <1>3, OnwardNested
<1>5. \A any \in Tasks : Stored(any)' =>
        Stored(any) /\ Head(settings'[any]).to = Head(settings[any]).to
    BY <1>4 DEF Stored, Idle
<1>6. ASSUME ~crossed', saved' # 0, ~chosen', volume' = 0
      PROVE  Restoring'
    <2>1. Stored(task) /\ to = 0
        BY <1>2, <1>3, <1>6 DEF Stored, Idle, MuteInv
    <2>2. task = "bt"
        BY <1>2, <1>6, <2>1, TwoTasks DEF MuteInv
    <2>3. ~reported
        BY <1>2, <1>3, <1>6, <2>2 DEF MuteInv, Restoring
    <2>4. Restored(to) # <<>>
        BY <1>2, <1>6, <2>1, <2>3 DEF Restored, MuteInv
    <2>5. Head(settings'["bt"]) = Setting(saved) /\ Setting(saved).at = 1 /\ saved # 0
        BY <1>4, <2>2, <2>4
    <2> QED BY <1>4, <2>2, <2>5 DEF Restoring, Idle, Setting
<1> QED BY <1>2, <1>5, <1>6, TwoTasks DEF MuteInv

LEMMA EndMutes ==
    ASSUME GainInv, MuteInv, NEW task \in Tasks, Tell(task) \/ Clear(task)
    PROVE  MuteInv'
<1>1. StacksInv
    BY DEF GainInv
<1>2. /\ At(task, "tell") \/ At(task, "clear")
      /\ (At(task, "tell") /\ Onward(task, <<>>)) \/ Done(task)
      /\ UNCHANGED <<volume, saved, chosen, crossed, reported, volumeState>>
    BY DEF Tell, Clear, historyVars
<1>3. settings[task] # <<>> /\ Head(settings[task]).at \in {4, 5}
    BY <1>1, <1>2, AtPlace
<1>4. CASE At(task, "tell") /\ Onward(task, <<>>)
    <2>1. Head(settings[task]).at = 4
        BY <1>1, <1>4, AtPlace
    <2>2. /\ Head(settings'[task]).at = 5
          /\ \A other \in Tasks \ {task} : settings'[other] = settings[other]
        BY <1>1, <1>3, <1>4, <2>1, OnwardAlone
    <2> QED BY <1>2, <1>3, <2>2, LaterMutes DEF Stored
<1>5. CASE Done(task)
    <2>1. /\ settings'[task] # <<>> => Head(settings'[task]).at \in {4, 5}
          /\ \A other \in Tasks \ {task} : settings'[other] = settings[other]
        BY <1>1, <1>3, <1>5, DoneLeaves
    <2>2. ~Stored(task)'
        BY <2>1 DEF Stored, Idle
    <2> QED BY <1>2, <1>3, <2>1, <2>2, LaterMutes
<1> QED BY <1>2, <1>4, <1>5

\* A setting begins; if it is what first reports on a link, it restores.
LEMMA BeginMutes ==
    ASSUME GainInv, MuteInv, NEW task \in Tasks, Idle(task), NEW v \in Volumes, Begin(task, v),
           UNCHANGED <<volume, saved, chosen>>,
           volumeState' = (IF reported' THEN "set" ELSE "notDefined"),
           reported' = reported \/ (task = "bt" /\ v # 0)
    PROVE  MuteInv'
<1>1. StacksInv
    BY DEF GainInv
<1>2. /\ settings'[task] # <<>>
      /\ Head(settings'[task]) = Setting(v) /\ Setting(v).at = 1
      /\ \A other \in Tasks \ {task} : settings'[other] = settings[other]
    BY <1>1, BeginEnters
<1>3. \A any \in Tasks : Stored(any)' =>
        Stored(any) /\ Head(settings'[any]).to = Head(settings[any]).to
    BY <1>2 DEF Stored, Idle
<1>4. ~crossed' => ~crossed /\ Idle(Other(task))
    BY DEF Begin
<1>5. ASSUME ~crossed', reported', saved' # 0, ~chosen', volume' = 0
      PROVE  Restoring'
    <2>1. Idle("bt")
        BY <1>4, <1>5, TwoTasks
    <2>2. ~(reported' = reported)
        BY <1>4, <1>5, <2>1 DEF MuteInv, Restoring
    <2>3. task = "bt" /\ v # 0
        BY <2>2
    <2> QED BY <1>2, <2>3 DEF Restoring, Idle, Setting
<1> QED BY <1>3, <1>4, <1>5, TwoTasks DEF MuteInv

LEMMA OthersMute ==
    ASSUME MuteInv, UNCHANGED <<volume, settings, crossed, chosen>>,
           saved' \in {saved, volume},
           volumeState' = (IF reported' THEN "set" ELSE "notDefined"),
           reported' /\ saved # 0 => reported
    PROVE  MuteInv'
<1>1. Restoring' = Restoring
    BY DEF Restoring, Idle
<1>2. \A any \in Tasks : Stored(any)' = Stored(any)
    BY DEF Stored, Idle
<1> QED BY <1>1, <1>2, TwoTasks DEF MuteInv

LEMMA HandlersMute ==
    ASSUME GainInv, MuteInv, HandleEvent
    PROVE  MuteInv'
<1>1. VolumesInv /\ volume \in Volumes /\ saved \in Volumes
    BY DEF GainInv, VolumesInv
<1>2. CASE HandleSet
    <2>1. /\ Handle("set") /\ Begin("bt", Head(appQueue).volume)
          /\ UNCHANGED <<saved, chosen, reported, volumeState>>
        BY <1>2 DEF HandleSet
    <2>2. /\ Idle("bt") /\ UNCHANGED <<volume, gain>>
          /\ Head(appQueue) \in Events /\ Head(appQueue).kind = "set"
        BY <1>1, <2>1, HandleTakesEvent
    <2>3. Head(appQueue).volume \in Volumes
        BY <2>2 DEF Events
    <2>4. volumeState' = IF reported' THEN "set" ELSE "notDefined"
        BY <2>1 DEF MuteInv
    <2> QED BY <2>1, <2>2, <2>3, <2>4, BeginMutes, TwoTasks
<1>3. CASE HandleStarted
    <2>1. /\ Handle("started") /\ volumeState' = "set" /\ reported' = TRUE
          /\ UNCHANGED <<saved, chosen>>
        BY <1>3 DEF HandleStarted
    <2>2. Idle("bt") /\ UNCHANGED <<volume, gain>>
        BY <1>1, <2>1, HandleTakesEvent
    <2>3. CASE Restored(Invalid) # <<>>
        <3>1. Begin("bt", saved) /\ saved # 0
            BY <1>3, <2>3 DEF HandleStarted, Restored
        <3> QED BY <1>1, <2>1, <2>2, <3>1, BeginMutes, TwoTasks
    <2>4. CASE Restored(Invalid) = <<>>
        <3>1. UNCHANGED <<settings, crossed>>
            BY <1>3, <2>4 DEF HandleStarted
        <3>2. saved # 0 => reported
            BY <2>4 DEF Restored, MuteInv
        <3> QED BY <2>1, <2>2, <3>1, <3>2, OthersMute
    <2> QED BY <2>3, <2>4
<1>4. CASE HandleConnected
    <2>1. /\ Handle("connected") /\ volumeState' = "notDefined" /\ reported' = FALSE
          /\ UNCHANGED <<saved, settings, crossed, chosen>>
        BY <1>4 DEF HandleConnected, OnConnected
    <2> QED BY <1>1, <2>1, HandleTakesEvent, OthersMute
<1>5. CASE HandleSuspended \/ HandleRegister
    <2>1. PICK kind : Handle(kind)
        BY <1>5 DEF HandleSuspended, HandleRegister
    <2>2. /\ saved' \in {saved, volume}
          /\ UNCHANGED <<settings, crossed, chosen, reported, volumeState>>
        BY <1>5 DEF HandleSuspended, HandleRegister, historyVars
    <2>3. UNCHANGED <<volume, gain>>
        BY <1>1, <2>1, HandleTakesEvent
    <2>4. volumeState' = IF reported' THEN "set" ELSE "notDefined"
        BY <2>2 DEF MuteInv
    <2> QED BY <2>2, <2>3, <2>4, OthersMute
<1> QED BY <1>2, <1>3, <1>4, <1>5 DEF HandleEvent

LEMMA ClicksMute ==
    ASSUME GainInv, MuteInv, Click(Up(volume)) \/ Click(Down(volume))
    PROVE  MuteInv'
<1>1. volume \in Volumes
    BY DEF GainInv, VolumesInv
<1>2. Up(volume) \in Volumes /\ Down(volume) \in Volumes
    BY <1>1, VolumeAssumption DEF Up, Down, Volumes
<1>3. PICK to \in Volumes : Click(to)
    BY <1>2
<1>4. /\ Idle("timer") /\ Begin("timer", to)
      /\ UNCHANGED <<volume, saved, chosen, reported, volumeState>>
    BY <1>3 DEF Click
<1>5. volumeState' = IF reported' THEN "set" ELSE "notDefined"
    BY <1>4 DEF MuteInv
<1> QED BY <1>4, <1>5, BeginMutes, TwoTasks

LEMMA MuteStep ==
    ASSUME GainInv, MuteInv, [VolumeNext]_volumeVars
    PROVE  MuteInv'
<1>1. CASE \E task \in Tasks : SettingStep(task)
    BY <1>1, StoreVolumeMutes, StoreGainMutes, CallbackMutes, EndMutes DEF SettingStep
<1>2. CASE \/ PhoneConnects \/ PhoneLeaves \/ \E v \in PhoneSets : PhoneSetsVolume(v)
           \/ PhoneStarts \/ PhoneSuspends \/ PhoneRegisters \/ PhoneTakes
           \/ UNCHANGED volumeVars
    <2>1. UNCHANGED <<volume, settings, crossed, chosen, saved, reported, volumeState>>
        BY <1>2 DEF PhoneConnects, PhoneLeaves, PhoneSetsVolume, PhoneStarts, PhoneSuspends,
                    PhoneRegisters, PhoneTakes, Sends, volumeVars, historyVars
    <2>2. volumeState' = IF reported' THEN "set" ELSE "notDefined"
        BY <2>1 DEF MuteInv
    <2> QED BY <2>1, <2>2, OthersMute
<1> QED BY <1>1, <1>2, HandlersMute, ClicksMute DEF VolumeNext

LEMMA MuteInit == VolumeInit => MuteInv
<1>1. VolumeInit => Idle("bt") /\ Idle("timer")
    BY TwoTasks DEF VolumeInit, Idle
<1> QED BY <1>1, TwoTasks DEF VolumeInit, MuteInv, Stored

\* The zero-volume fix: no link starts muted by the boot value or a first report of zero
\* (_restoreVolume), for every range of volumes, step of the buttons and saved volume.
THEOREM NobodyIsMuted == VolumeSpec => []NotMuted
<1>1. MuteInv => NotMuted
    BY DEF MuteInv, Restoring, NotMuted
<1>2. VolumeSpec => []GainInv
    BY GainInit, GainStep, PTL DEF VolumeSpec
<1>3. VolumeSpec => []MuteInv
    BY <1>2, MuteInit, MuteStep, PTL DEF VolumeSpec
<1> QED BY <1>1, <1>3, PTL

(***************************************************************************)
(* Only a chosen zero is saved.  The phone suspends what it started on the *)
(* same link, so a volume was reported before anything is saved.           *)
(***************************************************************************)

\* A volume has been reported on the link that the queue ends with.
Fresh == reported /\ \A i \in 1 .. Len(appQueue) : appQueue[i].kind # "connected"

\* One will have been when the first n events have been handled.
ReportedBy(n) == Fresh \/ \E i \in 1 .. n : appQueue[i].kind = "started"

QueueInv ==
    /\ streaming => link
    /\ \A i \in 1 .. Len(appQueue) : appQueue[i].kind = "connected" => i = 1
    /\ \A i \in 1 .. Len(appQueue) : appQueue[i].kind = "suspended" => ReportedBy(i - 1)
    /\ streaming => ReportedBy(Len(appQueue))

\* An event is sent.
LEMMA SendingKeepsOrder ==
    ASSUME appQueue \in Seq(Events), QueueInv, NEW event \in Events, Sends(event),
           event.kind = "connected" => appQueue = <<>> /\ ~link,
           event.kind = "suspended" => streaming,
           streaming' => streaming \/ event.kind = "started",
           streaming' => link'
    PROVE  QueueInv'
<1>1. PICK n \in Nat : n = Len(appQueue)
    BY LenProperties
<1>2. /\ Len(appQueue') = n + 1 /\ appQueue'[n + 1] = event
      /\ \A i \in 1 .. n : appQueue'[i] = appQueue[i]
      /\ reported' = reported
    BY <1>1, AppendProperties DEF Sends, historyVars
<1>3. \A i \in 1 .. n + 1 : i \in 1 .. n \/ i = n + 1
    BY <1>1
<1>4. event.kind = "connected" => n = 0 /\ ~streaming
    BY <1>1, EmptySeq DEF QueueInv
<1>5. /\ \A i \in 1 .. n : appQueue[i].kind = "connected" => i = 1
      /\ \A i \in 1 .. n : appQueue[i].kind = "suspended" => ReportedBy(i - 1)
      /\ streaming => ReportedBy(n)
    BY <1>1 DEF QueueInv
<1>6. ASSUME NEW k \in 0 .. n, ReportedBy(k), event.kind # "connected"
      PROVE  ReportedBy(k)'
    <2>1. CASE Fresh
        BY <1>1, <1>2, <1>3, <1>6, <2>1 DEF ReportedBy, Fresh
    <2>2. CASE \E i \in 1 .. k : appQueue[i].kind = "started"
        <3>1. PICK i \in 1 .. k : appQueue[i].kind = "started"
            BY <2>2
        <3>2. i \in 1 .. n
            BY <1>1
        <3>3. appQueue'[i].kind = "started"
            BY <1>2, <3>1, <3>2
        <3> QED BY <3>3 DEF ReportedBy
    <2> QED BY <1>6, <2>1, <2>2 DEF ReportedBy
<1>7. ASSUME NEW i \in 1 .. n + 1, appQueue'[i].kind = "connected"
      PROVE  i = 1
    <2>1. CASE i = n + 1
        BY <1>1, <1>2, <1>4, <1>7, <2>1
    <2>2. CASE i \in 1 .. n
        BY <1>2, <1>5, <1>7, <2>2
    <2> QED BY <1>3, <2>1, <2>2
<1>8. ASSUME NEW i \in 1 .. n + 1, appQueue'[i].kind = "suspended"
      PROVE  ReportedBy(i - 1)'
    <2>1. CASE i = n + 1
        <3>1. streaming /\ event.kind # "connected" /\ i - 1 = n
            BY <1>1, <1>2, <1>8, <2>1
        <3>2. ReportedBy(n)'
            BY <1>1, <1>5, <1>6, <3>1
        <3> QED BY <3>1, <3>2
    <2>2. CASE i \in 1 .. n
        <3>1. i - 1 \in 0 .. n /\ event.kind # "connected"
            BY <1>1, <1>4, <2>2
        <3>2. ReportedBy(i - 1)
            BY <1>2, <1>5, <1>8, <2>2
        <3> QED BY <1>6, <3>1, <3>2
    <2> QED BY <1>3, <2>1, <2>2
<1>9. ASSUME streaming'
      PROVE  ReportedBy(n + 1)'
    <2>1. CASE event.kind = "started"
        <3>1. n + 1 \in 1 .. n + 1
            BY <1>1
        <3> QED BY <1>2, <2>1, <3>1 DEF ReportedBy
    <2>2. CASE event.kind # "started"
        <3>1. streaming /\ event.kind # "connected"
            BY <1>4, <1>9, <2>2
        <3>2. ReportedBy(n)'
            BY <1>1, <1>5, <1>6, <3>1
        <3> QED BY <1>1, <3>2 DEF ReportedBy
    <2> QED BY <2>1, <2>2
<1> QED BY <1>2, <1>7, <1>8, <1>9 DEF QueueInv

\* An event is handled.
LEMMA HandlingKeepsOrder ==
    ASSUME appQueue \in Seq(Events), QueueInv, NEW kind, Handle(kind),
           kind # "connected" /\ reported => reported',
           kind = "started" => reported'
    PROVE  QueueInv'
<1>1. /\ appQueue # <<>> /\ Head(appQueue) = appQueue[1] /\ appQueue[1].kind = kind
      /\ UNCHANGED <<link, streaming>>
    BY DEF Handle, phoneVars
<1>2. PICK n \in Nat \ {0} : n = Len(appQueue)
    BY <1>1, EmptySeq
<1>3. Len(appQueue') = n - 1 /\ \A i \in 1 .. n - 1 : appQueue'[i] = appQueue[i + 1]
    BY <1>1, <1>2, HeadTailProperties DEF Handle
<1>4. /\ \A i \in 1 .. n : appQueue[i].kind = "connected" => i = 1
      /\ \A i \in 1 .. n : appQueue[i].kind = "suspended" => ReportedBy(i - 1)
      /\ streaming => ReportedBy(n)
    BY <1>2 DEF QueueInv
<1>5. ASSUME Fresh
      PROVE  reported /\ \A i \in 1 .. n : appQueue[i].kind # "connected"
    BY <1>2, <1>5 DEF Fresh
<1>6. \A i \in 1 .. n - 1 : i + 1 \in 1 .. n /\ i + 1 # 1 /\ (i + 1) - 1 = i
    BY <1>2
<1>7. \A i \in 1 .. n - 1 : appQueue'[i].kind # "connected"
    BY <1>3, <1>4, <1>6
<1>8. ASSUME NEW k \in 1 .. n, ReportedBy(k)
      PROVE  ReportedBy(k - 1)'
    <2>1. CASE Fresh
        <3>1. kind # "connected"
            BY <1>1, <1>2, <1>5, <2>1
        <3>2. reported'
            BY <1>5, <2>1, <3>1
        <3> QED BY <1>3, <1>7, <3>2 DEF ReportedBy, Fresh
    <2>2. CASE \E i \in 1 .. k : appQueue[i].kind = "started"
        <3>1. PICK i \in 1 .. k : appQueue[i].kind = "started"
            BY <2>2
        <3>2. CASE i = 1
            <4>1. reported'
                BY <1>1, <3>1, <3>2
            <4> QED BY <1>3, <1>7, <4>1 DEF ReportedBy, Fresh
        <3>3. CASE i # 1
            <4>1. i - 1 \in 1 .. k - 1 /\ i - 1 \in 1 .. n - 1 /\ (i - 1) + 1 = i
                BY <1>2, <3>3
            <4>2. appQueue'[i - 1].kind = "started"
                BY <1>3, <3>1, <4>1
            <4> QED BY <4>1, <4>2 DEF ReportedBy
        <3> QED BY <3>2, <3>3
    <2> QED BY <1>8, <2>1, <2>2 DEF ReportedBy
<1>9. ASSUME NEW i \in 1 .. n - 1, appQueue'[i].kind = "suspended"
      PROVE  ReportedBy(i - 1)'
    <2>1. ReportedBy(i)
        BY <1>3, <1>4, <1>6, <1>9
    <2>2. i \in 1 .. n
        BY <1>2
    <2> QED BY <1>8, <2>1, <2>2
<1>10. streaming' => ReportedBy(n - 1)'
    BY <1>1, <1>2, <1>4, <1>8
<1>11. streaming' => link'
    BY <1>1 DEF QueueInv
<1> QED BY <1>3, <1>7, <1>9, <1>10, <1>11 DEF QueueInv

\* What neither sends nor takes an event.
LEMMA OthersKeepOrder ==
    ASSUME QueueInv, UNCHANGED appQueue, reported => reported',
           streaming' => streaming /\ link'
    PROVE  QueueInv'
<1>1. Fresh => Fresh'
    BY DEF Fresh
<1>2. \A k : ReportedBy(k) => ReportedBy(k)'
    BY <1>1 DEF ReportedBy
<1> QED BY <1>2 DEF QueueInv

LEMMA OrderStep ==
    ASSUME GainInv, QueueInv, [VolumeNext]_volumeVars
    PROVE  QueueInv'
<1>1. appQueue \in Seq(Events)
    BY DEF GainInv, VolumesInv
<1>2. CASE PhoneConnects
    <2>1. Sends(Event("connected")) /\ appQueue = <<>> /\ ~link /\ streaming' = streaming
        BY <1>2 DEF PhoneConnects
    <2>2. Event("connected").kind = "connected"
        BY DEF Event
    <2> QED BY <1>1, <2>1, <2>2, EventsAreEvents, SendingKeepsOrder DEF QueueInv
<1>3. ASSUME NEW v \in PhoneSets, PhoneSetsVolume(v)
      PROVE  QueueInv'
    <2>1. /\ Sends([kind |-> "set", volume |-> v])
          /\ UNCHANGED <<link, streaming>>
        BY <1>3 DEF PhoneSetsVolume
    <2> QED BY <1>1, <2>1, EventsAreEvents, SendingKeepsOrder DEF QueueInv
<1>4. CASE PhoneStarts
    <2>1. Sends(Event("started")) /\ link' /\ Event("started").kind = "started"
        BY <1>4 DEF PhoneStarts, Event
    <2> QED BY <1>1, <2>1, EventsAreEvents, SendingKeepsOrder
<1>5. CASE PhoneSuspends
    <2>1. /\ Sends(Event("suspended")) /\ streaming /\ ~streaming'
          /\ Event("suspended").kind = "suspended"
        BY <1>5 DEF PhoneSuspends, Event
    <2> QED BY <1>1, <2>1, EventsAreEvents, SendingKeepsOrder
<1>6. CASE PhoneRegisters
    <2>1. /\ Sends(Event("register")) /\ UNCHANGED <<link, streaming>>
          /\ Event("register").kind = "register"
        BY <1>6 DEF PhoneRegisters, Event
    <2> QED BY <1>1, <2>1, EventsAreEvents, SendingKeepsOrder DEF QueueInv
<1>7. CASE PhoneLeaves
    <2>1. UNCHANGED <<appQueue, reported>> /\ ~streaming'
        BY <1>7 DEF PhoneLeaves, historyVars
    <2> QED BY <2>1, OthersKeepOrder
<1>8. CASE \/ PhoneTakes \/ Click(Up(volume)) \/ Click(Down(volume)) \/ UNCHANGED volumeVars
    <2>1. UNCHANGED <<appQueue, reported, link, streaming>>
        BY <1>8 DEF PhoneTakes, Click, volumeVars, historyVars, phoneVars
    <2> QED BY <2>1, OthersKeepOrder DEF QueueInv
<1>9. ASSUME NEW task \in Tasks, SettingStep(task)
      PROVE  QueueInv'
    <2>1. UNCHANGED <<appQueue, link, streaming>> /\ (reported => reported')
        BY <1>9 DEF SettingStep, StoreVolume, StoreGain, Callback, Tell, Clear, historyVars,
                    phoneVars
    <2> QED BY <2>1, OthersKeepOrder DEF QueueInv
<1>10. CASE HandleEvent
    <2>1. PICK kind :
            /\ Handle(kind)
            /\ kind # "connected" /\ reported => reported'
            /\ kind = "started" => reported'
        <3>1. CASE HandleConnected
            BY <3>1 DEF HandleConnected
        <3>2. CASE HandleSet
            <4>1. Handle("set") /\ reported' = reported
                BY <3>2 DEF HandleSet
            <4> QED BY <4>1
        <3>3. CASE HandleStarted
            BY <3>3 DEF HandleStarted
        <3>4. CASE HandleSuspended
            <4>1. Handle("suspended") /\ reported' = reported
                BY <3>4 DEF HandleSuspended, historyVars
            <4> QED BY <4>1
        <3>5. CASE HandleRegister
            <4>1. Handle("register") /\ reported' = reported
                BY <3>5 DEF HandleRegister
            <4> QED BY <4>1
        <3> QED BY <1>10, <3>1, <3>2, <3>3, <3>4, <3>5 DEF HandleEvent
    <2> QED BY <1>1, <2>1, HandlingKeepsOrder
<1> QED BY <1>2, <1>3, <1>4, <1>5, <1>6, <1>7, <1>8, <1>9, <1>10 DEF VolumeNext

LEMMA OrderInit == VolumeInit => QueueInv
BY DEF VolumeInit, QueueInv

\* What is saved as the stream suspends (_saveVolume) is no zero that nobody chose, so the
\* zero-volume fix is turned off by nobody's mistake.
THEOREM OnlyChosenZeroIsSaved == VolumeSpec => ZeroSavedIsChosen
<1>1. ASSUME GainInv, MuteInv, QueueInv, [VolumeNext]_volumeVars, saved # 0, saved' = 0
      PROVE  chosen \/ crossed
    <2>1. HandleSuspended
        BY <1>1 DEF VolumeNext, PhoneConnects, PhoneLeaves, PhoneSetsVolume, PhoneStarts,
                    PhoneSuspends, PhoneRegisters, PhoneTakes, Sends, SettingStep, StoreVolume,
                    StoreGain, Callback, Tell, Clear, Click, HandleEvent, HandleConnected,
                    HandleSet, HandleStarted, HandleRegister, volumeVars
    <2>2. /\ Idle("bt") /\ volume = 0 /\ appQueue \in Seq(Events) /\ appQueue # <<>>
          /\ Head(appQueue) = appQueue[1] /\ appQueue[1].kind = "suspended"
        BY <1>1, <2>1 DEF HandleSuspended, Handle, GainInv, VolumesInv
    <2>3. 1 \in 1 .. Len(appQueue)
        BY <2>2, EmptySeq
    <2>4. ReportedBy(0)
        BY <1>1, <2>2, <2>3 DEF QueueInv
    <2>5. reported
        BY <2>4 DEF ReportedBy, Fresh
    <2> QED BY <1>1, <2>2, <2>5 DEF MuteInv, Restoring
<1>2. VolumeSpec => [](GainInv /\ MuteInv /\ QueueInv)
    BY GainInit, GainStep, MuteInit, MuteStep, OrderInit, OrderStep, PTL DEF VolumeSpec
<1>3. GainInv /\ MuteInv /\ QueueInv /\ [VolumeNext]_volumeVars
        => [saved # 0 /\ saved' = 0 => chosen \/ crossed]_volumeVars
    BY <1>1
<1> QED BY <1>2, <1>3, PTL DEF VolumeSpec, ZeroSavedIsChosen

(***************************************************************************)
(* Types.  GainInv has those of what settings are made of; here the rest,  *)
(* with the range of the gain's curve.                                     *)
(***************************************************************************)

LEMMA CubesGrow ==
    ASSUME NEW v \in Volumes
    PROVE  /\ v * v * v \in Nat /\ MaxVolume * MaxVolume * MaxVolume \in Nat \ {0}
           /\ v * v * v <= MaxVolume * MaxVolume * MaxVolume
<1> DEFINE M == MaxVolume
<1>1. v \in Nat /\ M \in Nat \ {0} /\ v <= M
    BY VolumeAssumption DEF Volumes
<1> HIDE DEF M
<1>2. v * v \in Nat /\ M * M \in Nat \ {0} /\ v * v <= M * M
    BY <1>1
<1>3. v * v * v \in Nat /\ M * M * M \in Nat \ {0}
    BY <1>1, <1>2
<1> DEFINE a == v * v
           b == M * M
<1>4. a \in Nat /\ b \in Nat /\ a <= b
    BY <1>2
<1> HIDE DEF a, b
<1>5. a * v <= b * v
    BY <1>1, <1>4
<1>6. b * v <= b * M
    BY <1>1, <1>4
<1>7. a * v <= b * M
    BY <1>1, <1>4, <1>5, <1>6
<1> QED BY <1>3, <1>7 DEF a, b, M

LEMMA RoundedFits ==
    ASSUME NEW a \in Nat, NEW b \in Nat \ {0}, a <= b, NEW u \in Nat
    PROVE  (2 * a * u + b) \div (2 * b) \in 0 .. u
<1> DEFINE y == 2 * b
           x == 2 * a * u + b
           q == x \div y
<1>1. a * u \in Nat /\ b * u \in Nat /\ a * u <= b * u
    OBVIOUS
<1>2. y \in Nat \ {0} /\ x \in Nat /\ x < y * u + y
    <2>1. 2 * a * u = 2 * (a * u) /\ y * u = 2 * (b * u)
        OBVIOUS
    <2> QED BY <1>1, <2>1
<1> HIDE DEF x, y
<1>3. q \in Int /\ q * y <= x /\ x < (q + 1) * y
    BY <1>2
<1> HIDE DEF q
<1>4. q >= 0
    BY <1>2, <1>3
<1>5. q <= u
    <2> SUFFICES ASSUME q > u
                 PROVE  FALSE
        BY <1>3
    <2> DEFINE d == q - (u + 1)
    <2>1. d \in Nat /\ q = d + (u + 1)
        BY <1>3
    <2> HIDE DEF d
    <2>2. d * y \in Nat
        BY <1>2, <2>1
    <2>3. q * y = d * y + (u + 1) * y /\ (u + 1) * y = y * u + y
        BY <1>2, <2>1
    <2>4. y * u \in Nat
        BY <1>2
    <2> QED BY <1>2, <1>3, <2>2, <2>3, <2>4
<1>6. q \in 0 .. u
    BY <1>3, <1>4, <1>5
<1> QED BY <1>6 DEF q, x, y

\* The gain's curve does not leave its range (compute_volume_gain_q15).
LEMMA GainFits ==
    ASSUME NEW v \in Volumes
    PROVE  Gain(v) \in 0 .. Unity
<1> DEFINE a == v * v * v
           b == MaxVolume * MaxVolume * MaxVolume
<1>1. a \in Nat /\ b \in Nat \ {0} /\ a <= b
    BY CubesGrow
<1>2. Gain(v) = (2 * a * Unity + b) \div (2 * b)
    <2>1. v \in Nat /\ MaxVolume \in Nat
        BY VolumeAssumption DEF Volumes
    <2>2. 2 * v * v * v * Unity = 2 * a * Unity /\ 2 * MaxVolume * MaxVolume * MaxVolume = 2 * b
        BY <2>1
    <2> QED BY <2>2 DEF Gain
<1> HIDE DEF a, b
<1>3. Unity \in Nat
    BY DEF Unity
<1> QED BY <1>1, <1>2, <1>3, RoundedFits

Replies == [kind : {"interim", "changed"}, volume : Volumes]
Flags == {notify, link, streaming, crossed, reported, chosen, missed}

RestTyped ==
    /\ phoneVolume \in Volumes
    /\ gain \in 0 .. Unity
    /\ Flags \subseteq BOOLEAN
    /\ volumeState \in {"notDefined", "set"}
    /\ awaits \in {"nothing", "interim", "changed"}
    /\ toPhone \in Seq(Replies)
    /\ inputs \in 0 .. MaxInputs

LEMMA TypesTogether == GainInv /\ RestTyped => VolumeTypeOK
<1> SUFFICES ASSUME GainInv, RestTyped
             PROVE  VolumeTypeOK
    OBVIOUS
<1>1. \A task \in Tasks :
        /\ settings[task] \in Seq([to : Volumes, at : 1 .. Len(StepOrder)])
        /\ Len(settings[task]) <= 2
    <2>1. Len(StepOrder) = 5
        BY DEF StepOrder
    <2> QED BY <2>1 DEF GainInv, StacksInv, IsStack, Settings
<1>2. appQueue \in Seq([kind : {"connected", "set", "started", "suspended", "register"},
                        volume : Volumes \cup {Invalid}])
    <2> DEFINE All == [kind : Kinds, volume : Volumes \cup {Invalid}]
    <2>1. appQueue \in Seq(Events)
        BY DEF GainInv, VolumesInv
    <2>2. appQueue \in [1 .. Len(appQueue) -> Events] /\ Len(appQueue) \in Nat
        BY <2>1, LenProperties
    <2>3. Events \subseteq All
        BY DEF Events
    <2> HIDE DEF All
    <2>4. appQueue \in [1 .. Len(appQueue) -> All]
        BY <2>2, <2>3
    <2>5. appQueue \in Seq(All)
        BY <2>1, <2>2, <2>4
    <2> QED BY <2>5 DEF All, Kinds
<1>3. volume \in Volumes /\ saved \in Volumes
    BY DEF GainInv, VolumesInv
<1> QED BY <1>1, <1>2, <1>3 DEF VolumeTypeOK, RestTyped, Flags, Replies

LEMMA RepliesAreTyped ==
    ASSUME toPhone \in Seq(Replies), volume \in Volumes
    PROVE  \A kind \in {"interim", "changed"} : Answers(kind) => toPhone' \in Seq(Replies)
<1>1. \A kind \in {"interim", "changed"} : [kind |-> kind, volume |-> volume] \in Replies
    BY DEF Replies
<1> QED BY <1>1, AppendProperties DEF Answers

LEMMA RestStep ==
    ASSUME GainInv, RestTyped, [VolumeNext]_volumeVars
    PROVE  RestTyped'
<1>1. /\ phoneVolume \in Volumes /\ gain \in 0 .. Unity
      /\ notify \in BOOLEAN /\ link \in BOOLEAN /\ streaming \in BOOLEAN
      /\ crossed \in BOOLEAN /\ reported \in BOOLEAN /\ chosen \in BOOLEAN /\ missed \in BOOLEAN
      /\ volumeState \in {"notDefined", "set"}
      /\ awaits \in {"nothing", "interim", "changed"}
      /\ toPhone \in Seq(Replies) /\ inputs \in 0 .. MaxInputs
    BY DEF RestTyped, Flags
<1>2. volume \in Volumes /\ saved \in Volumes /\ StacksInv
    BY DEF GainInv, VolumesInv
<1>3. Input => inputs' \in 0 .. MaxInputs
    BY <1>1, VolumeAssumption DEF Input
<1>4. PhoneSets \subseteq Volumes
    BY VolumeAssumption DEF Volumes
<1>5. CASE PhoneConnects \/ (\E v \in PhoneSets : PhoneSetsVolume(v)) \/ PhoneStarts
             \/ PhoneSuspends \/ PhoneRegisters
    <2> USE DEF Sends, historyVars, RestTyped, Flags
    <2>1. CASE PhoneConnects
        BY <1>1, <1>3, <1>4, <2>1 DEF PhoneConnects
    <2>2. ASSUME NEW v \in PhoneSets, PhoneSetsVolume(v) PROVE RestTyped'
        BY <1>1, <1>3, <1>4, <2>2 DEF PhoneSetsVolume
    <2>3. CASE PhoneStarts
        BY <1>1, <1>3, <2>3 DEF PhoneStarts
    <2>4. CASE PhoneSuspends
        BY <1>1, <1>3, <2>4 DEF PhoneSuspends
    <2>5. CASE PhoneRegisters
        BY <1>1, <1>3, <2>5 DEF PhoneRegisters
    <2> QED BY <1>5, <2>1, <2>2, <2>3, <2>4, <2>5
<1>6. CASE PhoneLeaves
    BY <1>1, <1>6, EmptySeq DEF PhoneLeaves, historyVars, RestTyped, Flags
<1>7. CASE PhoneTakes
    <2>1. /\ toPhone' \in Seq(Replies) /\ Head(toPhone) \in Replies
          /\ UNCHANGED <<gain, notify, volumeState, link, streaming, historyVars, inputs>>
        BY <1>1, <1>7, HeadTailProperties DEF PhoneTakes
    <2>2. Head(toPhone).volume \in Volumes
        BY <2>1 DEF Replies
    <2>3. phoneVolume' \in Volumes /\ awaits' \in {"nothing", "interim", "changed"}
        BY <1>1, <1>7, <2>2 DEF PhoneTakes
    <2> QED BY <1>1, <2>1, <2>3 DEF historyVars, RestTyped, Flags
<1>8. ASSUME NEW task \in Tasks, StoreVolume(task)
      PROVE  RestTyped'
    <2>1. chosen' \in BOOLEAN /\ crossed' \in BOOLEAN
        BY <1>8 DEF StoreVolume
    <2> QED BY <1>1, <1>8, <2>1 DEF StoreVolume, phoneVars, RestTyped, Flags
<1>9. ASSUME NEW task \in Tasks, StoreGain(task)
      PROVE  RestTyped'
    <2>1. Head(settings[task]) \in Settings
        BY <1>2, <1>9, AtPlace DEF StoreGain
    <2>2. gain' \in 0 .. Unity
        BY <1>9, <2>1, GainFits DEF StoreGain, Settings
    <2> QED BY <1>1, <1>9, <2>2 DEF StoreGain, phoneVars, historyVars, RestTyped, Flags
<1>10. ASSUME NEW task \in Tasks, Callback(task)
       PROVE  RestTyped'
    BY <1>1, <1>10 DEF Callback, phoneVars, RestTyped, Flags
<1>11. ASSUME NEW task \in Tasks, Tell(task) \/ Clear(task)
       PROVE  RestTyped'
    <2>1. toPhone' \in Seq(Replies) /\ notify' \in BOOLEAN
        BY <1>1, <1>2, <1>11, RepliesAreTyped DEF Tell, Clear
    <2>2. UNCHANGED <<gain, volumeState, phoneVars, historyVars, inputs>>
        BY <1>11 DEF Tell, Clear
    <2> QED BY <1>1, <2>1, <2>2 DEF phoneVars, historyVars, RestTyped, Flags
<1>12. \A task \in Tasks : \A v : Begin(task, v) => crossed' \in BOOLEAN
    BY DEF Begin
<1>13. CASE Click(Up(volume)) \/ Click(Down(volume))
    <2>1. crossed' \in BOOLEAN /\ inputs' \in 0 .. MaxInputs
        BY <1>3, <1>12, <1>13, TwoTasks DEF Click
    <2>2. UNCHANGED <<gain, notify, volumeState, phoneVars, toPhone, reported, chosen, missed>>
        BY <1>13 DEF Click
    <2> QED BY <1>1, <2>1, <2>2 DEF phoneVars, RestTyped, Flags
<1>14. CASE HandleEvent
    <2>1. UNCHANGED <<gain, phoneVars, inputs>>
        BY <1>14 DEF HandleEvent, HandleConnected, HandleSet, HandleStarted, HandleSuspended,
                     HandleRegister, Handle
    <2>2. /\ crossed' \in BOOLEAN /\ reported' \in BOOLEAN /\ notify' \in BOOLEAN
          /\ missed' \in BOOLEAN /\ chosen' \in BOOLEAN
          /\ volumeState' \in {"notDefined", "set"} /\ toPhone' \in Seq(Replies)
        <3>1. CASE HandleConnected
            BY <1>1, <3>1 DEF HandleConnected, OnConnected
        <3>2. CASE HandleSet
            BY <1>1, <1>12, <3>2, TwoTasks DEF HandleSet
        <3>3. CASE HandleStarted
            <4>1. crossed' \in BOOLEAN
                BY <1>1, <1>12, <3>3, TwoTasks DEF HandleStarted
            <4> QED BY <1>1, <3>3, <4>1 DEF HandleStarted
        <3>4. CASE HandleSuspended
            BY <1>1, <3>4 DEF HandleSuspended, historyVars
        <3>5. CASE HandleRegister
            <4>1. toPhone' \in Seq(Replies)
                BY <1>1, <1>2, <3>5, RepliesAreTyped DEF HandleRegister
            <4>2. missed' \in BOOLEAN
                BY <3>5 DEF HandleRegister, At
            <4> QED BY <1>1, <3>5, <4>1, <4>2 DEF HandleRegister
        <3> QED BY <1>14, <3>1, <3>2, <3>3, <3>4, <3>5 DEF HandleEvent
    <2> QED BY <1>1, <2>1, <2>2 DEF phoneVars, RestTyped, Flags
<1>15. CASE UNCHANGED volumeVars
    BY <1>1, <1>15 DEF volumeVars, phoneVars, historyVars, RestTyped, Flags
<1> QED BY <1>5, <1>6, <1>7, <1>8, <1>9, <1>10, <1>11, <1>13, <1>14, <1>15
        DEF VolumeNext, SettingStep

LEMMA RestInit == VolumeInit => RestTyped
<1> SUFFICES ASSUME VolumeInit
             PROVE  RestTyped
    OBVIOUS
<1>1. phoneVolume \in Volumes /\ inputs \in 0 .. MaxInputs
    BY VolumeAssumption DEF VolumeInit, Volumes
<1>2. gain \in 0 .. Unity
    BY DEF VolumeInit, Unity
<1>3. toPhone \in Seq(Replies)
    BY EmptySeq DEF VolumeInit
<1> QED BY <1>1, <1>2, <1>3 DEF VolumeInit, RestTyped, Flags

\* No volume leaves its range, nor the gain its own, and no task is ever in more than two
\* settings: a volume that was restored is not restored again.
THEOREM VolumeTypeCorrect == VolumeSpec => []VolumeTypeOK
<1>1. VolumeSpec => [](GainInv /\ RestTyped)
    BY GainInit, GainStep, RestInit, RestStep, PTL DEF VolumeSpec
<1> QED BY <1>1, TypesTogether, PTL

=============================================================================
