------------------------ MODULE KindleDisplayProofs -------------------------
(***************************************************************************)
(* What an operation on the panel promises, for every set of stories,      *)
(* genres, pictures and displays.                                          *)
(***************************************************************************)
EXTENDS KindleDisplay, LayoutProofs, SequenceTheorems

-----------------------------------------------------------------------------
(* The size of the panel.                                                   *)

SizeInv == size \in Displays \cup {None}

\* Every size the device may be given is one the frames fit.
LEMMA DisplaysFit == Displays \subseteq Fitting
<1>1. SUFFICES ASSUME NEW d \in Displays PROVE d \in Fitting
  OBVIOUS
<1>2. Wide(d.w, d.h)
  BY DisplayAssumption DEF Wide
<1> QED
  BY <1>2, StoryOnPanel, LabelsOnPanel, DashboardOnPanel, ClockOnPanel DEF Fitting

LEMMA SizeStep == SizeInv /\ [Next]_vars => SizeInv'
<1> SUFFICES ASSUME SizeInv, [Next]_vars PROVE SizeInv'
  OBVIOUS
<1>1. UNCHANGED size \/ size' \in Displays
  BY DEF Next, vars, Start, Stop, IsRunning, Paint, Clear, Tick, Begin, Command, CommandFails,
         Cancelled, GivesUp, Late, DisplaySize, Serif, StoryImage, StoryFallback, Backdrop, Draw,
         RemoveFile, Next1
<1> QED
  BY <1>1 DEF SizeInv

\* Whatever size the panel has, and whenever it is asked for, the frames are laid out for it
\* with no region off the panel, a pixel thin, or over the next one (displaySizeContext).
THEOREM LaidOut == Spec => []RegionsFit
<1>1. Init => SizeInv
  BY DEF Init, SizeInv
<1>2. SizeInv => RegionsFit
  BY DisplaysFit DEF SizeInv, RegionsFit
<1> QED
  BY <1>1, <1>2, SizeStep, PTL DEF Spec

-----------------------------------------------------------------------------
(* The commands that are left to do.                                        *)

Commands == UNION {ToSet(Script[o]) : o \in DOMAIN Script}

\* Every script keeps to one order.
Rank(c) ==
  CASE c = "rotate" -> 1 [] c = "clear" -> 2 [] c = "light" -> 3 [] c = "dark" -> 4
    [] c = "size" -> 5 [] c = "backdrop" -> 6 [] c = "image" -> 7 [] c = "fallback" -> 8
    [] c = "draw" -> 9 [] c = "remove" -> 10 [] c = "serif" -> 11 [] OTHER -> 12

Ordered(s) == \A i, j \in DOMAIN s : i < j => Rank(s[i]) < Rank(s[j])

LEMMA Scripts ==
  /\ DOMAIN Script = Frames \cup {"clear", "start", "stop"}
  /\ ToSet(Script["clock"]) = {"rotate", "clear", "light", "size", "text"}
  /\ ToSet(Script["genre"]) = {"rotate", "clear", "light", "size", "backdrop", "draw", "remove",
                               "serif", "text"}
  /\ ToSet(Script["story"]) = {"rotate", "clear", "light", "size", "image", "fallback", "draw",
                               "remove", "text"}
  /\ ToSet(Script["alert"]) = {"clear", "text"}
  /\ ToSet(Script["clear"]) = {"clear"}
  /\ ToSet(Script["start"]) = {"rotate", "clear", "light"}
  /\ ToSet(Script["stop"]) = {"clear", "dark"}
<1>1. DOMAIN Script = Frames \cup {"clear", "start", "stop"}
  BY DEF Script, Frames
<1>2. ToSet(Script["clock"]) = {"rotate", "clear", "light", "size", "text"}
  BY DEF Script, ToSet
<1>3. ToSet(Script["genre"]) = {"rotate", "clear", "light", "size", "backdrop", "draw", "remove",
                               "serif", "text"}
  BY DEF Script, ToSet
<1>4. ToSet(Script["story"]) = {"rotate", "clear", "light", "size", "image", "fallback", "draw",
                               "remove", "text"}
  BY DEF Script, ToSet
<1>5. ToSet(Script["alert"]) = {"clear", "text"}
  BY DEF Script, ToSet
<1>6. ToSet(Script["clear"]) = {"clear"}
  BY DEF Script, ToSet
<1>7. ToSet(Script["start"]) = {"rotate", "clear", "light"}
  BY DEF Script, ToSet
<1>8. ToSet(Script["stop"]) = {"clear", "dark"}
  BY DEF Script, ToSet
<1> QED
  BY <1>1, <1>2, <1>3, <1>4, <1>5, <1>6, <1>7, <1>8

LEMMA ScriptsOrdered ==
  \A o \in DOMAIN Script : Script[o] \in Seq(Commands) /\ Ordered(Script[o])
<1>1. \A o \in DOMAIN Script : Ordered(Script[o])
  BY DEF Script, Ordered, Rank
<1>2. \A o \in DOMAIN Script : Script[o] \in Seq(Commands)
  BY DEF Script, Commands, ToSet
<1> QED
  BY <1>1, <1>2

\* Doing the first command takes it, and none of an earlier rank, from those left.
LEMMA TailOf ==
  ASSUME NEW s \in Seq(Commands), s # <<>>, Ordered(s)
  PROVE  /\ Tail(s) \in Seq(Commands) /\ Ordered(Tail(s))
         /\ Head(s) \in ToSet(s)
         /\ ToSet(Tail(s)) = ToSet(s) \ {Head(s)}
         /\ \A c \in ToSet(s) : c = Head(s) \/ Rank(Head(s)) < Rank(c)
<1>1. /\ Len(s) \in Nat \ {0} /\ DOMAIN s = 1..Len(s) /\ Head(s) = s[1]
      /\ Tail(s) \in Seq(Commands) /\ Len(Tail(s)) = Len(s) - 1
      /\ \A i \in 1..Len(s) - 1 : Tail(s)[i] = s[i + 1]
  OBVIOUS
<1>2. DOMAIN Tail(s) = 1..Len(s) - 1
  <2>1. \A r \in Seq(Commands) : DOMAIN r = 1..Len(r)
    OBVIOUS
  <2>2. DOMAIN Tail(s) = 1..Len(Tail(s))
    BY <1>1, <2>1, Zenon
  <2> QED
    BY <1>1, <2>2, Zenon
<1>3. Ordered(Tail(s))
  BY <1>1, <1>2 DEF Ordered
<1>4. \A c \in ToSet(s) : c = Head(s) \/ Rank(Head(s)) < Rank(c)
  BY <1>1 DEF ToSet, Ordered
<1>5. \A c \in ToSet(Tail(s)) : c \in ToSet(s) /\ c # Head(s)
  <2>1. SUFFICES ASSUME NEW i \in 1..Len(s) - 1
                 PROVE  s[i + 1] \in ToSet(s) /\ s[i + 1] # s[1]
    BY <1>1, <1>2 DEF ToSet
  <2>2. i + 1 \in DOMAIN s /\ 1 \in DOMAIN s /\ 1 < i + 1
    BY <1>1
  <2>3. Rank(s[1]) < Rank(s[i + 1]) /\ Rank(s[1]) \in Int
    BY <2>2 DEF Ordered, Rank
  <2> QED
    BY <2>2, <2>3 DEF ToSet
<1>6. \A c \in ToSet(s) : c = Head(s) \/ c \in ToSet(Tail(s))
  <2>1. SUFFICES ASSUME NEW i \in 1..Len(s), i # 1 PROVE s[i] \in ToSet(Tail(s))
    BY <1>1 DEF ToSet
  <2>2. i - 1 \in 1..Len(s) - 1 /\ (i - 1) + 1 = i
    BY <1>1, <2>1
  <2>3. Tail(s)[i - 1] = s[(i - 1) + 1]
    BY <1>1, <2>2
  <2> QED
    BY <1>2, <2>2, <2>3 DEF ToSet
<1>7. Head(s) \in ToSet(s)
  BY <1>1 DEF ToSet
<1> QED
  BY <1>1, <1>3, <1>4, <1>5, <1>6, <1>7

-----------------------------------------------------------------------------
(* The frames.                                                              *)

Left == ToSet(todo)

\* What is left are commands of the operation, in their order.
WorkInv ==
  /\ todo \in Seq(Commands) /\ Ordered(todo)
  /\ file \in [{"genre", "story"} -> Images \cup {None, Torn}]
  /\ late \in Effects \cup {None, Landed}
  /\ job \in Jobs \cup {Idle}
  /\ job = Idle => todo = <<>>
  /\ job # Idle => Left \subseteq ToSet(Script[job.op])
  /\ job # Idle /\ job.op \in Frames /\ "clear" \in Left => "text" \in Left

Lights == {"clock", "genre", "story", "start"}

Pictures == {l \in panel : l.what = "picture"}
Mine(j) == {Text(j, "white"), Text(j, "black")} \cup {Picture(k) : k \in Own(j) \ {None}}

\* What the commands of the operation have done, those that are no longer left.
Painted ==
  /\ job.op \in Lights /\ "rotate" \notin Left => horizontal
  /\ job.op \in Lights /\ "light" \notin Left => lit
  /\ "clear" \notin Left => panel \subseteq Mine(job) /\ (job.op \notin Frames => panel = {})
  /\ job.op \in Frames /\ "text" \notin Left =>
       Text(job, "white") \in panel \/ Text(job, "black") \in panel
  /\ image = "drawn" => "clear" \notin Left /\ Pictures # {}
  /\ image = "ready" /\ "draw" \in Left => file[job.op] \in Own(job) \ {None}
  /\ "image" \in Left \/ "backdrop" \in Left => image = "none"
  /\ job.op = "story" /\ "clear" \notin Left /\ Text(job, "white") \in panel => Pictures # {}
  /\ job.op = "stop" /\ "dark" \notin Left => ~lit

FrameInv == WorkInv /\ (job # Idle /\ ~disturbed => Painted)

\* What the commands that are left say of the operation.
LEMMA Belongs ==
  ASSUME WorkInv, job # Idle
  PROVE  /\ job \in Jobs /\ job.op \in Frames \cup {"clear", "start", "stop"}
         /\ "rotate" \in Left \/ "light" \in Left => job.op \in Lights
         /\ "dark" \in Left => job.op = "stop"
         /\ "image" \in Left \/ "fallback" \in Left => job.op = "story"
         /\ "backdrop" \in Left \/ "serif" \in Left => job.op = "genre"
         /\ "draw" \in Left \/ "remove" \in Left => job.op \in {"genre", "story"}
         /\ "text" \in Left => job.op \in Frames
<1>1. job \in Jobs /\ job.op \in DOMAIN Script
  BY DEF WorkInv, Jobs
<1>2. Left \subseteq ToSet(Script[job.op]) /\ job.op \in Frames \cup {"clear", "start", "stop"}
  BY <1>1, Scripts DEF WorkInv
<1> QED
  BY <1>1, <1>2, Scripts DEF Frames, Lights

\* An operation that begins has everything to do.
LEMMA Beginning ==
  ASSUME NEW j \in Jobs, Begin(j), WorkInv
  PROVE  FrameInv'
<1>1. j.op \in DOMAIN Script /\ j # Idle
  BY Scripts DEF Jobs, Idle, Frames
<1>2. job' = j /\ todo' = Script[j.op] /\ image' = "none" /\ ~disturbed' /\ Left' = ToSet(Script[j.op])
  BY DEF Begin, Left
<1>3. /\ "clear" \in Left'
      /\ j.op \in Lights => "rotate" \in Left' /\ "light" \in Left'
      /\ j.op \in Frames => "text" \in Left'
      /\ j.op = "stop" => "dark" \in Left'
  BY <1>1, <1>2, Scripts DEF Frames, Lights
<1>4. WorkInv'
  BY <1>1, <1>2, <1>3, ScriptsOrdered DEF WorkInv, Begin, device
<1>5. Painted'
  BY <1>2, <1>3 DEF Painted
<1> QED
  BY <1>4, <1>5 DEF FrameInv

\* The subject of a frame, and the pictures that are its own.
LEMMA SubjectOf ==
  ASSUME NEW j \in Jobs
  PROVE  /\ j.op = "story" => /\ j.of \in Stories /\ Asset[Genre[j.of]] \in Images
                              /\ Image[j.of] \in Images \cup {None}
                              /\ Own(j) = {Image[j.of], Asset[Genre[j.of]]}
         /\ j.op = "genre" => /\ j.of \in Genres /\ Asset[j.of] \in Images
                              /\ Own(j) = {Asset[j.of]}
         /\ \A k \in Images : k # None
<1>1. j.op = "story" => j.of \in Stories
  BY DEF Jobs, Subjects, Script
<1>2. j.op = "genre" => j.of \in Genres
  BY DEF Jobs, Subjects, Script
<1> QED
  BY <1>1, <1>2, DisplayAssumption DEF Own

\* Whatever a command does, files and the effect that is still to come keep their types.
LEMMA Typed ==
  ASSUME WorkInv, NEW e \in Effects,
         Does(e) \/ UNCHANGED file, late' \in {late, e, Landed}
  PROVE  /\ file' \in [{"genre", "story"} -> Images \cup {None, Torn}]
         /\ late' \in Effects \cup {None, Landed}
<1>1. late' \in Effects \cup {None, Landed}
  BY DEF WorkInv
<1>2. CASE UNCHANGED file
  BY <1>1, <1>2 DEF WorkInv
<1>3. CASE Does(e)
  <2>1. e.do = "write" => e.with \in Images \cup {None, Torn}
    BY DEF Effects, Plain, Add, Paste, Write, Needed
  <2> QED
    BY <1>1, <1>3, <2>1 DEF WorkInv, Does
<1> QED
  BY <1>2, <1>3

\* The first command is taken from those left, before those of a later rank.
LEMMA Stepping ==
  ASSUME WorkInv, NEW c, todo # <<>>, Head(todo) = c,
         todo' = Tail(todo), job' = job,
         file' \in [{"genre", "story"} -> Images \cup {None, Torn}],
         late' \in Effects \cup {None, Landed}
  PROVE  /\ WorkInv' /\ job # Idle
         /\ c \in Left /\ Left' = Left \ {c}
         /\ \A d \in Left : d = c \/ Rank(c) < Rank(d)
<1>1. job # Idle /\ todo \in Seq(Commands) /\ Ordered(todo)
  BY DEF WorkInv
<1>2. /\ todo' \in Seq(Commands) /\ Ordered(todo')
      /\ c \in Left /\ Left' = Left \ {c}
      /\ \A d \in Left : d = c \/ Rank(c) < Rank(d)
  BY <1>1, TailOf DEF Left
<1>3. "clear" \in Left' => c # "text"
  BY <1>2 DEF Rank
<1> QED
  BY <1>1, <1>2, <1>3 DEF WorkInv

\* An operation that has given up promises nothing.
LEMMA GivingUp ==
  ASSUME WorkInv, GivesUp,
         file' \in [{"genre", "story"} -> Images \cup {None, Torn}],
         late' \in Effects \cup {None, Landed}
  PROVE  FrameInv'
  BY DEF GivesUp, FrameInv, WorkInv, Ordered, Left, ToSet

LEMMA EffectsOf ==
  ASSUME NEW c \in Needed, job \in Jobs
  PROVE  Effect(c) \in Effects /\ Effect("text") \in Effects
  BY DEF Effect, Effects, Layers, Ink, Needed

\* Commands that fail.
LEMMA FailingKeeps ==
  ASSUME FrameInv, CommandFails \/ Cancelled
  PROVE  FrameInv'
<1>1. CASE Cancelled
  BY <1>1, GivingUp DEF FrameInv, Cancelled, WorkInv, device
<1>2. CASE CommandFails
  <2>1. PICK c \in Needed : At(c) /\ Fails(Effect(c)) /\ GivesUp
    BY <1>2 DEF CommandFails
  <2>2. WorkInv /\ job \in Jobs
    BY <2>1 DEF FrameInv, WorkInv, At
  <2>3. Effect(c) \in Effects
    BY <2>2, EffectsOf
  <2>4. (Does(Effect(c)) \/ UNCHANGED file) /\ late' \in {late, Effect(c), Landed}
    BY <2>1 DEF Fails, device
  <2> QED
    BY <2>1, <2>2, <2>3, <2>4, Typed, GivingUp
<1> QED
  BY <1>1, <1>2

\* The text of a frame: white where the picture is on the panel, or it is a label.
LEMMA TextKeeps ==
  ASSUME WorkInv, Painted, job \in Jobs, job.op \in Frames, "clear" \notin Left,
         panel' = panel \cup {Text(job, Ink)}, horizontal' <=> horizontal, lit' <=> lit,
         file' = file, image' = image, job' = job,
         Left' \subseteq Left, Left \ Left' \subseteq {"serif", "text"}
  PROVE  Painted'
<1>1. job.op # "stop" /\ job.op # "start"
  BY DEF Frames
<1>2. /\ panel' \subseteq Mine(job)
      /\ Text(job, "white") \in panel' \/ Text(job, "black") \in panel'
  BY DEF Painted, Mine, Ink
<1>3. Pictures # {} => Pictures' # {}
  BY DEF Pictures
<1>4. job.op = "story" /\ Text(job, "white") \in panel' => Pictures # {}
  BY DEF Painted, Ink, Text
<1> QED
  BY <1>1, <1>2, <1>3, <1>4 DEF Painted

\* What each of these commands does.
LEMMA DoesWhat ==
  ASSUME NEW c \in Needed, Does(Effect(c))
  PROVE  /\ horizontal' <=> horizontal \/ c = "rotate"
         /\ lit' <=> c = "light" \/ (lit /\ c # "dark")
         /\ panel' = IF c = "clear" THEN {}
                     ELSE IF c = "text" THEN panel \cup {Text(job, Ink)} ELSE panel
<1>1. CASE c = "text"
  <2>1. Effect(c) = [do |-> "add", on |-> None, with |-> Text(job, Ink)]
    BY <1>1 DEF Effect, Add
  <2>2. Effect(c).do = "add" /\ Effect(c).with = Text(job, Ink)
    BY <2>1
  <2> HIDE DEF Effect
  <2> QED
    BY <1>1, <2>2 DEF Does
<1>2. CASE c # "text"
  <2>1. Effect(c) = [do |-> c, on |-> None, with |-> None]
    BY <1>2 DEF Effect, Plain
  <2>2. Effect(c).do = c
    BY <2>1
  <2> QED
    BY <1>2, <2>2 DEF Does, Needed
<1> QED
  BY <1>1, <1>2

\* A command that changes the panel and succeeds: one step for each of them.
LEMMA CommandKeeps ==
  ASSUME FrameInv, Command
  PROVE  FrameInv'
<1>1. PICK c \in Needed : /\ At(c) /\ Does(Effect(c)) /\ late' = late
                          /\ todo' = Tail(todo) /\ job' = job /\ image' = image
  BY DEF Command, Succeeds
<1>2. WorkInv /\ todo # <<>> /\ Head(todo) = c /\ disturbed' = disturbed /\ job \in Jobs
  BY <1>1 DEF FrameInv, WorkInv, At
<1>3. /\ file' \in [{"genre", "story"} -> Images \cup {None, Torn}]
      /\ late' \in Effects \cup {None, Landed}
  BY <1>1, <1>2, EffectsOf, Typed
<1>4. /\ WorkInv' /\ job # Idle /\ c \in Left /\ Left' = Left \ {c}
      /\ \A d \in Left : d = c \/ Rank(c) < Rank(d)
  BY <1>1, <1>2, <1>3, Stepping
<1>5. SUFFICES ASSUME Painted PROVE Painted'
  BY <1>1, <1>2, <1>4 DEF FrameInv
<1>6. file' = file
  BY <1>1 DEF Does, Effect, Plain, Add, Needed
<1>7. CASE c = "rotate"
  <2>1. horizontal' /\ (lit' <=> lit) /\ panel' = panel
    BY <1>1, <1>7, DoesWhat
  <2> QED
    BY <1>1, <1>4, <1>5, <1>6, <1>7, <2>1 DEF Painted, Pictures
<1>8. CASE c = "clear"
  <2>1. (horizontal' <=> horizontal) /\ (lit' <=> lit) /\ panel' = {}
    BY <1>1, <1>8, DoesWhat
  <2>2. image # "drawn" /\ (job.op \in Frames => "text" \in Left)
    BY <1>2, <1>4, <1>5, <1>8 DEF Painted, WorkInv
  <2> QED
    BY <1>1, <1>4, <1>5, <1>6, <1>8, <2>1, <2>2 DEF Painted, Pictures
<1>9. CASE c = "light"
  <2>1. (horizontal' <=> horizontal) /\ lit' /\ panel' = panel
    BY <1>1, <1>9, DoesWhat
  <2>2. job.op \in Lights
    BY <1>2, <1>4, <1>9, Belongs
  <2> QED
    BY <1>1, <1>4, <1>5, <1>6, <1>9, <2>1, <2>2 DEF Painted, Pictures, Lights
<1>10. CASE c = "dark"
  <2>1. (horizontal' <=> horizontal) /\ ~lit' /\ panel' = panel
    BY <1>1, <1>10, DoesWhat
  <2>2. job.op = "stop"
    BY <1>2, <1>4, <1>10, Belongs
  <2> QED
    BY <1>1, <1>4, <1>5, <1>6, <1>10, <2>1, <2>2 DEF Painted, Pictures, Lights
<1>11. CASE c = "text"
  <2>1. /\ (horizontal' <=> horizontal) /\ (lit' <=> lit) /\ panel' = panel \cup {Text(job, Ink)}
    BY <1>1, <1>11, DoesWhat
  <2>2. "clear" \notin Left
    BY <1>4, <1>11 DEF Rank
  <2>3. job.op \in Frames
    BY <1>2, <1>4, <1>11, Belongs
  <2> QED
    BY <1>1, <1>2, <1>4, <1>5, <1>6, <1>11, <2>1, <2>2, <2>3, TextKeeps
<1> QED
  BY <1>7, <1>8, <1>9, <1>10, <1>11 DEF Needed

\* What a command for the picture must see to.
LEMMA PictureKeeps ==
  ASSUME Painted, NEW c \in {"size", "image", "fallback", "backdrop", "draw", "remove", "serif"},
         Left' = Left \ {c}, job' = job, horizontal' <=> horizontal, lit' <=> lit,
         \/ panel' = panel
         \/ /\ job.op \in Frames
            /\ \E k \in Own(job) \ {None} : panel' = panel \cup {Picture(k)},
         image' = "drawn" => "clear" \notin Left /\ Pictures' # {},
         image' = "ready" /\ "draw" \in Left' => file'[job.op] \in Own(job) \ {None},
         "image" \in Left' \/ "backdrop" \in Left' => image' = "none"
  PROVE  Painted'
<1>1. /\ "rotate" \in Left' <=> "rotate" \in Left
      /\ "light" \in Left' <=> "light" \in Left
      /\ "clear" \in Left' <=> "clear" \in Left
      /\ "text" \in Left' <=> "text" \in Left
      /\ "dark" \in Left' <=> "dark" \in Left
  OBVIOUS
<1>2. Pictures # {} => Pictures' # {}
  BY DEF Pictures
<1>3. \A k, ink : Text(job, ink) # Picture(k) \/ job.op = "picture"
  BY DEF Text, Picture
<1>4. Text(job, "white") \in panel' /\ job.op = "story" => Text(job, "white") \in panel
  BY <1>3
<1>5. "clear" \notin Left => panel' \subseteq Mine(job) /\ (job.op \notin Frames => panel' = {})
  BY DEF Painted, Mine
<1> QED
  BY <1>1, <1>2, <1>4, <1>5 DEF Painted

\* What an upload and the removal of a file do, and what nothing does.
LEMMA DoesWrite ==
  ASSUME NEW f, NEW x, Does(Write(f, x))
  PROVE  /\ (horizontal' <=> horizontal) /\ (lit' <=> lit) /\ panel' = panel
         /\ file' = [file EXCEPT ![f] = x]
<1>1. Write(f, x).do = "write" /\ Write(f, x).on = f /\ Write(f, x).with = x
  BY DEF Write
<1>2. horizontal' = (horizontal \/ FALSE) /\ lit' = (FALSE \/ (lit /\ TRUE)) /\ panel' = panel
  BY <1>1 DEF Does
<1>3. file' = [file EXCEPT ![f] = x]
  BY <1>1 DEF Does
<1> QED
  BY <1>2, <1>3

LEMMA DoesPaste ==
  ASSUME NEW f, file[f] # None, Does(Paste(f))
  PROVE  (horizontal' <=> horizontal) /\ (lit' <=> lit) /\ panel' = panel \cup {Picture(file[f])}
<1>1. Paste(f).do = "paste" /\ Paste(f).on = f
  BY DEF Paste
<1>2. panel' = panel \cup {Picture(file[f])}
  BY <1>1 DEF Does
<1>3. horizontal' = (horizontal \/ FALSE) /\ lit' = (FALSE \/ (lit /\ TRUE))
  BY <1>1 DEF Does
<1> QED
  BY <1>2, <1>3

LEMMA DeviceKept ==
  ASSUME UNCHANGED device
  PROVE  /\ (horizontal' <=> horizontal) /\ (lit' <=> lit) /\ panel' = panel /\ file' = file
  BY DEF device

\* The image of a frame is none until it is uploaded, and its file then its own until it is drawn.
LEMMA UploadKeeps ==
  ASSUME FrameInv, NEW c \in {"image", "fallback", "backdrop"}, Next1(c),
         NEW k \in Own(job) \ {None}, Upload(k), Painted => image = "none"
  PROVE  FrameInv'
<1>1. /\ WorkInv /\ todo # <<>> /\ Head(todo) = c /\ todo' = Tail(todo) /\ job' = job
      /\ disturbed' = disturbed /\ job # Idle
  BY DEF FrameInv, Next1, At, WorkInv
<1>2. c \in Left
  BY <1>1, TailOf DEF Left, WorkInv
<1>3. job \in Jobs /\ job.op \in {"genre", "story"} /\ k \in Images
  BY <1>1, <1>2, Belongs, SubjectOf
<1>4. \A x \in {Torn, k} : Write(job.op, x) \in Effects
  BY <1>3 DEF Effects
<1>5. /\ file' \in [{"genre", "story"} -> Images \cup {None, Torn}]
      /\ late' \in Effects \cup {None, Landed}
  <2>1. CASE Succeeds(Write(job.op, k))
    BY <1>1, <1>4, <2>1, Typed DEF Succeeds
  <2>2. CASE \E x \in {Torn, k} : Fails(Write(job.op, x))
    <3>1. PICK x \in {Torn, k} : Fails(Write(job.op, x))
      BY <2>2
    <3> QED
      BY <1>1, <1>4, <3>1, Typed DEF Fails, device
  <2> QED
    BY <2>1, <2>2 DEF Upload
<1>6. /\ WorkInv' /\ Left' = Left \ {c}
      /\ \A d \in Left : d = c \/ Rank(c) < Rank(d)
  BY <1>1, <1>5, Stepping
<1>7. \A x : Does(Write(job.op, x)) =>
        /\ (horizontal' <=> horizontal) /\ (lit' <=> lit) /\ panel' = panel
        /\ file' = [file EXCEPT ![job.op] = x]
  BY DoesWrite
<1>8. (horizontal' <=> horizontal) /\ (lit' <=> lit) /\ panel' = panel
  <2>1. (\E x \in {Torn, k} : Does(Write(job.op, x))) \/ UNCHANGED device
    BY DEF Upload, Succeeds, Fails
  <2> QED
    BY <1>7, <2>1, DeviceKept
<1>9. Painted => image' = "none" \/ (image' = "ready" /\ file'[job.op] = k)
  BY <1>1, <1>3, <1>7 DEF Upload, Succeeds, WorkInv
<1>10. "image" \notin Left' /\ "backdrop" \notin Left'
  <2>1. job.op = "genre" => "image" \notin Left
    BY <1>1, Belongs
  <2>2. job.op = "story" => "backdrop" \notin Left
    BY <1>1, Belongs
  <2>3. c = "backdrop" => job.op = "genre"
    BY <1>1, <1>2, Belongs
  <2>4. c # "backdrop" => job.op = "story"
    BY <1>1, <1>2, Belongs
  <2>5. c = "fallback" => "image" \notin Left
    BY <1>6 DEF Rank
  <2> QED
    BY <1>6, <2>1, <2>2, <2>3, <2>4, <2>5
<1>11. Painted => Painted'
  <2> SUFFICES ASSUME Painted PROVE Painted'
    OBVIOUS
  <2> QED
    BY <1>1, <1>6, <1>8, <1>9, <1>10, PictureKeeps
<1> QED
  BY <1>1, <1>6, <1>11 DEF FrameInv

\* A step that is left out, or finds nothing to do.
LEMMA SkipKeeps ==
  ASSUME FrameInv, NEW c \in {"size", "image", "fallback", "backdrop", "draw", "remove"},
         At(c), todo' = Tail(todo), job' = job, image' = image, UNCHANGED device, late' = late
  PROVE  FrameInv'
<1>1. WorkInv /\ todo # <<>> /\ Head(todo) = c /\ disturbed' = disturbed
  BY DEF FrameInv, At
<1>2. (horizontal' <=> horizontal) /\ (lit' <=> lit) /\ panel' = panel /\ file' = file
  BY DeviceKept
<1>3. WorkInv' /\ Left' = Left \ {c} /\ job # Idle
  BY <1>1, <1>2, Stepping DEF WorkInv
<1>4. Painted => Painted'
  <2> SUFFICES ASSUME Painted PROVE Painted'
    OBVIOUS
  <2>1. /\ image = "drawn" => "clear" \notin Left /\ Pictures' # {}
        /\ image = "ready" /\ "draw" \in Left' => file'[job.op] \in Own(job) \ {None}
        /\ "image" \in Left' \/ "backdrop" \in Left' => image = "none"
    BY <1>2, <1>3 DEF Painted, Pictures
  <2> QED
    BY <1>2, <1>3, <2>1, PictureKeeps
<1> QED
  BY <1>1, <1>3, <1>4 DEF FrameInv

\* The pictures: an upload or none.
LEMMA PicturesKeep ==
  ASSUME FrameInv, StoryImage \/ StoryFallback \/ Backdrop
  PROVE  FrameInv'
<1>1. WorkInv
  BY DEF FrameInv
<1>2. \A c : Next1(c) => /\ At(c) /\ todo' = Tail(todo) /\ job' = job /\ todo # <<>> /\ Head(todo) = c
                        /\ c \in Left /\ job # Idle /\ disturbed' = disturbed
  BY <1>1, TailOf DEF Next1, At, WorkInv, Left
<1>3. Skip => UNCHANGED device /\ image' = image /\ late' = late
  BY DEF Skip
<1>4. \A k : Offer(k) => Upload(k) \/ Skip
  BY DEF Offer
<1>5. CASE StoryImage
  <2>1. Next1("image") /\ job.op = "story" /\ job \in Jobs
    BY <1>1, <1>2, <1>5, Belongs DEF StoryImage
  <2>2. CASE Skip
    BY <1>2, <1>3, <2>1, <2>2, SkipKeeps
  <2>3. CASE Upload(Image[job.of]) /\ Image[job.of] # None
    <3>1. Painted => image = "none"
      BY <1>2, <2>1 DEF Painted
    <3>2. Image[job.of] \in Own(job) \ {None}
      BY <2>1, <2>3, SubjectOf
    <3> QED
      BY <2>1, <2>3, <3>1, <3>2, UploadKeeps
  <2> QED
    BY <1>4, <1>5, <2>2, <2>3 DEF StoryImage
<1>6. CASE StoryFallback
  <2>1. Next1("fallback") /\ job.op = "story" /\ job \in Jobs
    BY <1>1, <1>2, <1>6, Belongs DEF StoryFallback
  <2>2. CASE Skip
    BY <1>2, <1>3, <2>1, <2>2, SkipKeeps
  <2>3. CASE Upload(Asset[Genre[job.of]]) /\ image = "none"
    <3>1. Asset[Genre[job.of]] \in Own(job) \ {None}
      BY <2>1, SubjectOf
    <3> QED
      BY <2>1, <2>3, <3>1, UploadKeeps
  <2> QED
    BY <1>4, <1>6, <2>2, <2>3 DEF StoryFallback
<1>7. CASE Backdrop
  <2>1. Next1("backdrop") /\ job.op = "genre" /\ job \in Jobs
    BY <1>1, <1>2, <1>7, Belongs DEF Backdrop
  <2>2. CASE Skip
    BY <1>2, <1>3, <2>1, <2>2, SkipKeeps
  <2>3. CASE Upload(Asset[job.of])
    <3>1. Painted => image = "none"
      BY <1>2, <2>1 DEF Painted
    <3>2. Asset[job.of] \in Own(job) \ {None}
      BY <2>1, SubjectOf
    <3> QED
      BY <2>1, <2>3, <3>1, <3>2, UploadKeeps
  <2> QED
    BY <1>7, <2>2, <2>3 DEF Backdrop
<1> QED
  BY <1>5, <1>6, <1>7

\* The picture is drawn from the file that holds it, after the panel was cleared; a draw that
\* fails with its effect leaves the same.
LEMMA DrawKeeps ==
  ASSUME FrameInv, Draw
  PROVE  FrameInv'
<1>1. /\ WorkInv /\ At("draw") /\ todo # <<>> /\ Head(todo) = "draw" /\ todo' = Tail(todo)
      /\ job' = job /\ disturbed' = disturbed /\ job # Idle
  BY DEF FrameInv, Draw, Next1, At, WorkInv
<1>2. "draw" \in Left
  BY <1>1, TailOf DEF Left, WorkInv
<1>3. job \in Jobs /\ job.op \in {"genre", "story"} /\ job.op \in Frames
  BY <1>1, <1>2, Belongs DEF Frames
<1>4. CASE ~Uploaded
  <2>1. UNCHANGED device /\ image' = image /\ late' = late
    BY <1>4 DEF Draw
  <2> QED
    BY <1>1, <2>1, SkipKeeps
<1>5. CASE Uploaded
  <2>1. Paste(job.op) \in Effects
    BY <1>3 DEF Effects
  <2>2. /\ Does(Paste(job.op)) \/ UNCHANGED device
        /\ late' \in {late, Paste(job.op), Landed}
        /\ image' = "ready" \/ (image' = "drawn" /\ Does(Paste(job.op)) /\ file[job.op] # None)
    BY <1>5 DEF Draw, Succeeds, Fails, Uploaded
  <2>3. /\ file' \in [{"genre", "story"} -> Images \cup {None, Torn}]
        /\ late' \in Effects \cup {None, Landed}
    BY <1>1, <2>1, <2>2, DeviceKept, Typed
  <2>4. /\ WorkInv' /\ Left' = Left \ {"draw"}
        /\ \A d \in Left : d = "draw" \/ Rank("draw") < Rank(d)
    BY <1>1, <2>3, Stepping
  <2>5. "clear" \notin Left /\ "image" \notin Left /\ "backdrop" \notin Left
    BY <2>4 DEF Rank
  <2>6. Painted => Painted'
    <3> SUFFICES ASSUME Painted PROVE Painted'
      OBVIOUS
    <3>1. file[job.op] \in Own(job) \ {None}
      BY <1>2, <1>5 DEF Painted, Uploaded
    <3>2. Does(Paste(job.op)) =>
            /\ (horizontal' <=> horizontal) /\ (lit' <=> lit)
            /\ panel' = panel \cup {Picture(file[job.op])}
      BY <3>1, DoesPaste
    <3>3. /\ (horizontal' <=> horizontal) /\ (lit' <=> lit)
          /\ panel' = panel \/ panel' = panel \cup {Picture(file[job.op])}
      BY <2>2, <3>2, DeviceKept
    <3>4. image' = "drawn" => Pictures' # {}
      <4>1. image' = "drawn" => Picture(file[job.op]) \in panel'
        BY <2>2, <3>2
      <4>2. Picture(file[job.op]).what = "picture"
        BY DEF Picture
      <4> QED
        BY <4>1, <4>2 DEF Pictures
    <3> QED
      BY <1>1, <1>3, <2>4, <2>5, <3>1, <3>3, <3>4, PictureKeeps
  <2> QED
    BY <1>1, <2>4, <2>6 DEF FrameInv
<1> QED
  BY <1>4, <1>5

\* Its file is removed when it is no longer needed.
LEMMA RemoveKeeps ==
  ASSUME FrameInv, RemoveFile
  PROVE  FrameInv'
<1>1. /\ WorkInv /\ At("remove") /\ todo # <<>> /\ Head(todo) = "remove" /\ todo' = Tail(todo)
      /\ job' = job /\ disturbed' = disturbed /\ job # Idle /\ image' = image
  BY DEF FrameInv, RemoveFile, Next1, At, WorkInv
<1>2. "remove" \in Left
  BY <1>1, TailOf DEF Left, WorkInv
<1>3. job \in Jobs /\ job.op \in {"genre", "story"}
  BY <1>1, <1>2, Belongs
<1>4. Write(job.op, None) \in Effects
  BY <1>3 DEF Effects
<1>5. /\ Does(Write(job.op, None)) \/ UNCHANGED device
      /\ late' \in {late, Write(job.op, None), Landed}
  BY DEF RemoveFile, Succeeds, Fails
<1>6. /\ file' \in [{"genre", "story"} -> Images \cup {None, Torn}]
      /\ late' \in Effects \cup {None, Landed}
  BY <1>1, <1>4, <1>5, DeviceKept, Typed
<1>7. /\ WorkInv' /\ Left' = Left \ {"remove"}
      /\ \A d \in Left : d = "remove" \/ Rank("remove") < Rank(d)
  BY <1>1, <1>6, Stepping
<1>8. (horizontal' <=> horizontal) /\ (lit' <=> lit) /\ panel' = panel
  BY <1>5, DoesWrite, DeviceKept
<1>9. Painted => Painted'
  <2> SUFFICES ASSUME Painted PROVE Painted'
    OBVIOUS
  <2>1. "draw" \notin Left
    BY <1>7 DEF Rank
  <2>2. /\ image = "drawn" => "clear" \notin Left /\ Pictures' # {}
        /\ "image" \in Left' \/ "backdrop" \in Left' => image = "none"
    BY <1>7, <1>8 DEF Painted, Pictures
  <2> QED
    BY <1>1, <1>7, <1>8, <2>1, <2>2, PictureKeeps
<1> QED
  BY <1>1, <1>7, <1>9 DEF FrameInv

\* The label of a genre in its first font.
LEMMA SerifKeeps ==
  ASSUME FrameInv, Serif
  PROVE  FrameInv'
<1>1. /\ WorkInv /\ todo # <<>> /\ Head(todo) = "serif" /\ job # Idle
      /\ job' = job /\ disturbed' = disturbed /\ image' = image
  BY DEF FrameInv, Serif, At, WorkInv
<1>2. /\ "serif" \in Left /\ ToSet(Tail(todo)) = Left \ {"serif"}
      /\ \A d \in Left : d = "serif" \/ Rank("serif") < Rank(d)
  BY <1>1, TailOf DEF Left, WorkInv
<1>3. job \in Jobs /\ job.op = "genre" /\ job.op \in Frames
  BY <1>1, <1>2, Belongs DEF Frames
<1>4. Left \subseteq {"serif", "text"}
  <2>1. Left \subseteq ToSet(Script["genre"])
    BY <1>1, <1>3 DEF WorkInv
  <2>2. \A d \in ToSet(Script["genre"]) : Rank("serif") < Rank(d) => d = "text"
    BY Scripts DEF Rank
  <2> QED
    BY <1>2, <2>1, <2>2
<1>5. "text" \in Needed /\ Effect("text") \in Effects
  BY <1>3, EffectsOf DEF Needed
<1>6. Does(Effect("text")) =>
        /\ (horizontal' <=> horizontal) /\ (lit' <=> lit)
        /\ panel' = panel \cup {Text(job, Ink)} /\ file' = file
  BY <1>5, DoesWhat DEF Does, Effect, Add
<1>7. /\ Does(Effect("text")) \/ UNCHANGED device
      /\ late' \in {late, Effect("text"), Landed}
      /\ \/ todo' = <<>> /\ Does(Effect("text"))
         \/ todo' = Tail(todo)
  BY DEF Serif, Succeeds, Fails
<1>8. /\ file' \in [{"genre", "story"} -> Images \cup {None, Torn}]
      /\ late' \in Effects \cup {None, Landed}
  BY <1>1, <1>5, <1>7, DeviceKept, Typed
<1>9. WorkInv' /\ Left' \subseteq Left /\ Left \ Left' \subseteq {"serif", "text"}
  <2>1. CASE todo' = Tail(todo)
    BY <1>1, <1>2, <1>4, <1>8, <2>1, Stepping
  <2>2. CASE todo' = <<>>
    <3>1. Left' = {}
      BY <2>2 DEF Left, ToSet
    <3>2. todo' \in Seq(Commands) /\ Ordered(todo')
      BY <2>2 DEF Ordered
    <3> QED
      BY <1>1, <1>4, <1>8, <2>2, <3>1, <3>2 DEF WorkInv
  <2> QED
    BY <1>7, <2>1, <2>2
<1>10. Painted => Painted'
  <2> SUFFICES ASSUME Painted PROVE Painted'
    OBVIOUS
  <2>1. CASE Does(Effect("text"))
    BY <1>1, <1>4, <1>3, <1>6, <1>9, <2>1, TextKeeps
  <2>2. CASE UNCHANGED device /\ todo' = Tail(todo)
    <3>1. (horizontal' <=> horizontal) /\ (lit' <=> lit) /\ panel' = panel
      BY <2>2, DeviceKept
    <3>2. Left' = Left \ {"serif"}
      BY <1>2, <2>2 DEF Left
    <3>3. /\ image = "drawn" => "clear" \notin Left /\ Pictures' # {}
          /\ "draw" \notin Left /\ "image" \notin Left /\ "backdrop" \notin Left
      BY <1>4, <3>1 DEF Painted, Pictures
    <3> QED
      BY <1>1, <3>1, <3>2, <3>3, PictureKeeps
  <2> QED
    BY <1>7, <2>1, <2>2
<1> QED
  BY <1>1, <1>9, <1>10 DEF FrameInv

\* What is asked or begun between the commands.
LEMMA OthersKeep ==
  ASSUME FrameInv,
         Start \/ Stop \/ IsRunning \/ Paint \/ Clear \/ Tick \/ Late \/ DisplaySize \/ UNCHANGED vars
  PROVE  FrameInv'
<1>1. WorkInv
  BY DEF FrameInv
<1>2. \A o \in DOMAIN Script : \A x \in Subjects[o] : [op |-> o, of |-> x] \in Jobs
  BY DEF Jobs
<1>3. \A o \in {"start", "stop", "clear"} : [op |-> o, of |-> None] \in Jobs
  BY <1>2, Scripts DEF Subjects
<1>4. CASE Stop \/ Clear
  BY <1>1, <1>3, <1>4, Beginning DEF Stop, Clear
<1>5. CASE Paint
  BY <1>1, <1>2, <1>5, Beginning, Scripts DEF Paint
<1>6. CASE Start
  <2>1. CASE lit
    <3>1. /\ job' = Idle /\ todo' = <<>> /\ file' = file /\ late' = late
      BY <1>6, <2>1, DeviceKept DEF Start
    <3> QED
      BY <1>1, <3>1 DEF FrameInv, WorkInv, Ordered, Left, ToSet
  <2>2. CASE ~lit
    BY <1>1, <1>3, <1>6, <2>2, Beginning DEF Start
  <2> QED
    BY <2>1, <2>2
<1>7. CASE IsRunning \/ UNCHANGED vars
  <2>1. /\ job' = job /\ todo' = todo /\ late' = late /\ image' = image /\ disturbed' = disturbed
        /\ UNCHANGED device
    BY <1>7 DEF IsRunning, vars
  <2>2. /\ (horizontal' <=> horizontal) /\ (lit' <=> lit) /\ panel' = panel /\ file' = file
        /\ Left' = Left
    BY <2>1, DeviceKept DEF Left
  <2> QED
    BY <2>1, <2>2 DEF FrameInv, WorkInv, Painted, Pictures
<1>8. CASE Tick
  <2>1. /\ todo = <<>> /\ job.op = "clock" /\ todo' = <<"text">> /\ job' = job /\ late' = late
        /\ image' = image /\ disturbed' = disturbed /\ UNCHANGED device
    BY <1>8 DEF Tick
  <2>2. /\ (horizontal' <=> horizontal) /\ (lit' <=> lit) /\ panel' = panel /\ file' = file
        /\ Left = {} /\ Left' = {"text"}
    BY <2>1, DeviceKept DEF Left, ToSet
  <2>3. todo' \in Seq(Commands) /\ Ordered(todo') /\ Left' \subseteq ToSet(Script[job'.op])
    <3>1. "text" \in Commands /\ "text" \in ToSet(Script["clock"])
      BY Scripts DEF Commands, Frames
    <3>2. <<"text">> \in Seq(Commands) /\ Ordered(<<"text">>)
      BY <3>1 DEF Ordered
    <3> QED
      BY <2>1, <2>2, <3>1, <3>2
  <2>4. WorkInv'
    BY <1>1, <2>1, <2>2, <2>3 DEF WorkInv, Idle
  <2>5. Painted => Painted'
    BY <2>1, <2>2 DEF Painted, Pictures
  <2> QED
    BY <2>1, <2>4, <2>5 DEF FrameInv
<1>9. CASE Late
  <2>1. late \in Effects /\ Does(late) /\ late' = Landed /\ disturbed'
        /\ job' = job /\ todo' = todo
    BY <1>1, <1>9 DEF Late, WorkInv
  <2>2. file' \in [{"genre", "story"} -> Images \cup {None, Torn}]
    BY <1>1, <2>1, Typed
  <2> QED
    BY <1>1, <2>1, <2>2 DEF FrameInv, WorkInv, Left
<1>10. CASE DisplaySize
  BY <1>10, SkipKeeps DEF DisplaySize
<1> QED
  BY <1>4, <1>5, <1>6, <1>7, <1>8, <1>9, <1>10

LEMMA FrameStep == FrameInv /\ [Next]_vars => FrameInv'
<1> SUFFICES ASSUME FrameInv, [Next]_vars PROVE FrameInv'
  OBVIOUS
<1> QED
  BY CommandKeeps, FailingKeeps, PicturesKeep, DrawKeeps, RemoveKeeps, SerifKeeps, OthersKeep DEF Next

LEMMA FrameBegins == Init => FrameInv
<1>1. SUFFICES ASSUME Init PROVE FrameInv
  OBVIOUS
<1>2. /\ todo = <<>> /\ job = Idle /\ late = None
      /\ file \in [{"genre", "story"} -> Images \cup {None, Torn}]
  BY <1>1 DEF Init
<1>3. todo \in Seq(Commands) /\ Ordered(todo)
  BY <1>2 DEF Ordered
<1> QED
  BY <1>2, <1>3 DEF FrameInv, WorkInv

\* An operation that ended well has left what it promises on the panel: its frame whole and
\* alone, with its own picture if any, horizontal and lit; or, of a Stop, nothing and the dark.
\* Only the effect of a command given up before can change that, and the next operation mends it.
THEOREM FramesAreWhole == Spec => []WholeFrame
<1>1. FrameInv => WholeFrame
  <2>1. SUFFICES ASSUME FrameInv, todo = <<>>, ~disturbed, job.op \in Frames \/ job.op = "stop"
                 PROVE  /\ job.op \in Frames =>
                             /\ \E ink \in {"white", "black"} : Text(job, ink) \in panel
                             /\ \A l \in panel : \/ l.what = job.op /\ l.of = job.of
                                                \/ l \in {Picture(k) : k \in Own(job) \ {None}}
                             /\ Text(job, "white") \in panel /\ job.op = "story" =>
                                  \E l \in panel : l.what = "picture"
                             /\ job.op # "alert" => horizontal /\ lit
                        /\ job.op = "stop" => panel = {} /\ ~lit
    BY DEF WholeFrame
  <2>2. Left = {} /\ job # Idle
    BY <2>1 DEF Left, ToSet, Idle, Frames
  <2>3. Painted
    BY <2>1, <2>2 DEF FrameInv
  <2>4. \A l \in Mine(job) : \/ l.what = job.op /\ l.of = job.of
                           \/ l \in {Picture(k) : k \in Own(job) \ {None}}
    BY DEF Mine, Text
  <2> QED
    BY <2>1, <2>2, <2>3, <2>4 DEF Painted, Frames, Lights, Pictures
<1> QED
  BY FrameBegins, <1>1, FrameStep, PTL DEF Spec

-----------------------------------------------------------------------------
(* The bytes of a list of images.                                           *)

Sizes(s) == [i \in 1..Len(s) |-> Size[s[i]]]

\* f counts the bytes of s, from its start.
Counts(f, s) == f \in [0..Len(s) -> Nat] /\ Sums(f, Sizes(s), Len(s))

LEMMA Counted ==
  ASSUME CacheAssumption, NEW s \in Seq(Images)
  PROVE  \E f : Counts(f, s)
<1>1. Len(s) \in Nat /\ \A i \in 1..Len(s) : Size[s[i]] \in Nat
  BY ElementOfSeq DEF CacheAssumption
<1>2. Values(Sizes(s), Len(s), Nat)
  BY <1>1 DEF Values, Sizes
<1>3. Adds(Nat)
  BY DEF Adds
<1> QED BY <1>1, <1>2, <1>3, RunningSums DEF Counts

\* What a count is made of.
LEMMA CountsUp ==
  ASSUME CacheAssumption, NEW s \in Seq(Images), NEW f, Counts(f, s)
  PROVE  /\ f \in [0..Len(s) -> Nat] /\ f[0] = 0
         /\ \A n \in 1..Len(s) : f[n] = f[n - 1] + Size[s[n]]
  BY DEF Counts, Sums, Sizes

\* There is one count, and Bytes is its last number.
LEMMA BytesCounted ==
  ASSUME CacheAssumption, NEW s \in Seq(Images), NEW f, Counts(f, s)
  PROVE  Bytes(s) = f[Len(s)] /\ Bytes(s) \in Nat
<1> DEFINE Next1Of(g) == [n \in 0..Len(s) |-> IF n = 0 THEN 0 ELSE g[n - 1] + Size[s[n]]]
           T == CHOOSE g : g = Next1Of(g)
<1>1. Len(s) \in Nat /\ \A i \in 1..Len(s) : Size[s[i]] \in Nat
  BY ElementOfSeq DEF CacheAssumption
<1>2. Bytes(s) = T[Len(s)]
  BY DEF Bytes
<1>3. f \in [0..Len(s) -> Nat] /\ f[0] = 0 /\ \A n \in 1..Len(s) : f[n] = f[n - 1] + Size[s[n]]
  BY CountsUp
<1>4. f = Next1Of(f)
  <2>1. f = [n \in 0..Len(s) |-> f[n]]
    BY <1>3
  <2>2. \A n \in 0..Len(s) : f[n] = IF n = 0 THEN 0 ELSE f[n - 1] + Size[s[n]]
    BY <1>1, <1>3
  <2> QED BY <2>1, <2>2
<1>5. T = Next1Of(T)
  <2> HIDE DEF Next1Of
  <2> QED BY <1>4, Zenon
<1> HIDE DEF T
<1>6. Sums(T, Sizes(s), Len(s))
  <2> DEFINE U == T
  <2>1. U = Next1Of(U)
    BY <1>5
  <2> HIDE DEF U
  <2>2. \A n \in 0..Len(s) : U[n] = IF n = 0 THEN 0 ELSE U[n - 1] + Size[s[n]]
    BY <2>1
  <2>3. U[0] = 0 /\ \A n \in 1..Len(s) : U[n] = U[n - 1] + Size[s[n]]
    BY <1>1, <2>2
  <2> QED BY <2>3 DEF U, Sums, Sizes
<1>7. \A n \in 0..Len(s) : f[n] = T[n]
  BY <1>1, <1>6, SameSums DEF Counts
<1>8. Len(s) \in 0..Len(s)
  BY <1>1
<1> QED BY <1>2, <1>3, <1>7, <1>8

\* The bytes of a stretch of s are what the count of s grows over it.
LEMMA BytesOfStretch ==
  ASSUME CacheAssumption, NEW s \in Seq(Images), NEW t \in Seq(Images), NEW a \in Nat,
         a + Len(t) \leq Len(s), \A i \in 1..Len(t) : t[i] = s[a + i],
         NEW f, Counts(f, s)
  PROVE  Bytes(t) = f[a + Len(t)] - f[a] /\ Bytes(t) \in Nat
<1>1. PICK h : Counts(h, t)
  BY Counted
<1>2. Len(s) \in Nat /\ Len(t) \in Nat /\ \A i \in 1..Len(t) : Size[t[i]] \in Nat
  BY ElementOfSeq DEF CacheAssumption
<1>3. /\ h \in [0..Len(t) -> Nat] /\ h[0] = 0
      /\ \A n \in 1..Len(t) : h[n] = h[n - 1] + Size[t[n]]
  BY <1>1, CountsUp
<1>4. f \in [0..Len(s) -> Nat] /\ \A n \in 1..Len(s) : f[n] = f[n - 1] + Size[s[n]]
  BY CountsUp
<1>5. \A n \in 0..Len(t) : h[n] \in Int /\ f[a + n] \in Int
  <2>1. \A n \in 0..Len(t) : a + n \in 0..Len(s)
    BY <1>2
  <2>2. \A n \in 0..Len(t) : h[n] \in Nat
    BY <1>3
  <2>3. \A n \in 0..Len(s) : f[n] \in Nat
    BY <1>4
  <2>4. \A n \in 0..Len(t) : f[a + n] \in Nat
    BY <2>1, <2>3
  <2> QED BY <2>2, <2>4
<1>6. \A n \in 0..Len(t) : h[n] = f[a + n] - f[a]
  <2> DEFINE S == {n \in 0..Len(t) : h[n] = f[a + n] - f[a]}
  <2>1. 0 \in S
    <3>1. h[0] = 0 /\ a + 0 = a /\ 0 \in 0..Len(t)
      BY <1>2, <1>3
    <3>2. f[a] \in Int
      BY <1>5, <3>1
    <3> QED BY <3>1, <3>2
  <2>2. ASSUME NEW n \in 1..Len(t), n - 1 \in S PROVE n \in S
    <3>1. /\ a + n \in 1..Len(s) /\ (a + n) - 1 = a + (n - 1)
          /\ n - 1 \in 0..Len(t) /\ n \in 0..Len(t) /\ 0 \in 0..Len(t) /\ a + 0 = a
      <4>1. /\ n \in Int /\ 1 \leq n /\ n \leq Len(t)
            /\ Len(t) \in Nat /\ Len(s) \in Nat /\ a + Len(t) \leq Len(s)
        BY <1>2
      <4> HIDE DEF S
      <4> QED BY <4>1
    <3>2. h[n] = h[n - 1] + Size[t[n]] /\ f[a + n] = f[a + (n - 1)] + Size[t[n]]
      BY <1>3, <1>4, <3>1
    <3>3. Size[t[n]] \in Int
      BY <1>2
    <3>4. f[a + (n - 1)] \in Int /\ f[a + 0] \in Int
      BY <1>5, <3>1, Zenon
    <3>5. h[n - 1] = f[a + (n - 1)] - f[a]
      BY <2>2
    <3> DEFINE x == f[a + (n - 1)]
               y == f[a + n]
               z == Size[t[n]]
               w == f[a]
    <3> HIDE DEF x, y, z, w
    <3>6. /\ h[n] = h[n - 1] + z /\ y = x + z /\ h[n - 1] = x - w
          /\ x \in Int /\ z \in Int /\ w \in Int
      BY <3>1, <3>2, <3>3, <3>4, <3>5 DEF x, y, z, w
    <3>7. h[n] = y - w
      BY <3>6
    <3> QED BY <3>1, <3>7 DEF y, w
  <2>3. 0..Len(t) \subseteq S
    <3> HIDE DEF S
    <3> QED BY <1>2, <2>1, <2>2, Induction
  <2> QED BY <2>3
<1>7. Len(t) \in 0..Len(t)
  BY <1>2
<1>8. Bytes(t) = h[Len(t)] /\ Bytes(t) \in Nat
  BY <1>1, BytesCounted
<1> QED BY <1>6, <1>7, <1>8

\* A list that is one list and then another has the bytes of both.
LEMMA BytesOfBoth ==
  ASSUME CacheAssumption, NEW s \in Seq(Images), NEW a \in Seq(Images), NEW b \in Seq(Images),
         Len(s) = Len(a) + Len(b), \A i \in 1..Len(a) : a[i] = s[i],
         \A i \in 1..Len(b) : b[i] = s[Len(a) + i]
  PROVE  Bytes(s) = Bytes(a) + Bytes(b) /\ Bytes(a) \in Nat /\ Bytes(b) \in Nat
<1>1. Len(a) \in Nat /\ Len(b) \in Nat /\ Len(s) \in Nat
  OBVIOUS
<1>2. PICK f : Counts(f, s)
  BY Counted
<1>3. Bytes(s) = f[Len(s)]
  BY <1>2, BytesCounted
<1>4. Bytes(a) = f[0 + Len(a)] - f[0] /\ Bytes(a) \in Nat
  <2>1. \A i \in 1..Len(a) : a[i] = s[0 + i]
    BY <1>1
  <2>2. 0 \in Nat /\ 0 + Len(a) \leq Len(s)
    BY <1>1
  <2> QED BY <1>2, <2>1, <2>2, BytesOfStretch
<1>5. Bytes(b) = f[Len(a) + Len(b)] - f[Len(a)] /\ Bytes(b) \in Nat
  <2>1. Len(a) \in Nat /\ Len(a) + Len(b) \leq Len(s) /\ Counts(f, s)
    BY <1>1, <1>2
  <2>2. \A i \in 1..Len(b) : b[i] = s[Len(a) + i]
    OBVIOUS
  <2> QED BY <2>1, <2>2, BytesOfStretch
<1>6. /\ f[0] = 0 /\ f[Len(a)] \in Nat /\ f[Len(s)] \in Nat
      /\ 0 + Len(a) = Len(a) /\ Len(a) + Len(b) = Len(s)
  <2>1. Len(a) \in 0..Len(s) /\ Len(s) \in 0..Len(s)
    BY <1>1
  <2>2. f[0] = 0 /\ f \in [0..Len(s) -> Nat]
    BY <1>2, CountsUp
  <2>3. f[Len(a)] \in Nat /\ f[Len(s)] \in Nat
    BY <2>1, <2>2
  <2>4. 0 + Len(a) = Len(a) /\ Len(a) + Len(b) = Len(s)
    BY <1>1
  <2> QED BY <2>2, <2>3, <2>4
<1> DEFINE x == f[Len(a)]
           y == f[Len(s)]
<1>7. Bytes(s) = y /\ Bytes(a) = x - 0 /\ Bytes(b) = y - x /\ x \in Nat /\ y \in Nat
  BY <1>3, <1>4, <1>5, <1>6, Zenon
<1> HIDE DEF x, y
<1> QED BY <1>4, <1>5, <1>7

LEMMA BytesOfNone ==
  ASSUME CacheAssumption
  PROVE  Bytes(<<>>) = 0
<1>1. <<>> \in Seq(Images) /\ Len(<<>>) = 0
  OBVIOUS
<1>2. PICK f : Counts(f, <<>>)
  BY <1>1, Counted
<1>3. Bytes(<<>>) = f[Len(<<>>)]
  BY <1>1, <1>2, BytesCounted
<1> QED BY <1>1, <1>2, <1>3, CountsUp

LEMMA BytesOfOne ==
  ASSUME CacheAssumption, NEW k \in Images
  PROVE  Bytes(<<k>>) = Size[k] /\ Size[k] \in Nat
<1> DEFINE s == <<k>>
<1>1. s \in Seq(Images) /\ Len(s) = 1 /\ s[1] = k
  OBVIOUS
<1>2. Size[k] \in Nat
  BY DEF CacheAssumption
<1> HIDE DEF s
<1>3. PICK f : Counts(f, s)
  BY <1>1, Counted
<1>4. Bytes(s) = f[Len(s)]
  BY <1>1, <1>3, BytesCounted
<1>5. f[0] = 0 /\ f[1] = f[1 - 1] + Size[s[1]] /\ 1 - 1 = 0
  <2>1. f[0] = 0 /\ \A n \in 1..Len(s) : f[n] = f[n - 1] + Size[s[n]]
    BY <1>1, <1>3, CountsUp
  <2> QED BY <1>1, <2>1
<1>6. f[1] = Size[k]
  BY <1>1, <1>2, <1>5
<1> QED BY <1>1, <1>2, <1>4, <1>6 DEF s

-----------------------------------------------------------------------------
(* The order.                                                               *)

\* A list of images without repeats has as many images as places.
LEMMA AsManyImages ==
  ASSUME NEW s \in Seq(Images), IsInjective(s)
  PROVE  Cardinality(ToSet(s)) = Len(s)
<1>1. Len(s) \in Nat /\ DOMAIN s = 1..Len(s)
  OBVIOUS
<1>2. s \in Bijection(1..Len(s), ToSet(s))
  <2>1. s \in [1..Len(s) -> ToSet(s)]
    BY <1>1 DEF ToSet
  <2>2. \A x \in ToSet(s) : \E i \in 1..Len(s) : s[i] = x
    BY <1>1 DEF ToSet
  <2> QED BY <2>1, <2>2 DEF Bijection, Injection, Surjection
<1>3. ExistsBijection(1..Len(s), ToSet(s))
  BY <1>2 DEF ExistsBijection
<1>4. IsFiniteSet(1..Len(s)) /\ Cardinality(1..Len(s)) = Len(s)
  BY <1>1, FS_Interval
<1>5. Cardinality(ToSet(s)) = Cardinality(1..Len(s))
  BY <1>3, <1>4, FS_Bijection
<1> QED BY <1>4, <1>5

\* The lists a list is cut into: the n first, and the others.
LEMMA Cut ==
  ASSUME NEW s \in Seq(Images), NEW n \in 0..Len(s)
  PROVE  LET a == SubSeq(s, 1, n)
             b == SubSeq(s, n + 1, Len(s))
         IN  /\ a \in Seq(Images) /\ Len(a) = n /\ \A i \in 1..n : a[i] = s[i]
             /\ b \in Seq(Images) /\ Len(b) = Len(s) - n
             /\ \A i \in 1..Len(s) - n : b[i] = s[n + i]
<1>1. Len(s) \in Nat /\ n \in Int /\ n + 1 \in Int /\ 1 \in Int /\ Len(s) \in Int
  OBVIOUS
<1>2. \A i \in 1..Len(s) : s[i] \in Images
  BY ElementOfSeq
<1>3. /\ SubSeq(s, 1, n) \in Seq(Images)
      /\ Len(SubSeq(s, 1, n)) = IF 1 <= n THEN n - 1 + 1 ELSE 0
      /\ \A i \in 1..n - 1 + 1 : SubSeq(s, 1, n)[i] = s[1 + i - 1]
  <2>1. \A i \in 1..n : s[i] \in Images
    BY <1>1, <1>2
  <2> QED BY <1>1, <2>1, SubSeqProperties
<1>4. /\ SubSeq(s, n + 1, Len(s)) \in Seq(Images)
      /\ Len(SubSeq(s, n + 1, Len(s))) = IF n + 1 <= Len(s) THEN Len(s) - (n + 1) + 1 ELSE 0
      /\ \A i \in 1..Len(s) - (n + 1) + 1 : SubSeq(s, n + 1, Len(s))[i] = s[(n + 1) + i - 1]
  <2>1. \A i \in n + 1..Len(s) : s[i] \in Images
    BY <1>1, <1>2
  <2> QED BY <1>1, <2>1, SubSeqProperties
<1>5. /\ n - 1 + 1 = n /\ Len(s) - (n + 1) + 1 = Len(s) - n
      /\ \A i \in 1..n : 1 + i - 1 = i
      /\ \A i \in 1..Len(s) - n : (n + 1) + i - 1 = n + i
      /\ (IF 1 <= n THEN n ELSE 0) = n
      /\ (IF n + 1 <= Len(s) THEN Len(s) - n ELSE 0) = Len(s) - n
  BY <1>1
<1> DEFINE a == SubSeq(s, 1, n)
           b == SubSeq(s, n + 1, Len(s))
<1>6. a \in Seq(Images) /\ Len(a) = n /\ \A i \in 1..n : a[i] = s[i]
  <2> HIDE DEF a
  <2>1. Len(a) = (IF 1 <= n THEN n - 1 + 1 ELSE 0) /\ \A i \in 1..n - 1 + 1 : a[i] = s[1 + i - 1]
    BY <1>3 DEF a
  <2>2. \A i \in 1..n : a[i] = s[i]
    BY <1>5, <2>1
  <2> QED BY <1>3, <1>5, <2>1, <2>2 DEF a
<1>7. b \in Seq(Images) /\ Len(b) = Len(s) - n /\ \A i \in 1..Len(s) - n : b[i] = s[n + i]
  <2> HIDE DEF b
  <2>1. /\ Len(b) = (IF n + 1 <= Len(s) THEN Len(s) - (n + 1) + 1 ELSE 0)
        /\ \A i \in 1..Len(s) - (n + 1) + 1 : b[i] = s[(n + 1) + i - 1]
    BY <1>4 DEF b
  <2>2. \A i \in 1..Len(s) - n : b[i] = s[n + i]
    BY <1>5, <2>1
  <2> QED BY <1>4, <1>5, <2>1, <2>2 DEF b
<1> QED BY <1>6, <1>7, Zenon DEF a, b

-----------------------------------------------------------------------------
(* The cache.                                                               *)

\* Images and bytes are those of the order, and no image is in it twice.
Books(s) ==
  /\ s \in Seq(Images) /\ IsInjective(s)
  /\ Len(s) \leq maxPreparedImages /\ Bytes(s) \leq maxPreparedImageBytes

CacheInv ==
  /\ Books(preparedImageOrder)
  /\ preparedImages = ToSet(preparedImageOrder)
  /\ preparedImageBytes = Bytes(preparedImageOrder)

LEMMA CacheBegins == CacheAssumption /\ CacheInit => CacheInv
<1>1. SUFFICES ASSUME CacheAssumption, CacheInit PROVE CacheInv
  OBVIOUS
<1>2. preparedImages = {} /\ preparedImageOrder = <<>> /\ preparedImageBytes = 0
  BY <1>1 DEF CacheInit
<1>3. <<>> \in Seq(Images) /\ Len(<<>>) = 0 /\ IsInjective(<<>>) /\ ToSet(<<>>) = {}
  BY DEF IsInjective, ToSet
<1>4. Bytes(<<>>) = 0
  BY <1>1, BytesOfNone
<1>5. 0 \leq maxPreparedImages /\ 0 \leq maxPreparedImageBytes
  BY <1>1 DEF CacheAssumption
<1>6. Books(<<>>)
  BY <1>3, <1>4, <1>5 DEF Books
<1> QED BY <1>2, <1>3, <1>4, <1>6 DEF CacheInv

LEMMA CacheShows == CacheAssumption /\ CacheInv => CacheTyped /\ CacheBooks
<1>1. SUFFICES ASSUME CacheAssumption, CacheInv PROVE CacheTyped /\ CacheBooks
  OBVIOUS
<1> DEFINE s == preparedImageOrder
<1>2. s \in Seq(Images) /\ IsInjective(s) /\ preparedImages = ToSet(s)
  BY <1>1 DEF CacheInv, Books
<1>3. preparedImages \subseteq Images
  <2> HIDE DEF s
  <2> QED BY <1>2 DEF ToSet
<1>4. Cardinality(ToSet(s)) = Len(s)
  BY <1>2, AsManyImages
<1>5. PICK f : Counts(f, s)
  BY <1>1, <1>2, Counted
<1>6. Bytes(s) \in Nat
  BY <1>1, <1>2, <1>5, BytesCounted
<1> QED BY <1>1, <1>2, <1>3, <1>4, <1>6 DEF CacheInv, Books, CacheTyped, CacheBooks

\* With an image taken out of the order, the others keep theirs.
LEMMA TakenOut ==
  ASSUME CacheAssumption, NEW s \in Seq(Images), IsInjective(s), NEW p \in 1..Len(s)
  PROVE  LET r == RemoveAt(s, p)
         IN  /\ r \in Seq(Images) /\ IsInjective(r) /\ Len(r) = Len(s) - 1
             /\ ToSet(r) = ToSet(s) \ {s[p]}
             /\ Bytes(s) = Bytes(r) + Size[s[p]] /\ Bytes(r) \in Nat
<1> DEFINE n == Len(s)
           r == RemoveAt(s, p)
           a == SubSeq(s, 1, p - 1)
           b == SubSeq(s, p + 1, Len(s))
           c == SubSeq(s, (p - 1) + 1, Len(s))
<1>1. n \in Nat /\ p \in Int /\ 1 \leq p /\ p \leq n /\ p - 1 \in 0..n /\ p \in 0..n /\ p \in 1..n
  OBVIOUS
<1>2. a \in Seq(Images) /\ Len(a) = p - 1 /\ \A i \in 1..p - 1 : a[i] = s[i]
  BY <1>1, Cut
<1>3. c \in Seq(Images) /\ Len(c) = n - (p - 1) /\ \A i \in 1..n - (p - 1) : c[i] = s[(p - 1) + i]
  BY <1>1, Cut
<1>4. b \in Seq(Images) /\ Len(b) = n - p /\ \A i \in 1..n - p : b[i] = s[p + i]
  BY <1>1, Cut
<1>5. r = a \o b
  BY DEF RemoveAt
<1>6. DOMAIN s = 1..n /\ s[p] \in Images
  BY ElementOfSeq
<1>7. /\ r \in Seq(Images) /\ Len(r) = n - 1
      /\ \A i \in 1..p - 1 : a[i] = r[i]
      /\ \A i \in 1..n - p : b[i] = r[(p - 1) + i]
  <2> HIDE DEF a, b, r, n
  <2>1. /\ r \in Seq(Images) /\ Len(r) = Len(a) + Len(b)
        /\ \A i \in 1..Len(a) + Len(b) : r[i] = IF i <= Len(a) THEN a[i] ELSE b[i - Len(a)]
    BY <1>2, <1>4, <1>5, ConcatProperties
  <2>2. Len(a) + Len(b) = n - 1
    BY <1>1, <1>2, <1>4
  <2>3. \A i \in 1..n - 1 : r[i] = IF i <= p - 1 THEN a[i] ELSE b[i - (p - 1)]
    BY <1>2, <2>1, <2>2
  <2>4. ASSUME NEW i \in 1..p - 1 PROVE a[i] = r[i]
    <3>1. i \in 1..n - 1 /\ i <= p - 1
      BY <1>1
    <3> QED BY <2>3, <3>1
  <2>5. ASSUME NEW i \in 1..n - p PROVE b[i] = r[(p - 1) + i]
    <3>1. (p - 1) + i \in 1..n - 1 /\ ~((p - 1) + i <= p - 1) /\ ((p - 1) + i) - (p - 1) = i
      BY <1>1
    <3> QED BY <2>3, <3>1
  <2> QED BY <2>1, <2>2, <2>4, <2>5
<1> HIDE DEF n, r, a, b, c
<1>8. DOMAIN r = 1..n - 1
  BY <1>7
<1>9. \A i \in 1..n - 1 : r[i] = IF i < p THEN s[i] ELSE s[i + 1]
  <2>1. SUFFICES ASSUME NEW i \in 1..n - 1 PROVE r[i] = IF i < p THEN s[i] ELSE s[i + 1]
    OBVIOUS
  <2>2. CASE i < p
    <3>1. i \in 1..p - 1
      BY <1>1, <2>2
    <3> QED BY <1>2, <1>7, <2>2, <3>1
  <2>3. CASE ~(i < p)
    <3>1. i - p + 1 \in 1..n - p /\ (p - 1) + (i - p + 1) = i /\ p + (i - p + 1) = i + 1
      BY <1>1, <2>3
    <3>2. b[i - p + 1] = s[p + (i - p + 1)] /\ b[i - p + 1] = r[(p - 1) + (i - p + 1)]
      BY <1>4, <1>7, <3>1
    <3> QED BY <2>3, <3>1, <3>2
  <2> QED BY <2>2, <2>3
<1>10. IsInjective(r)
  <2>1. SUFFICES ASSUME NEW i \in 1..n - 1, NEW j \in 1..n - 1, r[i] = r[j] PROVE i = j
    BY <1>8 DEF IsInjective
  <2> DEFINE u == IF i < p THEN i ELSE i + 1
             v == IF j < p THEN j ELSE j + 1
  <2>2. u \in 1..n /\ v \in 1..n
    BY <1>1
  <2>3. r[i] = s[u] /\ r[j] = s[v]
    BY <1>9
  <2>4. u = v
    <3> HIDE DEF u, v
    <3> QED BY <1>6, <2>1, <2>2, <2>3 DEF IsInjective
  <2> QED BY <1>1, <2>4
<1>11. ToSet(r) = ToSet(s) \ {s[p]}
  <2>1. ASSUME NEW i \in 1..n - 1 PROVE r[i] \in ToSet(s) \ {s[p]}
    <3> DEFINE u == IF i < p THEN i ELSE i + 1
    <3>1. u \in 1..n /\ u # p /\ p \in 1..n
      BY <1>1
    <3>2. r[i] = s[u]
      BY <1>9
    <3> HIDE DEF u
    <3>3. s[u] # s[p]
      BY <1>6, <3>1 DEF IsInjective
    <3> QED BY <1>6, <3>1, <3>2, <3>3 DEF ToSet
  <2>2. ASSUME NEW i \in 1..n, s[i] # s[p] PROVE s[i] \in ToSet(r)
    <3> DEFINE u == IF i < p THEN i ELSE i - 1
    <3>1. i # p
      BY <2>2
    <3>2. u \in 1..n - 1 /\ i = IF u < p THEN u ELSE u + 1
      BY <1>1, <3>1
    <3> HIDE DEF u
    <3>3. r[u] = s[i]
      BY <1>9, <3>2
    <3> QED BY <1>8, <3>2, <3>3 DEF ToSet
  <2>3. ToSet(s) = {s[i] : i \in 1..n} /\ ToSet(r) = {r[i] : i \in 1..n - 1}
    BY <1>6, <1>8 DEF ToSet
  <2> QED BY <2>1, <2>2, <2>3
<1>12. Bytes(r) = Bytes(a) + Bytes(b) /\ Bytes(a) \in Nat /\ Bytes(b) \in Nat
  <2>1. Len(r) = Len(a) + Len(b)
    BY <1>1, <1>2, <1>4, <1>7
  <2>2. \A i \in 1..Len(a) : a[i] = r[i]
    BY <1>2, <1>7
  <2>3. \A i \in 1..Len(b) : b[i] = r[Len(a) + i]
    BY <1>2, <1>4, <1>7
  <2> QED BY <1>2, <1>4, <1>7, <2>1, <2>2, <2>3, BytesOfBoth
<1>13. Bytes(s) = Bytes(a) + Bytes(c) /\ Bytes(c) \in Nat
  <2>1. Len(s) = Len(a) + Len(c)
    BY <1>1, <1>2, <1>3 DEF n
  <2>2. \A i \in 1..Len(a) : a[i] = s[i]
    BY <1>2
  <2>3. \A i \in 1..Len(c) : c[i] = s[Len(a) + i]
    BY <1>2, <1>3
  <2> QED BY <1>2, <1>3, <2>1, <2>2, <2>3, BytesOfBoth
<1> DEFINE o == <<s[p]>>
<1>14. o \in Seq(Images) /\ Len(o) = 1 /\ o[1] = s[p]
  BY <1>6
<1>15. Bytes(o) = Size[s[p]] /\ Size[s[p]] \in Nat
  BY <1>6, BytesOfOne
<1> HIDE DEF o
<1>16. Bytes(c) = Bytes(o) + Bytes(b)
  <2>1. Len(c) = Len(o) + Len(b)
    BY <1>1, <1>3, <1>4, <1>14
  <2>2. \A i \in 1..Len(o) : o[i] = c[i]
    <3>1. 1 \in 1..n - (p - 1) /\ (p - 1) + 1 = p
      BY <1>1
    <3>2. c[1] = s[(p - 1) + 1]
      BY <1>3, <3>1
    <3>3. \A i \in 1..1 : i = 1
      OBVIOUS
    <3> QED BY <1>14, <3>1, <3>2, <3>3
  <2>3. \A i \in 1..Len(b) : b[i] = c[Len(o) + i]
    <3>1. SUFFICES ASSUME NEW i \in 1..n - p PROVE b[i] = c[1 + i]
      BY <1>4, <1>14
    <3>2. 1 + i \in 1..n - (p - 1) /\ (p - 1) + (1 + i) = p + i
      BY <1>1
    <3>3. c[1 + i] = s[(p - 1) + (1 + i)]
      BY <1>3, <3>2
    <3> QED BY <1>4, <3>2, <3>3
  <2> QED BY <1>3, <1>4, <1>14, <2>1, <2>2, <2>3, BytesOfBoth
<1>17. Bytes(s) = Bytes(r) + Size[s[p]] /\ Bytes(r) \in Nat
  BY <1>12, <1>13, <1>15, <1>16
<1> QED BY <1>7, <1>10, <1>11, <1>17 DEF n, r

\* With an image that is not in it put at the end of the order, it has one more.
LEMMA PutLast ==
  ASSUME CacheAssumption, NEW s \in Seq(Images), IsInjective(s), NEW k \in Images, k \notin ToSet(s)
  PROVE  LET t == Append(s, k)
         IN  /\ t \in Seq(Images) /\ IsInjective(t) /\ Len(t) = Len(s) + 1
             /\ ToSet(t) = ToSet(s) \cup {k}
             /\ Bytes(t) = Bytes(s) + Size[k] /\ Bytes(s) \in Nat /\ Size[k] \in Nat
<1> DEFINE n == Len(s)
           t == Append(s, k)
           o == <<k>>
<1>1. n \in Nat /\ DOMAIN s = 1..n
  OBVIOUS
<1>2. /\ t \in Seq(Images) /\ Len(t) = n + 1 /\ DOMAIN t = 1..n + 1
      /\ t[n + 1] = k /\ \A i \in 1..n : t[i] = s[i]
  OBVIOUS
<1>3. o \in Seq(Images) /\ Len(o) = 1 /\ o[1] = k
  OBVIOUS
<1> HIDE DEF n, t, o
<1>4. \A i \in 1..n : s[i] # k
  BY <1>1 DEF ToSet
<1>5. \A i \in 1..n + 1 : i = n + 1 \/ i \in 1..n
  BY <1>1
<1>6. IsInjective(t)
  <2>1. SUFFICES ASSUME NEW i \in 1..n + 1, NEW j \in 1..n + 1, t[i] = t[j] PROVE i = j
    BY <1>2 DEF IsInjective
  <2>2. CASE i \in 1..n /\ j \in 1..n
    BY <1>1, <1>2, <2>1, <2>2 DEF IsInjective
  <2>3. CASE i = n + 1 \/ j = n + 1
    BY <1>2, <1>4, <1>5, <2>1, <2>3
  <2> QED BY <1>5, <2>2, <2>3
<1>7. ToSet(t) = ToSet(s) \cup {k}
  <2>1. ToSet(s) = {s[i] : i \in 1..n} /\ ToSet(t) = {t[i] : i \in 1..n + 1}
    BY <1>1, <1>2 DEF ToSet
  <2>2. n + 1 \in 1..n + 1 /\ \A i \in 1..n : i \in 1..n + 1
    BY <1>1
  <2> QED BY <1>2, <1>5, <2>1, <2>2
<1>8. Bytes(t) = Bytes(s) + Bytes(o) /\ Bytes(s) \in Nat
  <2>1. Len(t) = Len(s) + Len(o)
    BY <1>2, <1>3 DEF n
  <2>2. \A i \in 1..Len(s) : s[i] = t[i]
    BY <1>2 DEF n
  <2>3. \A i \in 1..Len(o) : o[i] = t[Len(s) + i]
    <3>1. \A i \in 1..1 : i = 1
      OBVIOUS
    <3> QED BY <1>2, <1>3, <3>1 DEF n
  <2> QED BY <1>2, <1>3, <2>1, <2>2, <2>3, BytesOfBoth
<1>9. Bytes(o) = Size[k] /\ Size[k] \in Nat
  BY BytesOfOne DEF o
<1> QED BY <1>2, <1>6, <1>7, <1>8, <1>9 DEF n, t

\* The others, when the n first are gone.
LEMMA OthersStay ==
  ASSUME CacheAssumption, NEW s \in Seq(Images), IsInjective(s), NEW n \in 0..Len(s)
  PROVE  LET a == SubSeq(s, 1, n)
             b == SubSeq(s, n + 1, Len(s))
         IN  /\ Len(a) = n
             /\ b \in Seq(Images) /\ IsInjective(b) /\ Len(b) = Len(s) - n
             /\ ToSet(b) = ToSet(s) \ ToSet(a)
             /\ Bytes(s) = Bytes(a) + Bytes(b) /\ Bytes(a) \in Nat /\ Bytes(b) \in Nat
<1> DEFINE a == SubSeq(s, 1, n)
           b == SubSeq(s, n + 1, Len(s))
           m == Len(s)
<1>1. m \in Nat /\ n \in 0..m /\ DOMAIN s = 1..m
  OBVIOUS
<1>2. a \in Seq(Images) /\ Len(a) = n /\ \A i \in 1..n : a[i] = s[i]
  BY Cut
<1>3. b \in Seq(Images) /\ Len(b) = m - n /\ \A i \in 1..m - n : b[i] = s[n + i]
  BY Cut
<1> HIDE DEF a, b, m
<1>4. DOMAIN a = 1..n /\ DOMAIN b = 1..m - n
  BY <1>2, <1>3
<1>5. \A i \in 1..m - n : n + i \in 1..m /\ n + i \notin 1..n
  BY <1>1
<1>6. IsInjective(b)
  <2>1. SUFFICES ASSUME NEW i \in 1..m - n, NEW j \in 1..m - n, b[i] = b[j] PROVE i = j
    BY <1>4 DEF IsInjective
  <2>2. n + i = n + j
    BY <1>1, <1>3, <1>5, <2>1 DEF IsInjective
  <2> QED BY <1>1, <2>2
<1>7. ToSet(b) = ToSet(s) \ ToSet(a)
  <2>1. /\ ToSet(s) = {s[i] : i \in 1..m} /\ ToSet(a) = {a[i] : i \in 1..n}
        /\ ToSet(b) = {b[i] : i \in 1..m - n}
    BY <1>1, <1>4 DEF ToSet
  <2>2. ASSUME NEW i \in 1..m - n PROVE b[i] \in ToSet(s) \ ToSet(a)
    <3>1. ASSUME NEW j \in 1..n PROVE a[j] # b[i]
      <4>1. j \in 1..m /\ n + i \in 1..m /\ n + i # j
        BY <1>1
      <4>2. s[j] # s[n + i]
        BY <1>1, <4>1 DEF IsInjective
      <4> QED BY <1>2, <1>3, <4>2
    <3> QED BY <1>3, <1>5, <2>1, <3>1
  <2>3. ASSUME NEW i \in 1..m, s[i] \notin ToSet(a) PROVE s[i] \in ToSet(b)
    <3>1. i \notin 1..n
      BY <1>2, <2>1, <2>3
    <3>2. i - n \in 1..m - n /\ n + (i - n) = i
      BY <1>1, <3>1
    <3>3. b[i - n] = s[n + (i - n)]
      BY <1>3, <3>2
    <3> QED BY <2>1, <3>2, <3>3
  <2> QED BY <2>1, <2>2, <2>3
<1>8. Bytes(s) = Bytes(a) + Bytes(b) /\ Bytes(a) \in Nat /\ Bytes(b) \in Nat
  <2>1. Len(s) = Len(a) + Len(b)
    BY <1>1, <1>2, <1>3 DEF m
  <2>2. \A i \in 1..Len(b) : b[i] = s[Len(a) + i]
    BY <1>2, <1>3
  <2>3. \A i \in 1..Len(a) : a[i] = s[i]
    BY <1>2
  <2> QED BY <1>2, <1>3, <2>1, <2>2, <2>3, BytesOfBoth
<1> QED BY <1>2, <1>3, <1>6, <1>7, <1>8 DEF a, b, m

\* A hit.
LEMMA PromoteKeeps ==
  ASSUME CacheAssumption, CacheInv, NEW k \in preparedImages, Promote(k)
  PROVE  CacheInv'
<1> DEFINE s == preparedImageOrder
           p == CHOOSE i \in 1..Len(s) : s[i] = k /\ \A j \in 1..i - 1 : s[j] # k
           r == RemoveAt(s, p)
<1>1. /\ s \in Seq(Images) /\ IsInjective(s) /\ preparedImages = ToSet(s)
      /\ Len(s) \leq maxPreparedImages /\ Bytes(s) \leq maxPreparedImageBytes
      /\ preparedImageBytes = Bytes(s)
  BY DEF CacheInv, Books
<1>2. /\ preparedImageOrder' = Append(r, k)
      /\ preparedImages' = preparedImages /\ preparedImageBytes' = preparedImageBytes
  BY DEF Promote, Promoted
<1>3. p \in 1..Len(s) /\ s[p] = k
  <2>1. \E i \in 1..Len(s) : s[i] = k /\ \A j \in 1..i - 1 : s[j] # k
    <3> HIDE DEF s
    <3>1. Len(s) \in Nat /\ DOMAIN s = 1..Len(s)
      BY <1>1
    <3>2. PICK i \in 1..Len(s) : s[i] = k
      BY <1>1, <3>1 DEF ToSet
    <3>3. ASSUME NEW j \in 1..i - 1 PROVE s[j] # k
      <4>1. j \in 1..Len(s) /\ j # i
        BY <3>1
      <4> QED BY <1>1, <3>1, <3>2, <4>1 DEF IsInjective
    <3> QED BY <3>2, <3>3
  <2> HIDE DEF s
  <2> QED BY <2>1
<1> HIDE DEF s, p
<1>4. /\ r \in Seq(Images) /\ IsInjective(r) /\ Len(r) = Len(s) - 1
      /\ ToSet(r) = ToSet(s) \ {k}
      /\ Bytes(s) = Bytes(r) + Size[k]
  BY <1>1, <1>3, TakenOut
<1> HIDE DEF r
<1>5. k \in Images
  <2>1. \A i \in 1..Len(s) : s[i] \in Images
    BY <1>1, ElementOfSeq
  <2> QED BY <1>3, <2>1
<1>6. /\ Append(r, k) \in Seq(Images) /\ IsInjective(Append(r, k))
      /\ Len(Append(r, k)) = Len(r) + 1
      /\ ToSet(Append(r, k)) = ToSet(r) \cup {k}
      /\ Bytes(Append(r, k)) = Bytes(r) + Size[k]
  BY <1>4, <1>5, PutLast
<1>7. Len(Append(r, k)) = Len(s) /\ Bytes(Append(r, k)) = Bytes(s)
  <2>1. Len(s) \in Nat
    BY <1>1
  <2> QED BY <1>4, <1>6, <2>1
<1>8. ToSet(Append(r, k)) = ToSet(s)
  BY <1>1, <1>4, <1>6
<1>9. Books(Append(r, k))
  BY <1>1, <1>6, <1>7 DEF Books
<1> QED BY <1>1, <1>2, <1>7, <1>8, <1>9 DEF CacheInv, Books

\* The loop of put ends: when nothing is left there is room.
LEMMA Evicts ==
  ASSUME CacheInv, NEW k
  PROVE  \E n \in 0..Len(preparedImageOrder) :
           Evicted(k) = SubSeq(preparedImageOrder, 1, n) /\ Fits(n, k)
<1> DEFINE m == Len(preparedImageOrder)
           T == {i \in 0..m : Fits(i, k)}
           n == CHOOSE i \in 0..m : Fits(i, k) /\ \A j \in 0..i - 1 : ~Fits(j, k)
<1>1. m \in Nat
  BY DEF CacheInv, Books
<1>2. Fits(m, k)
  BY <1>1 DEF Fits
<1>3. Evicted(k) = SubSeq(preparedImageOrder, 1, n)
  BY DEF Evicted
<1> HIDE DEF m
<1>4. T \in SUBSET Nat /\ m \in T
  BY <1>1, <1>2
<1>5. PICK i \in T : \A j \in 0..i - 1 : j \notin T
  <2> HIDE DEF T
  <2> QED BY <1>4, LeastNumber
<1>6. i \in 0..m /\ Fits(i, k) /\ \A j \in 0..i - 1 : j \in 0..m
  BY <1>1, <1>5
<1>7. \A j \in 0..i - 1 : ~Fits(j, k)
  BY <1>5, <1>6
<1>8. n \in 0..m /\ Fits(n, k)
  BY <1>6, <1>7
<1> HIDE DEF n
<1> QED BY <1>3, <1>8 DEF m

\* A put, and all it evicts.
LEMMA PutKeeps ==
  ASSUME CacheAssumption, CacheInv, NEW k \in Images, Put(k)
  PROVE  CacheInv'
<1>1. CASE UNCHANGED cacheVars
  BY <1>1 DEF cacheVars, CacheInv, Books
<1>2. CASE Insert(k) /\ ~Skipped(k)
  <2> DEFINE s == preparedImageOrder
  <2>1. /\ s \in Seq(Images) /\ IsInjective(s) /\ preparedImages = ToSet(s)
        /\ preparedImageBytes = Bytes(s) /\ k \notin ToSet(s)
    BY <1>2 DEF CacheInv, Books, Skipped
  <2>2. PICK n \in 0..Len(s) : Evicted(k) = SubSeq(s, 1, n) /\ Fits(n, k)
    BY Evicts
  <2> DEFINE a == SubSeq(s, 1, n)
             b == SubSeq(s, n + 1, Len(s))
  <2>3. /\ Len(a) = n
        /\ b \in Seq(Images) /\ IsInjective(b) /\ Len(b) = Len(s) - n
        /\ ToSet(b) = ToSet(s) \ ToSet(a)
        /\ Bytes(s) = Bytes(a) + Bytes(b) /\ Bytes(a) \in Nat /\ Bytes(b) \in Nat
    <3> HIDE DEF s
    <3> QED BY <2>1, OthersStay
  <2>4. /\ preparedImages' = (ToSet(s) \ ToSet(a)) \cup {k}
        /\ preparedImageOrder' = Append(SubSeq(s, Len(a) + 1, Len(s)), k)
        /\ preparedImageBytes' = Bytes(s) - Bytes(a) + Size[k]
    BY <1>2, <2>1, <2>2 DEF Insert
  <2>5. /\ Size[k] \leq maxPreparedImageBytes /\ Size[k] \in Nat
        /\ maxPreparedImages \in Nat \ {0} /\ maxPreparedImageBytes \in Nat
    BY <1>2 DEF Skipped, CacheAssumption
  <2>6. \/ Len(s) - n = 0
        \/ /\ Len(s) - n < maxPreparedImages
           /\ Bytes(s) - Bytes(a) + Size[k] \leq maxPreparedImageBytes
    BY <2>1, <2>2 DEF Fits
  <2> HIDE DEF s, a
  <2>7. preparedImageOrder' = Append(b, k)
    BY <2>3, <2>4
  <2> HIDE DEF b
  <2>8. k \notin ToSet(b)
    BY <2>1, <2>3
  <2>9. /\ Append(b, k) \in Seq(Images) /\ IsInjective(Append(b, k))
        /\ Len(Append(b, k)) = Len(b) + 1
        /\ ToSet(Append(b, k)) = ToSet(b) \cup {k}
        /\ Bytes(Append(b, k)) = Bytes(b) + Size[k]
    BY <2>3, <2>8, PutLast
  <2>10. Len(b) + 1 \leq maxPreparedImages
    <3>1. Len(b) \in Nat
      BY <2>3
    <3> QED BY <2>3, <2>5, <2>6, <3>1
  <2>11. Bytes(b) + Size[k] = Bytes(s) - Bytes(a) + Size[k]
    BY <2>3, <2>5
  <2>12. Bytes(b) + Size[k] \leq maxPreparedImageBytes
    <3>1. CASE Len(s) - n = 0
      <4>1. b = <<>>
        BY <2>3, <3>1
      <4>2. Bytes(b) = 0
        BY <4>1, BytesOfNone
      <4> QED BY <2>5, <4>2
    <3>2. CASE Bytes(s) - Bytes(a) + Size[k] \leq maxPreparedImageBytes
      BY <2>11, <3>2
    <3> QED BY <2>6, <3>1, <3>2
  <2>13. Books(Append(b, k))
    BY <2>9, <2>10, <2>12 DEF Books
  <2> QED BY <2>3, <2>4, <2>7, <2>9, <2>11, <2>13 DEF CacheInv, Books
<1> QED BY <1>1, <1>2 DEF Put

-----------------------------------------------------------------------------
(* The types, and the books of the cache.                                   *)

\* What is on the panel, and the flags.
Shown ==
  /\ horizontal \in BOOLEAN /\ lit \in BOOLEAN /\ running \in BOOLEAN /\ disturbed \in BOOLEAN
  /\ panel \subseteq Layers
  /\ image \in {"none", "ready", "drawn"}

\* A command puts nothing on the panel but texts, and pictures from the files.
LEMMA EffectShown ==
  ASSUME WorkInv, Shown, NEW e \in Effects, Does(e)
  PROVE  horizontal' \in BOOLEAN /\ lit' \in BOOLEAN /\ panel' \subseteq Layers
<1>1. horizontal' \in BOOLEAN /\ lit' \in BOOLEAN
  BY Zenon DEF Does
<1>2. CASE e.do = "add"
  <2>1. panel' = panel \cup {e.with}
    BY <1>2 DEF Does
  <2>2. e.with \in Layers
    BY <1>2 DEF Effects, Plain, Add, Paste, Write, Needed
  <2> QED BY <1>1, <2>1, <2>2 DEF Shown
<1>3. CASE e.do = "paste" /\ file[e.on] # None
  <2>1. panel' = panel \cup {Picture(file[e.on])}
    BY <1>3 DEF Does
  <2>2. e.on \in {"genre", "story"}
    BY <1>3 DEF Effects, Plain, Add, Paste, Write, Needed
  <2>3. file[e.on] \in Images \cup {Torn}
    BY <1>3, <2>2 DEF WorkInv
  <2>4. Picture(file[e.on]) \in Layers
    BY <2>3 DEF Layers
  <2> QED BY <1>1, <2>1, <2>4 DEF Shown
<1>4. CASE e.do # "add" /\ ~(e.do = "paste" /\ file[e.on] # None)
  <2>1. panel' = {} \/ panel' = panel
    BY <1>4 DEF Does
  <2> QED BY <1>1, <2>1 DEF Shown
<1> QED BY <1>1, <1>2, <1>3, <1>4

\* What the pictures of a frame do to the device and to the cache.
LEMMA PictureStep ==
  ASSUME WorkInv, StoryImage \/ StoryFallback \/ Backdrop \/ Draw \/ RemoveFile
  PROVE  /\ UNCHANGED device \/ \E e \in Effects : Does(e)
         /\ \/ UNCHANGED cacheVars
            \/ \E k \in preparedImages : Promote(k)
            \/ \E k \in Images : Put(k)
         /\ running' = running /\ disturbed' = disturbed
         /\ image' \in {image, "ready", "drawn"}
<1>1. \A c : Next1(c) => c \in Left /\ job # Idle /\ running' = running /\ disturbed' = disturbed
  BY TailOf DEF Next1, At, WorkInv, Left
<1>2. \A f \in {"genre", "story"} : \A x \in Images \cup {None, Torn} :
        Paste(f) \in Effects /\ Write(f, x) \in Effects
  BY DEF Effects
<1>3. ASSUME NEW k \in Images, Upload(k), job.op \in {"genre", "story"}
      PROVE  /\ UNCHANGED device \/ \E e \in Effects : Does(e)
             /\ image' \in {image, "ready", "drawn"}
  <2>1. /\ UNCHANGED device \/ \E x \in {Torn, k} : Does(Write(job.op, x))
        /\ image' \in {image, "ready"}
    BY <1>3 DEF Upload, Succeeds, Fails
  <2> QED BY <1>2, <1>3, <2>1
<1>4. ASSUME NEW k \in Images, Offer(k), job.op \in {"genre", "story"}
      PROVE  /\ UNCHANGED device \/ \E e \in Effects : Does(e)
             /\ image' \in {image, "ready", "drawn"}
             /\ \/ UNCHANGED cacheVars
                \/ \E i \in preparedImages : Promote(i)
                \/ \E i \in Images : Put(i)
  <2>1. CASE Upload(k)
    BY <1>3, <1>4, <2>1 DEF Offer, Skip
  <2>2. CASE Skip
    BY <2>2 DEF Skip
  <2> QED BY <1>4, <2>1, <2>2 DEF Offer
<1>5. Skip => UNCHANGED cacheVars /\ UNCHANGED device /\ image' = image
  BY DEF Skip
<1>6. CASE StoryImage
  <2>1. Next1("image") /\ job.op = "story" /\ job \in Jobs
    BY <1>1, <1>6, Belongs DEF StoryImage
  <2>2. Skip \/ (Image[job.of] \in Images /\ Offer(Image[job.of]))
    BY <1>6, <2>1, SubjectOf DEF StoryImage
  <2> QED BY <1>1, <1>4, <1>5, <2>1, <2>2
<1>7. CASE StoryFallback
  <2>1. Next1("fallback") /\ job.op = "story" /\ job \in Jobs
    BY <1>1, <1>7, Belongs DEF StoryFallback
  <2>2. Skip \/ (Asset[Genre[job.of]] \in Images /\ Offer(Asset[Genre[job.of]]))
    BY <1>7, <2>1, SubjectOf DEF StoryFallback
  <2> QED BY <1>1, <1>4, <1>5, <2>1, <2>2
<1>8. CASE Backdrop
  <2>1. Next1("backdrop") /\ job.op = "genre" /\ job \in Jobs
    BY <1>1, <1>8, Belongs DEF Backdrop
  <2>2. Skip \/ (Asset[job.of] \in Images /\ Upload(Asset[job.of]) /\ UNCHANGED cacheVars)
    BY <1>8, <2>1, SubjectOf DEF Backdrop
  <2> QED BY <1>1, <1>3, <1>5, <2>1, <2>2
<1>9. CASE Draw \/ RemoveFile
  <2>1. Next1("draw") \/ Next1("remove")
    BY <1>9 DEF Draw, RemoveFile
  <2>2. job.op \in {"genre", "story"} /\ running' = running /\ disturbed' = disturbed
    BY <1>1, <2>1, Belongs
  <2>3. UNCHANGED device \/ Does(Paste(job.op)) \/ Does(Write(job.op, None))
    BY <1>9 DEF Draw, RemoveFile, Succeeds, Fails
  <2>4. UNCHANGED cacheVars /\ image' \in {image, "drawn"}
    BY <1>9 DEF Draw, RemoveFile
  <2> QED BY <1>2, <2>2, <2>3, <2>4
<1> QED BY <1>6, <1>7, <1>8, <1>9

\* What the other steps do: they leave the cache alone.
LEMMA OtherStep ==
  ASSUME WorkInv, Shown,
         \/ Start \/ Stop \/ IsRunning \/ Paint \/ Clear \/ Tick
         \/ Command \/ CommandFails \/ Cancelled \/ Late
         \/ DisplaySize \/ Serif \/ UNCHANGED vars
  PROVE  /\ UNCHANGED device \/ \E e \in Effects : Does(e)
         /\ UNCHANGED cacheVars
         /\ running' \in BOOLEAN /\ disturbed' \in BOOLEAN
         /\ image' \in {image, "none"}
<1>1. \A c \in Needed : todo # <<>> => Effect(c) \in Effects /\ Effect("text") \in Effects
  BY EffectsOf DEF WorkInv
<1>2. CASE Start
  BY <1>2 DEF Start, Begin, Shown
<1>3. CASE Stop \/ Paint \/ Clear
  BY <1>3 DEF Stop, Paint, Clear, Begin, Shown
<1>4. CASE IsRunning \/ Tick \/ UNCHANGED vars
  BY <1>4 DEF IsRunning, Tick, vars, Shown
<1>5. CASE Command
  <2>1. PICK c \in Needed : At(c) /\ Succeeds(Effect(c)) /\ running' = Remembered
    BY <1>5 DEF Command
  <2>2. Does(Effect(c)) /\ Effect(c) \in Effects /\ disturbed' = disturbed
    BY <1>1, <2>1 DEF Succeeds, At
  <2>3. UNCHANGED cacheVars /\ image' = image
    BY <1>5 DEF Command
  <2>4. running' \in BOOLEAN
    BY <2>1 DEF Remembered, Shown
  <2> QED BY <2>2, <2>3, <2>4 DEF Shown
<1>6. CASE CommandFails
  <2>1. PICK c \in Needed : At(c) /\ Fails(Effect(c)) /\ GivesUp
    BY <1>6 DEF CommandFails
  <2>2. Effect(c) \in Effects /\ disturbed' = disturbed
    BY <1>1, <2>1 DEF At
  <2>3. Does(Effect(c)) \/ UNCHANGED device
    BY <2>1 DEF Fails
  <2> QED BY <2>1, <2>2, <2>3 DEF GivesUp, Shown
<1>7. CASE Cancelled
  BY <1>7 DEF Cancelled, GivesUp, Shown
<1>8. CASE Late
  <2>1. late \in Effects /\ Does(late)
    BY <1>8 DEF Late, WorkInv
  <2> QED BY <1>8, <2>1 DEF Late, Shown
<1>9. CASE DisplaySize
  BY <1>9 DEF DisplaySize, At, Shown
<1>10. CASE Serif
  <2>1. Effect("text") \in Effects /\ disturbed' = disturbed
    BY <1>1, <1>10 DEF Serif, At, Needed
  <2>2. Does(Effect("text")) \/ UNCHANGED device
    BY <1>10 DEF Serif, Succeeds, Fails
  <2>3. UNCHANGED cacheVars /\ running' = running /\ image' = image
    BY <1>10 DEF Serif
  <2> QED BY <2>1, <2>2, <2>3 DEF Shown
<1> QED BY <1>2, <1>3, <1>4, <1>5, <1>6, <1>7, <1>8, <1>9, <1>10

DeviceInv == FrameInv /\ SizeInv /\ Shown /\ CacheInv

LEMMA DeviceStep == DeviceInv /\ [Next]_vars => DeviceInv'
<1> SUFFICES ASSUME DeviceInv, [Next]_vars PROVE DeviceInv'
  OBVIOUS
<1>1. WorkInv /\ Shown /\ CacheInv /\ CacheAssumption
  BY CacheAssumption DEF DeviceInv, FrameInv
<1>2. /\ UNCHANGED device \/ \E e \in Effects : Does(e)
      /\ \/ UNCHANGED cacheVars
         \/ \E k \in preparedImages : Promote(k)
         \/ \E k \in Images : Put(k)
      /\ running' \in BOOLEAN /\ disturbed' \in BOOLEAN
      /\ image' \in {image, "none", "ready", "drawn"}
  <2>1. CASE StoryImage \/ StoryFallback \/ Backdrop \/ Draw \/ RemoveFile
    BY <1>1, <2>1, PictureStep DEF Shown
  <2>2. CASE \/ Start \/ Stop \/ IsRunning \/ Paint \/ Clear \/ Tick
             \/ Command \/ CommandFails \/ Cancelled \/ Late
             \/ DisplaySize \/ Serif \/ UNCHANGED vars
    BY <1>1, <2>2, OtherStep
  <2> QED BY <2>1, <2>2 DEF Next
<1>3. Shown'
  <2>1. CASE UNCHANGED device
    BY <1>1, <1>2, <2>1 DEF device, Shown
  <2>2. CASE \E e \in Effects : Does(e)
    <3>1. horizontal' \in BOOLEAN /\ lit' \in BOOLEAN /\ panel' \subseteq Layers
      BY <1>1, <2>2, EffectShown
    <3> QED BY <1>1, <1>2, <3>1 DEF Shown, Layers, Text, Picture, Jobs
  <2> QED BY <1>2, <2>1, <2>2
<1>4. CacheInv'
  <2>1. CASE UNCHANGED cacheVars
    BY <1>1, <2>1 DEF cacheVars, CacheInv, Books
  <2>2. CASE \E k \in preparedImages : Promote(k)
    BY <1>1, <2>2, PromoteKeeps
  <2>3. CASE \E k \in Images : Put(k)
    BY <1>1, <2>3, PutKeeps
  <2> QED BY <1>2, <2>1, <2>2, <2>3
<1> QED BY <1>3, <1>4, FrameStep, SizeStep DEF DeviceInv

LEMMA DeviceBegins == Init => DeviceInv
<1> SUFFICES ASSUME Init PROVE DeviceInv
  OBVIOUS
<1>1. FrameInv
  BY FrameBegins
<1>2. SizeInv
  BY DEF Init, SizeInv
<1>3. Shown
  <2>1. [op |-> "clock", of |-> None] \in Jobs
    BY DEF Jobs, Script, Subjects
  <2>2. Text([op |-> "clock", of |-> None], "black") \in Layers
    BY <2>1 DEF Layers
  <2> QED BY <2>2 DEF Init, Shown
<1>4. CacheInv
  BY CacheAssumption, CacheBegins DEF Init
<1> QED BY <1>1, <1>2, <1>3, <1>4 DEF DeviceInv

\* The types of the device and of its cache, whatever fails and whenever its effect comes.
THEOREM DeviceTypes == Spec => []TypeOK
<1>1. DeviceInv => TypeOK
  <2> SUFFICES ASSUME DeviceInv PROVE TypeOK
    OBVIOUS
  <2>1. CacheTyped
    BY CacheAssumption, CacheShows DEF DeviceInv
  <2>2. DeviceTyped
    BY DEF DeviceInv, FrameInv, WorkInv, SizeInv, Shown, DeviceTyped, Commands
  <2> QED BY <2>1, <2>2 DEF TypeOK
<1> QED BY <1>1, DeviceBegins, DeviceStep, PTL DEF Spec

\* The map of the prepared images, the order of their use and the count of their bytes always
\* agree, and neither limit is exceeded, after every sequence of hits, puts and evictions
\* (getPreparedImage and putPreparedImage).
THEOREM CacheKeepsItsBooks == Spec => []CacheBooks
<1>1. DeviceInv => CacheBooks
  BY CacheAssumption, CacheShows DEF DeviceInv
<1> QED BY <1>1, DeviceBegins, DeviceStep, PTL DEF Spec

=============================================================================
