------------------------ MODULE MCStrokeController ------------------------
(* Small instances of StrokeController for TLC; lengths in millimetres,   *)
(* durations in hundredths of a second, ten of them to a control period.  *)
EXTENDS StrokeController

HalfSizes == <<40, 20>>
ApproachExtent == <<38, 19>>

\* The initial finger; inside the transit range; in shallow and in deep contact; beyond a corner.
Fingers == {<<-80, 0>>, <<-50, 10>>, <<-47, 5>>, <<-43, 5>>, <<70, 50>>}
\* Rails far away, a rail across the side of the block, and rails just round its inflation.
Rails == {<<<<-120, -140>>, <<240, 220>>>>, <<<<-120, -30>>, <<240, 220>>>>,
          <<<<-90, -140>>, <<70, 220>>>>}

Observed(fingers, references, aims, rails) ==
    {[finger |-> f, reference |-> r, face |-> face, aim |-> a, low |-> rail[1], high |-> rail[2]] :
        f \in fingers, r \in references, face \in Faces, a \in aims, rail \in rails}
SomeProblems == Observed(Fingers, {<<-80, 0>>}, {30}, Rails)

SomeTimings == {<<20, 20, 20>>, <<20, 220, 220>>, <<120, 20, 33>>, <<220, 220, 20>>}
SomePushes == {[axis |-> 1, sign |-> 1, length |-> 90], [axis |-> 2, sign |-> -1, length |-> 40],
               [axis |-> 2, sign |-> 1, length |-> 0]}
=============================================================================
