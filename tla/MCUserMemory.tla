---------------------------- MODULE MCUserMemory ----------------------------
(* Model checking of module UserMemory with pages of twelve bytes.          *)
EXTENDS UserMemory

\* Image, guard page and stack (0 .. 3), gap, trapframe, trampoline: in order;
\* backwards; the stack right below the text; the trapframe right above the
\* stack, or between the pages of the image.
MCLayouts ==
    {[v \in VPages |-> l[v + 1]] :
        l \in {<<0, 1, 2, 3, 4, 5, 6>>, <<5, 3, 2, 1, 4, 0, 6>>, <<3, 0, 1, 5, 4, 2, 6>>,
               <<1, 0, 3, 2, 5, 4, 6>>, <<1, 3, 5, 0, 4, 2, 6>>}}

=============================================================================
