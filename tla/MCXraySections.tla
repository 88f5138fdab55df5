--------------------------- MODULE MCXraySections ---------------------------
(* Small instances of XraySections. *)
EXTENDS XraySections

MCRow(t, trait) == [tag |-> t, trait |-> trait, checked |-> TRUE]
MCNoSources == [k \in Sources |-> None]

MCProfile(kept, others, sources) ==
    [rows |-> [s \in Sections |-> IF MinRowCount(s) = 1 THEN kept ELSE others],
     sources |-> sources]

\* Two different tags, in either order.
MCPairs == {u \in Tags \X Tags : u[1] # u[2]}

\* One outbound; one with a leastPing balancer that an observatory
\* serves, or that nothing observes.  (Inbounds and rules likewise.)
MCProfiles ==
    UNION {{MCProfile(<<MCRow(u[1], TRUE)>>, << >>, MCNoSources),
            MCProfile(<<MCRow(u[1], TRUE)>>, <<MCRow(u[2], TRUE)>>, MCNoSources),
            MCProfile(<<MCRow(u[1], TRUE)>>, <<MCRow(u[2], TRUE)>>,
                      [MCNoSources EXCEPT !["observatory"] = {u[1]}])} : u \in MCPairs}

\* A server nobody else writes to.
MCOneProfile == {CHOOSE p \in MCProfiles : TRUE}

MCMaxRows == [s \in Sections |-> IF MinRowCount(s) = 1 THEN 2 ELSE 1]

MCSymmetry == Permutations(Tags)
=============================================================================
