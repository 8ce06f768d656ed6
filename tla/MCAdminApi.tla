----------------------------- MODULE MCAdminApi -----------------------------
(* AdminApi on a small instance: values for its constants. *)
EXTENDS AdminApi, TLC

CONSTANTS o1, o2

\* Spellings of one link, paths that come out of normalize_path with a blank or
\* an empty segment in them, the root, one too long, and one the router keeps.
MCRawPaths ==
    {<<"/", "a">>, <<" ", "a", "/", "/">>, <<"/", "a", " ", "/">>, <<"/", "/", "a">>,
     <<" ", "/", " ">>, <<"/", " ", "/">>, <<"/", "b", "/", "c", "/", "d", "/", "e">>,
     LinksRoute \o <<"/", "a">>}

Body(route_type, active) == [route_type |-> route_type, is_active |-> active]

MCBodies == {Body("v", TRUE), Body("v", FALSE), Body("blank", TRUE)}

MCFilters == {Body(None, TRUE)}

Row(time) == [body |-> Body("v", TRUE), created_at |-> time]

\* Nothing, three links of different times, or two of the same.
MCTables ==
    {<<>>,
     <<"/", "b">> :> Row(0) @@ LinksRoute \o <<"/", "a">> :> Row(1) @@ <<"/", "a">> :> Row(2),
     <<"/", "a">> :> Row(0) @@ <<"/", "b">> :> Row(0)}

MCSymmetry == Permutations({o1, o2})

=============================================================================
