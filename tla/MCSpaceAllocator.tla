-------------------------- MODULE MCSpaceAllocator --------------------------
(***************************************************************************)
(* An instance of SpaceAllocator: a partition of two units, of which one   *)
(* allocator may use one and the other one, without a limit, both.  Either *)
(* account can be short, and the last item needs the space of two others.  *)
(***************************************************************************)
EXTENDS SpaceAllocator

CONSTANTS limited, unlimited

MCPartLimit == (limited :> 70) @@ (unlimited :> 0)
MCItems     == 1 .. 4
MCOwner     == <<limited, unlimited, limited, unlimited>>
MCSize      == <<1, 1, 1, 2>>

=============================================================================
