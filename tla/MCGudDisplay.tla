---------------------------- MODULE MCGudDisplay ----------------------------
(* A display of two by two RGB565 pixels, the format it is built with.     *)
EXTENDS GudDisplay

Rect(x, y, width, height, length) ==
    [x |-> x, y |-> y, width |-> width, height |-> height, length |-> length,
     compression |-> {}, compressed_length |-> 0]

\* A column, a line, a rectangle larger than the buffer, one that leaves the
\* display, one with the wrong length and a compressed one.
MCBufferRequest ==
    {Rect(1, 0, 1, 2, 4), Rect(0, 1, 2, 1, 4), Rect(0, 0, 2, 2, 8),
     Rect(1, 1, 2, 1, 4), Rect(0, 0, 1, 1, 1),
     [Rect(0, 0, 1, 1, 2) EXCEPT !.compression = {"LZ4"},
                                 !.compressed_length = 1]}

\* one of each branch of get_request
MCGetRequest ==
    {"GET_STATUS", "GET_FORMATS", "GET_CONNECTOR_STATUS", "GET_CONNECTOR_EDID"}

State(format, connector, rotations) ==
    [mode |-> <<2, 2>>, format |-> format, connector |-> connector,
     rotations |-> rotations]

MCStateRequest ==
    {State("RGB565", 0, {1}), State("RGB565", 0, {1, 2}), State("R8", 0, {})}

=============================================================================
