\* send_mem over send() outcomes that include one EINTR after a partial
\* send: bstream_write takes the -1 for SIZE_MAX, steps back a byte and
\* sends it again.
SPECIFICATION ToolsSpec
INVARIANT SendMemAgrees
CHECK_DEADLOCK FALSE
