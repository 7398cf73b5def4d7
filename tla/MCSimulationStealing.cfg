\* Four workers, so that the renderer may wait for a sort that has been stolen,
\* and a channel of FRAME_COUNT * PARTICLE_COUNT that fills meanwhile
SPECIFICATION FairSpec
CONSTANTS
  Workers = {w1, w2, w3, w4}
  FrameCount = 4
  ParticleCount = 1
  MaxParticles = 1
  Capacity = 4
PROPERTIES
  VideoDone
CHECK_DEADLOCK FALSE
